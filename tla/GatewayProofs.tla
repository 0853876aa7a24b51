---------------------------- MODULE GatewayProofs ----------------------------
(***************************************************************************)
(* Proofs about Gateway: for any number of requests, any configurations    *)
(* and any edits of them, search results of any length and any interleaving*)
(* of their calls, traces live as TraceLife says, what an endpoint asks    *)
(* for reaches its server, summaries are faithful, and requests go where   *)
(* the interface says; and the chunks of a text of any length cover it.    *)
(***************************************************************************)
EXTENDS Gateway, SequenceLemmas

-----------------------------------------------------------------------------
(* Chunks.                                                                 *)

\* Every chunk takes at least one letter, and no more than the budget and the text allow.
LEMMA CutInReach ==
  ASSUME NEW text \in Seq(Letters), NEW budget \in Nat \ {0}, NEW start \in 1..Len(text)
  PROVE  /\ Cut(text, start, budget) \in start..Len(text)
         /\ Cut(text, start, budget) <= start + budget - 1
<1> DEFINE last == start + budget - 1
           boundaries == {p \in (start + 1)..last : Boundary(text, p, last)}
<1>1. Len(text) \in Nat /\ start \in Nat /\ last \in Nat /\ start <= last
  BY LenProperties
<1>2. CASE last >= Len(text)
  BY <1>1, <1>2 DEF Cut
<1>3. CASE last < Len(text) /\ boundaries = {}
  <2>1. Cut(text, start, budget) = last
    BY <1>1, <1>3 DEF Cut
  <2> QED BY <1>1, <1>3, <2>1
<1>4. CASE last < Len(text) /\ boundaries # {}
  <2> DEFINE gaps == {last - p : p \in boundaries}
  <2>1. gaps \in SUBSET Nat /\ gaps # {}
    BY <1>1, <1>4
  <2>2. PICK n \in gaps : \A m \in gaps : n <= m
    <3> HIDE DEF gaps
    <3> QED BY <2>1, LeastElement
  <2>3. PICK p \in boundaries : n = last - p
    BY <2>2
  <2>4. \A q \in boundaries : q <= p
    <3> SUFFICES ASSUME NEW q \in boundaries PROVE q <= p
      OBVIOUS
    <3>1. last - q \in gaps
      OBVIOUS
    <3>2. n <= last - q
      <4> HIDE DEF gaps
      <4> QED BY <2>2, <3>1
    <3> QED BY <1>1, <2>3, <3>2
  <2>5. Cut(text, start, budget) = CHOOSE k \in boundaries : \A q \in boundaries : q <= k
    BY <1>1, <1>4 DEF Cut
  <2>6. Cut(text, start, budget) \in boundaries
    <3> HIDE DEF boundaries
    <3> QED BY <2>3, <2>4, <2>5
  <2> QED BY <1>1, <1>4, <2>6
<1> QED BY <1>1, <1>2, <1>3, <1>4

\* The chunks of what begins at s, given those of all that begins later.
Solves(f, text, budget, low) ==
  f = [s \in low..(Len(text) + 1) |-> ChunksFrom(text, budget, f, s)]

\* The recursion of ChunksOf ends: there is a function as it defines it.
LEMMA ChunksDefined ==
  ASSUME NEW text \in Seq(Letters), NEW budget \in Nat \ {0}
  PROVE  \E f : Solves(f, text, budget, 1) /\ ChunksOf(text, budget) = f[1]
<1> DEFINE L == Len(text)
           unsolved == {k \in 0..L : ~\E f : Solves(f, text, budget, L + 1 - k)}
<1>1. L \in Nat
  BY LenProperties
<1>2. unsolved = {}
  <2> SUFFICES ASSUME unsolved # {} PROVE FALSE
    OBVIOUS
  <2>1. PICK k \in unsolved : \A m \in unsolved : k <= m
    <3>1. unsolved \in SUBSET Nat
      BY <1>1
    <3> HIDE DEF unsolved
    <3> QED BY <3>1, LeastElement
  <2>2. k \in 0..L /\ ~\E f : Solves(f, text, budget, L + 1 - k)
    OBVIOUS
  <2>3. CASE k = 0
    <3> DEFINE g == [s \in (L + 1)..(L + 1) |-> <<>>]
    <3>1. \A s \in (L + 1)..(L + 1) : ChunksFrom(text, budget, g, s) = <<>>
      BY <1>1 DEF ChunksFrom
    <3>2. Solves(g, text, budget, L + 1)
      BY <3>1 DEF Solves
    <3> QED BY <1>1, <2>2, <2>3, <3>2
  <2>4. CASE k # 0
    <3> DEFINE low == L + 1 - k
    <3>1. low \in 1..L /\ low + 1 = L + 1 - (k - 1) /\ k - 1 \in 0..L
      BY <1>1, <2>2, <2>4
    <3>2. PICK f : Solves(f, text, budget, low + 1)
      <4>1. k - 1 \notin unsolved
        <5> HIDE DEF unsolved
        <5> QED BY <1>1, <2>1, <2>2, <3>1
      <4> QED BY <3>1, <4>1
    <3> DEFINE g == [s \in low..(L + 1) |-> IF s = low THEN ChunksFrom(text, budget, f, low) ELSE f[s]]
    <3> HIDE DEF low
    <3>3. ASSUME NEW s \in low..(L + 1)
          PROVE  ChunksFrom(text, budget, g, s) = ChunksFrom(text, budget, f, s)
      <4>1. CASE s > L
        BY <4>1 DEF ChunksFrom
      <4>2. CASE s <= L
        <5>1. s \in 1..L
          BY <1>1, <3>1, <4>2
        <5>2. Cut(text, s, budget) \in s..L
          BY <5>1, CutInReach
        <5>3. g[Cut(text, s, budget) + 1] = f[Cut(text, s, budget) + 1]
          BY <1>1, <3>1, <5>1, <5>2
        <5> HIDE DEF g
        <5> QED BY <5>3 DEF ChunksFrom
      <4> QED BY <1>1, <3>1, <4>1, <4>2
    <3>4. Solves(g, text, budget, low)
      <4>1. \A s \in (low + 1)..(L + 1) : f[s] = ChunksFrom(text, budget, f, s)
        BY <3>2 DEF Solves
      <4>2. \A s \in low..(L + 1) : s = low \/ s \in (low + 1)..(L + 1)
        BY <1>1, <3>1
      <4>3. \A s \in low..(L + 1) : g[s] = ChunksFrom(text, budget, f, s)
        BY <4>1, <4>2
      <4>4. g = [s \in low..(L + 1) |-> g[s]]
        OBVIOUS
      <4> HIDE DEF g
      <4>5. \A s \in low..(L + 1) : g[s] = ChunksFrom(text, budget, g, s)
        BY <3>3, <4>3
      <4> QED BY <4>4, <4>5 DEF Solves
    <3> QED BY <2>2, <3>4 DEF low
  <2> QED BY <2>3, <2>4
<1>3. PICK g : Solves(g, text, budget, 1)
  <2>1. L \in 0..L /\ L + 1 - L = 1
    BY <1>1
  <2>2. \E f : Solves(f, text, budget, L + 1 - L)
    BY <1>2, <2>1
  <2> QED BY <2>1, <2>2
<1> DEFINE chosen == CHOOSE f : Solves(f, text, budget, 1)
<1>4. Solves(chosen, text, budget, 1)
  BY <1>3
<1>5. ChunksOf(text, budget) = chosen[1]
  BY DEF ChunksOf, Solves
<1> QED BY <1>4, <1>5

\* What the chunks from s on are.
Partition(q, text, budget, s) ==
  /\ q \in Seq(Nat \X Nat)
  /\ \A i \in 1..Len(q) : /\ s <= q[i][1] /\ q[i][1] <= q[i][2] /\ q[i][2] <= Len(text)
                          /\ q[i][2] - q[i][1] < budget
  /\ \A i, j \in 1..Len(q) : i < j => q[i][2] < q[j][1]
  /\ \A p \in s..Len(text) : text[p] = "word" => \E i \in 1..Len(q) : q[i][1] <= p /\ p <= q[i][2]

LEMMA ChunkAdded ==
  ASSUME NEW text \in Seq(Letters), NEW budget \in Nat \ {0},
         NEW s \in 1..Len(text), NEW cut \in s..Len(text), cut <= s + budget - 1,
         NEW q, Partition(q, text, budget, cut + 1)
  PROVE  Partition((IF HasWord(text, s, cut) THEN << <<s, cut>> >> ELSE <<>>) \o q, text, budget, s)
<1>1. Len(text) \in Nat /\ s \in Nat /\ cut \in Nat /\ q \in Seq(Nat \X Nat) /\ Len(q) \in Nat
  BY LenProperties DEF Partition
<1>2. \A i \in 1..Len(q) : q[i][1] \in Nat /\ q[i][2] \in Nat
  BY <1>1, ElementOfSeq
<1>3. CASE HasWord(text, s, cut)
  <2> DEFINE one == << <<s, cut>> >>
             all == one \o q
  <2>1. one \in Seq(Nat \X Nat) /\ Len(one) = 1 /\ one[1] = <<s, cut>>
    BY <1>1
  <2>2. /\ all \in Seq(Nat \X Nat) /\ Len(all) = Len(q) + 1
        /\ all[1] = <<s, cut>>
        /\ \A i \in 1..Len(q) : all[i + 1] = q[i]
    <3> HIDE DEF one
    <3>1. /\ all \in Seq(Nat \X Nat) /\ Len(all) = Len(one) + Len(q)
          /\ \A i \in 1..(Len(one) + Len(q)) : all[i] = IF i <= Len(one) THEN one[i] ELSE q[i - Len(one)]
      BY <1>1, <2>1, ConcatProperties
    <3> HIDE DEF all
    <3>2. \A i \in 1..(1 + Len(q)) : all[i] = IF i <= 1 THEN one[i] ELSE q[i - 1]
      BY <2>1, <3>1
    <3>3. ASSUME NEW i \in 1..Len(q) PROVE all[i + 1] = q[i]
      <4>1. i + 1 \in 1..(1 + Len(q)) /\ ~(i + 1 <= 1) /\ (i + 1) - 1 = i
        BY <1>1
      <4> QED BY <3>2, <4>1
    <3>4. all[1] = one[1]
      <4>1. 1 \in 1..(1 + Len(q))
        BY <1>1
      <4> QED BY <3>2, <4>1
    <3> QED BY <1>1, <2>1, <3>1, <3>3, <3>4
  <2> HIDE DEF all
  <2>7. \A i \in 1..Len(all) : i = 1 \/ (i - 1 \in 1..Len(q) /\ all[i] = q[i - 1])
    <3> SUFFICES ASSUME NEW i \in 1..Len(all), i # 1 PROVE i - 1 \in 1..Len(q) /\ all[i] = q[i - 1]
      OBVIOUS
    <3>1. i - 1 \in 1..Len(q) /\ (i - 1) + 1 = i
      BY <1>1, <2>2
    <3> QED BY <2>2, <3>1
  <2>8. all[1][1] = s /\ all[1][2] = cut
    BY <2>2
  <2>3. \A i \in 1..Len(all) : /\ s <= all[i][1] /\ all[i][1] <= all[i][2] /\ all[i][2] <= Len(text)
                              /\ all[i][2] - all[i][1] < budget
    <3> SUFFICES ASSUME NEW i \in 1..Len(all)
                 PROVE  /\ s <= all[i][1] /\ all[i][1] <= all[i][2] /\ all[i][2] <= Len(text)
                        /\ all[i][2] - all[i][1] < budget
      OBVIOUS
    <3>1. CASE i = 1
      BY <1>1, <2>8, <3>1
    <3>2. CASE i # 1
      <4>1. PICK k \in 1..Len(q) : all[i] = q[k]
        BY <2>7, <3>2
      <4>2. /\ cut + 1 <= q[k][1] /\ q[k][1] <= q[k][2] /\ q[k][2] <= Len(text)
            /\ q[k][2] - q[k][1] < budget
        BY DEF Partition
      <4> QED BY <1>1, <1>2, <4>1, <4>2, SMTT(30)
    <3> QED BY <3>1, <3>2
  <2>4. \A i, j \in 1..Len(all) : i < j => all[i][2] < all[j][1]
    <3> SUFFICES ASSUME NEW i \in 1..Len(all), NEW j \in 1..Len(all), i < j PROVE all[i][2] < all[j][1]
      OBVIOUS
    <3>1. j - 1 \in 1..Len(q) /\ all[j] = q[j - 1]
      BY <1>1, <2>2, <2>7
    <3>2. CASE i = 1
      <4>1. cut + 1 <= q[j - 1][1]
        BY <3>1 DEF Partition
      <4>2. all[i][2] = cut /\ all[j][1] = q[j - 1][1] /\ q[j - 1][1] \in Nat
        BY <1>2, <2>8, <3>1, <3>2
      <4> QED BY <1>1, <4>1, <4>2, SMTT(30)
    <3>3. CASE i # 1
      <4>1. i - 1 \in 1..Len(q) /\ all[i] = q[i - 1] /\ i - 1 < j - 1
        BY <1>1, <2>2, <2>7, <3>3
      <4>2. q[i - 1][2] < q[j - 1][1]
        BY <3>1, <4>1 DEF Partition
      <4> QED BY <3>1, <4>1, <4>2
    <3> QED BY <3>2, <3>3
  <2>5. \A p \in s..Len(text) : text[p] = "word" => \E i \in 1..Len(all) : all[i][1] <= p /\ p <= all[i][2]
    <3> SUFFICES ASSUME NEW p \in s..Len(text), text[p] = "word"
                 PROVE  \E i \in 1..Len(all) : all[i][1] <= p /\ p <= all[i][2]
      OBVIOUS
    <3>1. CASE p <= cut
      <4>1. 1 \in 1..Len(all) /\ all[1][1] <= p /\ p <= all[1][2]
        BY <1>1, <2>2, <2>8, <3>1
      <4> QED BY <4>1
    <3>2. CASE p > cut
      <4>1. p \in (cut + 1)..Len(text)
        BY <1>1, <3>2
      <4>4. PICK i \in 1..Len(q) : q[i][1] <= p /\ p <= q[i][2]
        BY <4>1 DEF Partition
      <4>2. i + 1 \in 1..Len(all)
        BY <1>1, <2>2
      <4>3. all[i + 1] = q[i]
        BY <2>2
      <4> QED BY <4>2, <4>3, <4>4
    <3> QED BY <1>1, <3>1, <3>2
  <2>6. Partition(all, text, budget, s)
    BY <2>2, <2>3, <2>4, <2>5 DEF Partition
  <2> QED BY <1>3, <2>6 DEF all
<1>4. CASE ~HasWord(text, s, cut)
  <2>1. <<>> \o q = q
    BY <1>1
  <2>2. \A p \in s..cut : text[p] # "word"
    BY <1>4 DEF HasWord
  <2>3. /\ \A i \in 1..Len(q) : /\ cut + 1 <= q[i][1] /\ q[i][1] <= q[i][2] /\ q[i][2] <= Len(text)
                                 /\ q[i][2] - q[i][1] < budget
        /\ \A i, j \in 1..Len(q) : i < j => q[i][2] < q[j][1]
        /\ \A p \in (cut + 1)..Len(text) : text[p] = "word" =>
             \E i \in 1..Len(q) : q[i][1] <= p /\ p <= q[i][2]
    BY DEF Partition
  <2>4. ASSUME NEW i \in 1..Len(q) PROVE s <= q[i][1]
    <3>1. cut + 1 <= q[i][1] /\ q[i][1] \in Nat
      BY <1>2, <2>3
    <3> QED BY <1>1, <3>1
  <2>5. \A p \in s..Len(text) : p \in s..cut \/ p \in (cut + 1)..Len(text)
    BY <1>1
  <2>6. \A p \in s..Len(text) : text[p] = "word" => \E i \in 1..Len(q) : q[i][1] <= p /\ p <= q[i][2]
    BY <2>2, <2>3, <2>5
  <2>7. Partition(q, text, budget, s)
    BY <1>1, <2>3, <2>4, <2>6 DEF Partition
  <2> QED BY <1>4, <2>1, <2>7
<1> QED BY <1>3, <1>4

\* The chunks are in order, within the budget, and have every word of the text, however long it
\* is and wherever its boundaries are (_chunk_text).
THEOREM ChunksPartition ==
  ASSUME NEW text \in Seq(Letters), NEW budget \in Nat \ {0}
  PROVE  Partition(ChunksOf(text, budget), text, budget, 1)
<1> DEFINE L == Len(text)
<1>1. PICK f : Solves(f, text, budget, 1) /\ ChunksOf(text, budget) = f[1]
  BY ChunksDefined
<1> DEFINE failing == {k \in 0..L : ~Partition(f[L + 1 - k], text, budget, L + 1 - k)}
<1>2. L \in Nat /\ \A s \in 1..(L + 1) : f[s] = ChunksFrom(text, budget, f, s)
  BY <1>1, LenProperties DEF Solves
<1>3. failing = {}
  <2> SUFFICES ASSUME failing # {} PROVE FALSE
    OBVIOUS
  <2>1. PICK k \in failing : \A m \in failing : k <= m
    <3>1. failing \in SUBSET Nat
      BY <1>2
    <3> HIDE DEF failing
    <3> QED BY <3>1, LeastElement
  <2> DEFINE s == L + 1 - k
  <2>2. k \in 0..L /\ ~Partition(f[s], text, budget, s)
    OBVIOUS
  <2>3. CASE k = 0
    <3>1. s = L + 1 /\ s \in 1..(L + 1) /\ s > L
      BY <1>2, <2>3
    <3> HIDE DEF s
    <3>2. f[s] = <<>>
      BY <1>2, <3>1 DEF ChunksFrom
    <3>3. Partition(<<>>, text, budget, s)
      BY <1>2, <3>1 DEF Partition
    <3> QED BY <2>2, <3>2, <3>3
  <2>4. CASE k # 0
    <3> DEFINE cut == Cut(text, s, budget)
    <3>1. s \in 1..L
      BY <1>2, <2>2, <2>4
    <3>2. cut \in s..L /\ cut <= s + budget - 1
      BY <3>1, CutInReach
    <3>3. f[s] = (IF HasWord(text, s, cut) THEN << <<s, cut>> >> ELSE <<>>) \o f[cut + 1]
      <4> HIDE DEF s
      <4>1. s \in 1..(L + 1) /\ ~(s > L)
        BY <1>2, <3>1
      <4>2. f[s] = ChunksFrom(text, budget, f, s)
        BY <1>2, <4>1
      <4> QED BY <4>1, <4>2 DEF ChunksFrom
    <3>4. L - cut \in 0..L /\ L - cut < k /\ L + 1 - (L - cut) = cut + 1
      <4> HIDE DEF cut
      <4> QED BY <1>2, <2>2, <3>1, <3>2
    <3>5. Partition(f[cut + 1], text, budget, cut + 1)
      <4>1. L - cut \notin failing
        <5> HIDE DEF failing, cut
        <5> QED BY <1>2, <2>1, <2>2, <3>4
      <4>2. Partition(f[L + 1 - (L - cut)], text, budget, L + 1 - (L - cut))
        <5> HIDE DEF cut
        <5> QED BY <3>4, <4>1
      <4> QED BY <3>4, <4>2
    <3> HIDE DEF cut, s
    <3> QED BY <2>2, <3>1, <3>2, <3>3, <3>5, ChunkAdded
  <2> QED BY <2>3, <2>4
<1>4. Partition(f[L + 1 - L], text, budget, L + 1 - L)
  <2>1. L \in 0..L
    BY <1>2
  <2> QED BY <1>3, <2>1
<1> QED BY <1>1, <1>2, <1>4


-----------------------------------------------------------------------------
(* The invariant of a search: s is search[r] and c is calls[r].            *)

CallsOfAll == [1..MaxCalls -> Call]

\* What is known of a call by its stage.
CallFits(call) ==
  /\ call.stage \in {"none", "ready", "sent"} => call.got = "none"
  /\ call.stage = "unread" => call.got = "garbage"

\* Which calls can be under way in which phase.
PhaseFits(s, c) ==
  \A i \in 1..MaxCalls :
    /\ s.phase = "none" => c[i] = NoCall
    /\ s.phase = "mapping" => i \in DOMAIN s.parts \/ c[i].stage = "none"
    /\ s.phase = "reducing" => IF i \in DOMAIN s.parts THEN c[i].stage = "over"
                               ELSE i = Len(s.parts) + 1 \/ c[i].stage = "none"
    /\ s.phase = "found" => c[i].stage \in {"none", "over"}

\* The answers of the map calls are where they belong, from the first of them on.
ResultsFit(s, c) ==
  /\ Len(s.parts) < MaxCalls /\ DOMAIN s.results = DOMAIN s.parts
  /\ \A i \in DOMAIN s.parts : s.results[i] = IF c[i].got = "text" THEN i ELSE 0
  /\ s.kind = "raw" => s.phase = "found" /\ s.parts = <<>>
  /\ s.phase # "none" /\ s.kind # "raw" => Covers(s)

Told(s, c) == \E i \in DOMAIN s.parts : c[i].got = "text"

KindFits(s, c) ==
  /\ s.phase = "reducing" => s.reduce /\ Told(s, c)
  /\ s.phase = "found" /\ s.kind \in {"parts", "digest"} => Told(s, c)
  /\ s.phase = "found" /\ s.kind = "nothing" =>
       ~Told(s, c) \/ (s.reduce /\ c[Len(s.parts) + 1].got = "empty")

Fits(s, c) ==
  /\ \A i \in 1..MaxCalls : CallFits(c[i])
  /\ PhaseFits(s, c) /\ ResultsFit(s, c) /\ KindFits(s, c)

\* The files of a call's trace, by its stage.
FilesOf(progress) ==
  CASE progress \in {"none", "ready"} -> {"none"}
    [] progress = "sent"   -> {"open"}
    [] progress = "unread" -> {"settled"}
    [] progress = "over"   -> {"settled", "rewritten"}

TraceFits(r, i) == trace[<<r, i>>] \in IF logged[r] THEN FilesOf(calls[r][i].stage) ELSE {"none"}

MapTypeOK ==
  /\ logged \in [Requests -> BOOLEAN]
  /\ trace \in [Traces -> {"none", "open", "settled", "rewritten"}]
  /\ search \in [Requests -> Search]
  /\ calls \in [Requests -> CallsOfAll]

MapInv ==
  /\ MapTypeOK
  /\ \A r \in Requests : Fits(search[r], calls[r])
  /\ \A r \in Requests, i \in 1..MaxCalls : TraceFits(r, i)

-----------------------------------------------------------------------------
(* What the steps keep.                                                    *)

\* A step of one request's search.
LEMMA SearchMoves ==
  ASSUME MapInv, NEW r \in Requests, NEW s \in Search, NEW c \in CallsOfAll, Fits(s, c),
         search' = [search EXCEPT ![r] = s], calls' = [calls EXCEPT ![r] = c], logged' = logged,
         trace' \in [Traces -> {"none", "open", "settled", "rewritten"}],
         \A q \in Requests \ {r}, i \in 1..MaxCalls : trace'[<<q, i>>] = trace[<<q, i>>],
         \A i \in 1..MaxCalls : trace'[<<r, i>>] \in IF logged[r] THEN FilesOf(c[i].stage) ELSE {"none"}
  PROVE  MapInv'
<1>1. MapTypeOK'
  BY DEF MapInv, MapTypeOK
<1>2. ASSUME NEW q \in Requests PROVE Fits(search[q], calls[q])'
  <2>1. CASE q = r
    <3>1. search'[q] = s /\ calls'[q] = c
      BY <2>1 DEF MapInv, MapTypeOK
    <3> QED BY <3>1
  <2>2. CASE q # r
    <3>1. search'[q] = search[q] /\ calls'[q] = calls[q]
      BY <2>2 DEF MapInv, MapTypeOK
    <3> QED BY <3>1 DEF MapInv
  <2> QED BY <2>1, <2>2
<1>3. ASSUME NEW q \in Requests, NEW i \in 1..MaxCalls PROVE TraceFits(q, i)'
  <2>1. CASE q = r
    <3>1. calls'[q] = c
      BY <2>1 DEF MapInv, MapTypeOK
    <3> QED BY <2>1, <3>1 DEF TraceFits
  <2>2. CASE q # r
    <3>1. calls'[q] = calls[q] /\ TraceFits(q, i)
      BY <2>2 DEF MapInv, MapTypeOK
    <3> QED BY <2>2, <3>1 DEF TraceFits
  <2> QED BY <2>1, <2>2
<1> QED BY <1>1, <1>2, <1>3 DEF MapInv

LEMMA SearchTypes ==
  ASSUME MapInv, NEW r \in Requests
  PROVE  /\ search[r] \in Search /\ calls[r] \in CallsOfAll
         /\ Fits(search[r], calls[r])
         /\ Len(search[r].parts) \in Nat /\ DOMAIN search[r].parts = 1..Len(search[r].parts)
<1>1. search[r] \in Search /\ calls[r] \in CallsOfAll /\ Fits(search[r], calls[r])
  BY DEF MapInv, MapTypeOK
<1>2. search[r].parts \in Seq(Nat \X Nat)
  BY <1>1 DEF Search
<1> QED BY <1>1, <1>2, LenProperties

\* Nothing was searched for before.
LEMMA ReturnRawKeeps ==
  ASSUME MapInv, NEW r \in Requests, NEW text \in Texts, search[r].phase = "none", ReturnRaw(r, text)
  PROVE  MapInv'
<1> DEFINE s == [phase |-> "found", text |-> text, budget |-> 0, parts |-> <<>>, reduce |-> FALSE,
                 results |-> <<>>, kind |-> "raw"]
           c == calls[r]
<1>1. s.phase = "found" /\ s.parts = <<>> /\ s.results = <<>> /\ s.kind = "raw"
  OBVIOUS
<1>2. s \in Search
  <2>1. <<>> \in Seq(Nat \X Nat) /\ <<>> \in Seq(0..MaxCalls) /\ text \in Seq(Letters)
    BY EmptySeq, TextsAssumption
  <2> QED BY <2>1 DEF Search
<1>3. c \in CallsOfAll /\ \A i \in 1..MaxCalls : c[i] = NoCall /\ CallFits(c[i])
  BY SearchTypes DEF Fits, PhaseFits
<1>4. search' = [search EXCEPT ![r] = s] /\ logged' = logged /\ trace' = trace /\ calls' = calls
  BY DEF ReturnRaw
<1> HIDE DEF s
<1>5. Fits(s, c)
  <2>1. Len(<<>>) = 0 /\ DOMAIN <<>> = {} /\ 0 < MaxCalls
    BY EmptySeq, MaxCallsAssumption
  <2> HIDE DEF c
  <2> QED BY <1>1, <1>3, <2>1 DEF Fits, PhaseFits, ResultsFit, KindFits, NoCall
<1>6. calls' = [calls EXCEPT ![r] = c]
  BY <1>4 DEF MapInv, MapTypeOK
<1>7. \A i \in 1..MaxCalls : trace[<<r, i>>] \in IF logged[r] THEN FilesOf(c[i].stage) ELSE {"none"}
  BY DEF MapInv, TraceFits
<1> HIDE DEF c
<1> QED BY <1>2, <1>3, <1>4, <1>5, <1>6, <1>7, SearchMoves DEF MapInv, MapTypeOK

LEMMA StartMappingKeeps ==
  ASSUME MapInv, NEW r \in Requests, NEW text \in Texts, NEW budget \in Budgets, NEW reduce \in BOOLEAN,
         search[r].phase = "none", StartMapping(r, text, budget, reduce)
  PROVE  MapInv'
<1> DEFINE parts == ChunksOf(text, budget)
           s == [phase |-> "mapping", text |-> text, budget |-> budget, parts |-> parts,
                 reduce |-> reduce, results |-> [i \in DOMAIN parts |-> 0], kind |-> "nothing"]
           c == [i \in 1..MaxCalls |-> IF i \in DOMAIN parts THEN [NoCall EXCEPT !.stage = "ready"] ELSE NoCall]
<1>1. /\ text \in Seq(Letters) /\ budget \in Nat \ {0}
      /\ Partition(parts, text, budget, 1)
  BY ChunksPartition, TextsAssumption, BudgetsAssumption
<1>2. search' = [search EXCEPT ![r] = s] /\ logged' = logged /\ trace' = trace /\ calls' = [calls EXCEPT ![r] = c]
  BY DEF StartMapping
<1>3. /\ s.phase = "mapping" /\ s.parts = parts /\ s.results = [i \in DOMAIN parts |-> 0] /\ s.kind = "nothing"
      /\ s.text = text /\ s.budget = budget
  OBVIOUS
<1>4. /\ parts \in Seq(Nat \X Nat) /\ Len(parts) \in Nat /\ Len(parts) < MaxCalls
      /\ DOMAIN parts = 1..Len(parts)
  BY <1>1, LenProperties, MaxCallsAssumption DEF Partition
<1> HIDE DEF parts
<1>5. s \in Search
  <2>1. [i \in DOMAIN parts |-> 0] \in Seq(0..MaxCalls)
    <3>1. \A i \in 1..Len(parts) : 0 \in 0..MaxCalls
      BY MaxCallsAssumption
    <3> QED BY <1>4, <3>1
  <2> QED BY <1>1, <1>4, <2>1 DEF Search
<1>6. /\ c \in CallsOfAll
      /\ \A i \in 1..MaxCalls : c[i] \in {NoCall, [stage |-> "ready", got |-> "none"]}
      /\ \A i \in 1..MaxCalls : i \notin DOMAIN parts => c[i] = NoCall
  <2>1. [NoCall EXCEPT !.stage = "ready"] = [stage |-> "ready", got |-> "none"]
    BY DEF NoCall
  <2>2. NoCall \in Call /\ [stage |-> "ready", got |-> "none"] \in Call
    BY DEF NoCall, Call
  <2> QED BY <2>1, <2>2 DEF CallsOfAll
<1> HIDE DEF s, c
<1>10. ASSUME NEW i \in 1..MaxCalls
       PROVE  /\ CallFits(c[i]) /\ c[i].got = "none" /\ c[i].stage \in {"none", "ready"}
              /\ i \in DOMAIN parts \/ c[i].stage = "none"
  BY <1>6 DEF CallFits, NoCall
<1>7. Covers(s)
  <2>1. /\ \A i \in 1..Len(parts) : /\ 1 <= parts[i][1] /\ parts[i][1] <= parts[i][2]
                                    /\ parts[i][2] - parts[i][1] < budget
        /\ \A i, j \in 1..Len(parts) : i < j => parts[i][2] < parts[j][1]
        /\ \A p \in 1..Len(text) : text[p] = "word" =>
             \E i \in 1..Len(parts) : parts[i][1] <= p /\ p <= parts[i][2]
    BY <1>1 DEF Partition
  <2>2. DOMAIN text = 1..Len(text) /\ Len(text) \in Nat
    BY <1>1, LenProperties
  <2>3. \A i \in 1..Len(parts) : parts[i][1] \in Nat /\ parts[i][2] \in Nat
    BY <1>4, ElementOfSeq
  <2>4. \A i \in 1..Len(parts) : parts[i][2] - parts[i][1] \in 0..(budget - 1)
    <3> SUFFICES ASSUME NEW i \in 1..Len(parts) PROVE parts[i][2] - parts[i][1] \in 0..(budget - 1)
      OBVIOUS
    <3>1. parts[i][1] \in Nat /\ parts[i][2] \in Nat /\ parts[i][1] <= parts[i][2] /\ parts[i][2] - parts[i][1] < budget
      BY <2>1, <2>3
    <3> QED BY <1>1, <3>1
  <2>5. \A p \in 1..Len(text) : text[p] = "word" => \E i \in 1..Len(parts) : p \in parts[i][1]..parts[i][2]
    <3> SUFFICES ASSUME NEW p \in 1..Len(text), text[p] = "word"
                 PROVE  \E i \in 1..Len(parts) : p \in parts[i][1]..parts[i][2]
      OBVIOUS
    <3>1. PICK i \in 1..Len(parts) : parts[i][1] <= p /\ p <= parts[i][2]
      BY <2>1
    <3>2. parts[i][1] \in Nat /\ parts[i][2] \in Nat
      BY <2>3
    <3> QED BY <3>1, <3>2
  <2> QED BY <1>3, <1>4, <2>1, <2>2, <2>4, <2>5 DEF Covers
<1>8. Fits(s, c)
  <2>1. PhaseFits(s, c)
    <3>1. s.phase # "none" /\ s.phase # "reducing" /\ s.phase # "found" /\ s.phase = "mapping"
      BY <1>3
    <3> QED BY <1>3, <1>10, <3>1 DEF PhaseFits
  <2>2. ResultsFit(s, c)
    <3>1. \A i \in DOMAIN parts : i \in 1..MaxCalls
      BY <1>4, MaxCallsAssumption
    <3>2. \A i \in DOMAIN parts : s.results[i] = 0 /\ c[i].got # "text"
      BY <1>3, <1>10, <3>1
    <3>3. DOMAIN s.results = DOMAIN s.parts /\ Len(s.parts) < MaxCalls /\ s.kind # "raw"
      BY <1>3, <1>4
    <3> QED BY <1>3, <1>7, <3>2, <3>3 DEF ResultsFit
  <2>3. KindFits(s, c)
    BY <1>3 DEF KindFits
  <2>4. \A i \in 1..MaxCalls : CallFits(c[i])
    BY <1>10
  <2> QED BY <2>1, <2>2, <2>3, <2>4 DEF Fits
<1>9. \A i \in 1..MaxCalls : trace[<<r, i>>] \in IF logged[r] THEN FilesOf(c[i].stage) ELSE {"none"}
  <2> SUFFICES ASSUME NEW i \in 1..MaxCalls
               PROVE  trace[<<r, i>>] \in IF logged[r] THEN FilesOf(c[i].stage) ELSE {"none"}
    OBVIOUS
  <2>1. calls[r][i].stage = "none"
    BY SearchTypes DEF Fits, PhaseFits, NoCall
  <2>2. TraceFits(r, i)
    BY DEF MapInv
  <2>3. trace[<<r, i>>] = "none"
    BY <2>1, <2>2 DEF TraceFits, FilesOf
  <2>4. FilesOf(c[i].stage) = {"none"}
    BY <1>10 DEF FilesOf
  <2> QED BY <2>3, <2>4
<1> QED BY <1>2, <1>5, <1>6, <1>8, <1>9, SearchMoves DEF MapInv, MapTypeOK

\* A step of call i that is under way: only map calls have results.
LEMMA CallMoves ==
  ASSUME MapInv, NEW r \in Requests, NEW i \in 1..MaxCalls, NEW s \in Search, NEW call \in Call,
         NEW half \in FilesOf(call.stage),
         Busy(r), calls[r][i].stage \in {"ready", "sent", "unread"},
         CallFits(call), call.stage \in {"sent", "unread", "over"},
         s.phase = search[r].phase, s.text = search[r].text, s.budget = search[r].budget,
         s.parts = search[r].parts, s.reduce = search[r].reduce, s.kind = search[r].kind,
         s.results = IF call.got = "text" /\ search[r].phase = "mapping"
                     THEN [search[r].results EXCEPT ![i] = i] ELSE search[r].results,
         search' = [search EXCEPT ![r] = s], calls' = [calls EXCEPT ![r][i] = call],
         trace' = Write(<<r, i>>, half), logged' = logged
  PROVE  MapInv'
<1> DEFINE c == [calls[r] EXCEPT ![i] = call]
<1>1. /\ search[r] \in Search /\ calls[r] \in CallsOfAll /\ Fits(search[r], calls[r])
      /\ Len(s.parts) \in Nat /\ DOMAIN s.parts = 1..Len(s.parts)
      /\ Len(s.parts) < MaxCalls
  <2>1. search[r] \in Search /\ calls[r] \in CallsOfAll /\ Fits(search[r], calls[r])
        /\ Len(search[r].parts) \in Nat /\ DOMAIN search[r].parts = 1..Len(search[r].parts)
    BY SearchTypes
  <2> QED BY <2>1 DEF Fits, ResultsFit
<1>2. /\ c \in CallsOfAll /\ c[i] = call
      /\ \A j \in 1..MaxCalls : j # i => c[j] = calls[r][j]
      /\ calls' = [calls EXCEPT ![r] = c]
  BY <1>1 DEF CallsOfAll
<1> HIDE DEF c
<1>3. s.phase \in {"mapping", "reducing"} /\ s.phase # "none" /\ s.phase # "found"
  BY DEF Busy
<1>4. calls[r][i].got # "text" /\ call.stage # "none" /\ call.stage # "ready"
  <2>1. CallFits(calls[r][i])
    BY <1>1 DEF Fits
  <2> QED BY <2>1 DEF CallFits
<1>5. /\ s.phase = "mapping" => i \in DOMAIN s.parts
      /\ s.phase = "reducing" => i = Len(s.parts) + 1 /\ i \notin DOMAIN s.parts
  <2>1. PhaseFits(search[r], calls[r])
    BY <1>1 DEF Fits
  <2> QED BY <1>1, <2>1 DEF PhaseFits
<1>6. PhaseFits(s, c)
  <2> SUFFICES ASSUME NEW j \in 1..MaxCalls
               PROVE  /\ s.phase = "mapping" => j \in DOMAIN s.parts \/ c[j].stage = "none"
                      /\ s.phase = "reducing" => IF j \in DOMAIN s.parts THEN c[j].stage = "over"
                                                 ELSE j = Len(s.parts) + 1 \/ c[j].stage = "none"
    BY <1>3 DEF PhaseFits
  <2>1. CASE j = i
    BY <1>5, <2>1
  <2>2. CASE j # i
    <3>1. c[j] = calls[r][j]
      BY <1>2, <2>2
    <3>2. /\ s.phase = "mapping" => j \in DOMAIN s.parts \/ calls[r][j].stage = "none"
          /\ s.phase = "reducing" => IF j \in DOMAIN s.parts THEN calls[r][j].stage = "over"
                                     ELSE j = Len(s.parts) + 1 \/ calls[r][j].stage = "none"
      BY <1>1 DEF Fits, PhaseFits
    <3> QED BY <3>1, <3>2
  <2> QED BY <2>1, <2>2
<1>7. /\ DOMAIN s.results = DOMAIN s.parts
      /\ \A j \in DOMAIN s.parts : s.results[j] = IF c[j].got = "text" THEN j ELSE 0
  <2>1. /\ DOMAIN search[r].results = DOMAIN s.parts
        /\ \A j \in DOMAIN s.parts : search[r].results[j] = IF calls[r][j].got = "text" THEN j ELSE 0
    BY <1>1 DEF Fits, ResultsFit
  <2>2. \A j \in DOMAIN s.parts : j \in 1..MaxCalls
    BY <1>1, MaxCallsAssumption
  <2>3. CASE s.phase = "mapping" /\ call.got = "text"
    <3>1. s.results = [search[r].results EXCEPT ![i] = i] /\ i \in DOMAIN search[r].results
      BY <1>5, <2>1, <2>3
    <3>2. DOMAIN s.results = DOMAIN s.parts /\ s.results[i] = i
          /\ \A j \in DOMAIN s.parts : j # i => s.results[j] = search[r].results[j]
      <4> DEFINE f == search[r].results
      <4>1. f = [j \in DOMAIN f |-> f[j]]
        <5>1. f \in Seq(0..MaxCalls)
          BY <1>1 DEF Search
        <5>2. f \in [1..Len(f) -> 0..MaxCalls]
          BY <5>1, LenProperties
        <5> QED BY <5>2
      <4> HIDE DEF f
      <4> QED BY <2>1, <3>1, <4>1 DEF f
    <3> QED BY <1>2, <2>1, <2>2, <2>3, <3>2
  <2>4. CASE s.phase = "mapping" /\ call.got # "text"
    <3>1. s.results = search[r].results
      BY <2>4
    <3> QED BY <1>2, <1>4, <2>1, <2>2, <2>4, <3>1
  <2>5. CASE s.phase = "reducing"
    <3>1. s.results = search[r].results
      BY <2>5
    <3> QED BY <1>2, <1>5, <2>1, <2>2, <2>5, <3>1
  <2> QED BY <1>3, <2>3, <2>4, <2>5
<1>8. Covers(s)
  <2>1. search[r].kind # "raw" /\ search[r].phase # "none"
    BY <1>1, <1>3 DEF Fits, ResultsFit
  <2>2. Covers(search[r])
    BY <1>1, <2>1 DEF Fits, ResultsFit
  <2> QED BY <2>2 DEF Covers
<1>9. ResultsFit(s, c)
  <2>1. s.kind # "raw"
    BY <1>1, <1>3 DEF Fits, ResultsFit
  <2> QED BY <1>1, <1>7, <1>8, <2>1 DEF ResultsFit
<1>10. KindFits(s, c)
  <2>1. s.phase = "reducing" => s.reduce /\ Told(search[r], calls[r])
    BY <1>1 DEF Fits, KindFits
  <2>2. s.phase = "reducing" => Told(s, c)
    <3> SUFFICES ASSUME s.phase = "reducing" PROVE Told(s, c)
      OBVIOUS
    <3>1. PICK j \in DOMAIN s.parts : calls[r][j].got = "text"
      BY <2>1 DEF Told
    <3>2. j # i /\ j \in 1..MaxCalls
      BY <1>1, <1>5, MaxCallsAssumption
    <3> QED BY <1>2, <3>1, <3>2 DEF Told
  <2> QED BY <1>3, <2>1, <2>2 DEF KindFits
<1>11. \A j \in 1..MaxCalls : CallFits(c[j])
  BY <1>1, <1>2 DEF Fits
<1>12. Fits(s, c)
  BY <1>6, <1>9, <1>10, <1>11 DEF Fits
<1>13. /\ trace' \in [Traces -> {"none", "open", "settled", "rewritten"}]
       /\ \A t \in Traces : t # <<r, i>> => trace'[t] = trace[t]
       /\ trace'[<<r, i>>] \in IF logged[r] THEN {half} ELSE {trace[<<r, i>>]}
  <2>1. <<r, i>> \in Traces /\ <<r, i>>[1] = r
    <3>1. i \in 0..MaxCalls
      BY MaxCallsAssumption
    <3> QED BY <3>1 DEF Traces
  <2>2. half \in {"none", "open", "settled", "rewritten"}
    BY DEF FilesOf
  <2>3. trace \in [Traces -> {"none", "open", "settled", "rewritten"}]
    BY DEF MapInv, MapTypeOK
  <2>4. trace' = IF logged[r] THEN [trace EXCEPT ![<<r, i>>] = half] ELSE trace
    BY <2>1 DEF Write
  <2> QED BY <2>1, <2>2, <2>3, <2>4
<1>14. ASSUME NEW q \in Requests, NEW j \in 1..MaxCalls PROVE <<q, j>> \in Traces
  <2>1. j \in 0..MaxCalls
    BY MaxCallsAssumption
  <2> QED BY <2>1 DEF Traces
<1>15. \A q \in Requests \ {r}, j \in 1..MaxCalls : trace'[<<q, j>>] = trace[<<q, j>>]
  BY <1>13, <1>14
<1>16. ASSUME NEW j \in 1..MaxCalls
       PROVE  trace'[<<r, j>>] \in IF logged[r] THEN FilesOf(c[j].stage) ELSE {"none"}
  <2>1. trace[<<r, j>>] \in IF logged[r] THEN FilesOf(calls[r][j].stage) ELSE {"none"}
    BY DEF MapInv, TraceFits
  <2>2. CASE j = i
    BY <1>2, <1>13, <2>1, <2>2
  <2>3. CASE j # i
    BY <1>2, <1>13, <1>14, <2>1, <2>3
  <2> QED BY <2>2, <2>3
<1> QED BY <1>2, <1>12, <1>13, <1>15, <1>16, SearchMoves

\* A call that moves to another stage, and what the search is told by it: nothing.
LEMMA StageMoves ==
  ASSUME MapInv, NEW r \in Requests, NEW i \in 1..MaxCalls, NEW call, NEW half \in FilesOf(call.stage),
         Busy(r), calls[r][i].stage \in {"ready", "sent", "unread"},
         call \in Call, CallFits(call), call.stage \in {"sent", "unread", "over"}, call.got # "text",
         calls' = [calls EXCEPT ![r][i] = call],
         trace' = Write(<<r, i>>, half), logged' = logged, search' = search
  PROVE  MapInv'
<1>1. search[r] \in Search
  BY SearchTypes
<1>2. search' = [search EXCEPT ![r] = search[r]]
  BY DEF MapInv, MapTypeOK
<1> QED BY <1>1, <1>2, CallMoves

LEMMA CallStepsKeep ==
  ASSUME MapInv, NEW r \in Requests, NEW i \in 1..MaxCalls, CallSteps(r, i)
  PROVE  MapInv'
<1>1. /\ search[r] \in Search /\ calls[r] \in CallsOfAll /\ calls[r][i] \in Call
      /\ CallFits(calls[r][i]) /\ calls \in [Requests -> CallsOfAll]
  BY SearchTypes DEF Fits, CallsOfAll, MapInv, MapTypeOK
<1> DEFINE Moved(to) == [stage |-> to, got |-> calls[r][i].got]
<1>2. \A to \in {"sent", "over"} :
         [calls EXCEPT ![r][i].stage = to] = [calls EXCEPT ![r][i] = Moved(to)]
  <2>1. \A to \in {"sent", "over"} : [calls[r][i] EXCEPT !.stage = to] = Moved(to)
    BY <1>1 DEF Call
  <2> HIDE DEF Moved
  <2> QED BY <2>1
<1>3. /\ "open" \in FilesOf("sent") /\ "settled" \in FilesOf("over") /\ "settled" \in FilesOf("unread")
      /\ "rewritten" \in FilesOf("over")
  BY DEF FilesOf
<1>4. /\ Moved("sent") \in Call /\ Moved("sent").stage = "sent" /\ Moved("sent").got = calls[r][i].got
      /\ Moved("over") \in Call /\ Moved("over").stage = "over" /\ Moved("over").got = calls[r][i].got
  BY <1>1 DEF Call
<1> HIDE DEF Moved
<1>5. CASE SendCall(r, i)
  <2>1. /\ Busy(r) /\ calls[r][i].stage = "ready" /\ trace' = Write(<<r, i>>, "open")
        /\ calls' = [calls EXCEPT ![r][i] = Moved("sent")] /\ logged' = logged /\ search' = search
    BY <1>2, <1>5 DEF SendCall, Calling
  <2>2. CallFits(Moved("sent")) /\ Moved("sent").got # "text"
    BY <1>1, <1>4, <2>1 DEF CallFits
  <2> QED BY <1>3, <1>4, <2>1, <2>2, StageMoves
<1>6. CASE CallFails(r, i)
  <2>1. /\ Busy(r) /\ calls[r][i].stage = "sent" /\ trace' = Write(<<r, i>>, "settled")
        /\ calls' = [calls EXCEPT ![r][i] = Moved("over")] /\ logged' = logged /\ search' = search
    BY <1>2, <1>6 DEF CallFails, Calling
  <2>2. CallFits(Moved("over")) /\ Moved("over").got # "text"
    BY <1>1, <1>4, <2>1 DEF CallFits
  <2> QED BY <1>3, <1>4, <2>1, <2>2, StageMoves
<1>7. CASE CallUnreadable(r, i)
  <2> DEFINE call == [stage |-> "unread", got |-> "garbage"]
  <2>1. /\ Busy(r) /\ calls[r][i].stage = "sent" /\ trace' = Write(<<r, i>>, "settled")
        /\ calls' = [calls EXCEPT ![r][i] = call] /\ logged' = logged /\ search' = search
    BY <1>7 DEF CallUnreadable, Calling
  <2>2. call \in Call /\ CallFits(call) /\ call.stage = "unread" /\ call.got # "text"
    BY DEF Call, CallFits
  <2> HIDE DEF call
  <2> QED BY <1>3, <2>1, <2>2, StageMoves
<1>8. CASE CallRewritten(r, i)
  <2>1. /\ Busy(r) /\ calls[r][i].stage = "unread" /\ trace' = Write(<<r, i>>, "rewritten")
        /\ calls' = [calls EXCEPT ![r][i] = Moved("over")] /\ logged' = logged /\ search' = search
    BY <1>2, <1>8 DEF CallRewritten, Calling
  <2>2. CallFits(Moved("over")) /\ Moved("over").got # "text"
    BY <1>1, <1>4, <2>1 DEF CallFits
  <2> QED BY <1>3, <1>4, <2>1, <2>2, StageMoves
<1>9. ASSUME NEW got \in {"text", "empty"}, CallAnswered(r, i, got) PROVE MapInv'
  <2> DEFINE call == [stage |-> "over", got |-> got]
             results == [search[r].results EXCEPT ![i] = i]
             told == got = "text" /\ search[r].phase = "mapping"
             s == IF told THEN [phase |-> search[r].phase, text |-> search[r].text,
                                budget |-> search[r].budget, parts |-> search[r].parts,
                                reduce |-> search[r].reduce, results |-> results, kind |-> search[r].kind]
                  ELSE search[r]
  <2>1. /\ Busy(r) /\ calls[r][i].stage = "sent" /\ trace' = Write(<<r, i>>, "settled")
        /\ calls' = [calls EXCEPT ![r][i] = call] /\ logged' = logged
    BY <1>9 DEF CallAnswered, Calling
  <2>2. call \in Call /\ CallFits(call) /\ call.stage = "over" /\ call.got = got
    BY DEF Call, CallFits
  <2>3. results \in Seq(0..MaxCalls)
    <3>1. search[r].results \in Seq(0..MaxCalls) /\ i \in 0..MaxCalls
      BY <1>1, MaxCallsAssumption DEF Search
    <3>2. /\ search[r].results \in [1..Len(search[r].results) -> 0..MaxCalls]
          /\ Len(search[r].results) \in Nat
      BY <3>1, LenProperties
    <3>3. CASE i \in 1..Len(search[r].results)
      BY <3>1, <3>3, ExceptSeq
    <3>4. CASE i \notin 1..Len(search[r].results)
      <4>1. results = search[r].results
        BY <3>2, <3>4
      <4> QED BY <3>1, <4>1
    <3> QED BY <3>3, <3>4
  <2>4. told => [search[r] EXCEPT !.results = results] = s
    <3> SUFFICES ASSUME told
                 PROVE  [search[r] EXCEPT !.results = results] =
                          [phase |-> search[r].phase, text |-> search[r].text,
                           budget |-> search[r].budget, parts |-> search[r].parts,
                           reduce |-> search[r].reduce, results |-> results, kind |-> search[r].kind]
      OBVIOUS
    <3> HIDE DEF results
    <3> QED BY <1>1 DEF Search
  <2>5. search' = [search EXCEPT ![r] = s]
    <3>1. CASE told
      <4>1. search' = [search EXCEPT ![r] = [search[r] EXCEPT !.results = results]]
        BY <1>9, <3>1 DEF CallAnswered, Placed
      <4> QED BY <2>4, <3>1, <4>1
    <3>2. CASE ~told
      <4>1. search' = search
        BY <1>9, <3>2 DEF CallAnswered
      <4> QED BY <3>2, <4>1 DEF MapInv, MapTypeOK
    <3> QED BY <3>1, <3>2
  <2>6. /\ s \in Search
        /\ s.phase = search[r].phase /\ s.text = search[r].text /\ s.budget = search[r].budget
        /\ s.parts = search[r].parts /\ s.reduce = search[r].reduce /\ s.kind = search[r].kind
        /\ s.results = IF call.got = "text" /\ search[r].phase = "mapping"
                       THEN [search[r].results EXCEPT ![i] = i] ELSE search[r].results
    <3> HIDE DEF call
    <3>1. CASE told
      <4> HIDE DEF results
      <4>1. s \in Search
        BY <1>1, <2>3, <3>1 DEF Search
      <4>2. /\ s.phase = search[r].phase /\ s.text = search[r].text /\ s.budget = search[r].budget
            /\ s.parts = search[r].parts /\ s.reduce = search[r].reduce /\ s.kind = search[r].kind
            /\ s.results = results
        BY <3>1
      <4> HIDE DEF s
      <4> QED BY <2>2, <3>1, <4>1, <4>2 DEF results
    <3>2. CASE ~told
      BY <1>1, <2>2, <3>2
    <3> QED BY <3>1, <3>2
  <2> HIDE DEF s, call
  <2> QED BY <1>3, <2>1, <2>2, <2>5, <2>6, CallMoves
<1> QED BY <1>5, <1>6, <1>7, <1>8, <1>9 DEF CallSteps

\* The fields of a search.
Fields(phase, s, results, kind) ==
  [phase |-> phase, text |-> s.text, budget |-> s.budget, parts |-> s.parts, reduce |-> s.reduce,
   results |-> results, kind |-> kind]

LEMMA FieldsChanged ==
  ASSUME NEW s \in Search, NEW phase, NEW kind
  PROVE  /\ Found(s, kind) = Fields("found", s, s.results, kind)
         /\ [s EXCEPT !.phase = phase] = Fields(phase, s, s.results, s.kind)
<1> DEFINE t == [s EXCEPT !.phase = "found"]
<1>1. s = Fields(s.phase, s, s.results, s.kind)
  BY DEF Search, Fields
<1>2. /\ t = Fields("found", s, s.results, s.kind)
      /\ [s EXCEPT !.phase = phase] = Fields(phase, s, s.results, s.kind)
  BY <1>1 DEF Fields
<1>3. Found(s, kind) = [t EXCEPT !.kind = kind]
  BY DEF Found
<1> HIDE DEF t
<1>4. [t EXCEPT !.kind = kind] = Fields("found", s, s.results, kind)
  BY <1>2 DEF Fields
<1> QED BY <1>2, <1>3, <1>4

\* A step between the calls: the search changes its phase, and perhaps what it returns.
LEMMA PhaseMoves ==
  ASSUME MapInv, NEW r \in Requests, NEW c \in CallsOfAll, NEW s,
         NEW phase \in {"none", "mapping", "reducing", "found"}, NEW kind \in {"parts", "digest", "nothing"},
         s = Fields(phase, search[r], search[r].results, kind),
         Busy(r), phase # "none", PhaseFits(s, c), KindFits(s, c),
         \A i \in 1..MaxCalls : CallFits(c[i]) /\ c[i].got = calls[r][i].got
                                /\ FilesOf(c[i].stage) = FilesOf(calls[r][i].stage),
         search' = [search EXCEPT ![r] = s], calls' = [calls EXCEPT ![r] = c],
         trace' = trace, logged' = logged
  PROVE  MapInv'
<1>1. /\ search[r] \in Search /\ Fits(search[r], calls[r])
      /\ Len(search[r].parts) \in Nat /\ DOMAIN search[r].parts = 1..Len(search[r].parts)
  BY SearchTypes
<1>2. /\ s.phase = phase /\ s.text = search[r].text /\ s.budget = search[r].budget
      /\ s.parts = search[r].parts /\ s.reduce = search[r].reduce /\ s.kind = kind
      /\ s.results = search[r].results
  BY DEF Fields
<1>3. s \in Search
  BY <1>1 DEF Search, Fields
<1>4. /\ Len(s.parts) < MaxCalls /\ DOMAIN s.results = DOMAIN s.parts
      /\ \A j \in DOMAIN s.parts : s.results[j] = IF calls[r][j].got = "text" THEN j ELSE 0
      /\ search[r].kind # "raw"
  BY <1>1, <1>2 DEF Fits, ResultsFit, Busy
<1>5. Covers(s)
  <2>1. Covers(search[r])
    BY <1>1, <1>4 DEF Fits, ResultsFit, Busy
  <2> QED BY <1>2, <2>1 DEF Covers
<1>6. ResultsFit(s, c)
  <2>1. \A j \in DOMAIN s.parts : j \in 1..MaxCalls
    BY <1>1, <1>2, <1>4, MaxCallsAssumption
  <2>2. \A j \in DOMAIN s.parts : s.results[j] = IF c[j].got = "text" THEN j ELSE 0
    BY <1>4, <2>1
  <2>3. s.kind # "raw"
    BY <1>2
  <2> QED BY <1>4, <1>5, <2>2, <2>3 DEF ResultsFit
<1>7. Fits(s, c)
  BY <1>6 DEF Fits
<1>8. ASSUME NEW i \in 1..MaxCalls
      PROVE  trace[<<r, i>>] \in IF logged[r] THEN FilesOf(c[i].stage) ELSE {"none"}
  <2>1. TraceFits(r, i)
    BY DEF MapInv
  <2> QED BY <2>1 DEF TraceFits
<1> QED BY <1>3, <1>7, <1>8, SearchMoves DEF MapInv, MapTypeOK

LEMMA CombineKeeps ==
  ASSUME MapInv, NEW r \in Requests, Combine(r)
  PROVE  MapInv'
<1> DEFINE nothing == \A i \in Mapped(r) : search[r].results[i] = 0
<1>1. /\ search[r] \in Search /\ calls[r] \in CallsOfAll /\ Fits(search[r], calls[r])
      /\ Len(search[r].parts) \in Nat /\ DOMAIN search[r].parts = 1..Len(search[r].parts)
      /\ calls \in [Requests -> CallsOfAll] /\ search \in [Requests -> Search]
  BY SearchTypes DEF MapInv, MapTypeOK
<1>2. /\ search[r].phase = "mapping" /\ \A i \in Mapped(r) : calls[r][i].stage = "over"
      /\ trace' = trace /\ logged' = logged /\ Busy(r)
  BY DEF Combine, CallsOver, Busy
<1>3. Len(search[r].parts) < MaxCalls /\ search[r].kind # "raw"
  BY <1>1, <1>2 DEF Fits, ResultsFit
<1>4. \A i \in DOMAIN search[r].parts : i \in 1..MaxCalls
  BY <1>1, <1>3, MaxCallsAssumption
<1>5. nothing <=> ~Told(search[r], calls[r])
  <2>1. \A i \in DOMAIN search[r].parts :
           search[r].results[i] = 0 <=> calls[r][i].got # "text"
    <3> SUFFICES ASSUME NEW i \in DOMAIN search[r].parts
                 PROVE  search[r].results[i] = 0 <=> calls[r][i].got # "text"
      OBVIOUS
    <3>1. search[r].results[i] = IF calls[r][i].got = "text" THEN i ELSE 0
      BY <1>1 DEF Fits, ResultsFit
    <3>2. i # 0
      BY <1>1
    <3> QED BY <3>1, <3>2
  <2> QED BY <2>1 DEF Told, Mapped
<1>6. \A i \in 1..MaxCalls : i \in DOMAIN search[r].parts \/ calls[r][i].stage = "none"
  BY <1>1, <1>2 DEF Fits, PhaseFits
<1>7. CASE nothing \/ ~search[r].reduce
  <2> DEFINE kind == IF nothing THEN "nothing" ELSE "parts"
             s == Fields("found", search[r], search[r].results, kind)
  <2>1. calls' = [calls EXCEPT ![r] = calls[r]]
    <3>1. calls' = calls
      BY <1>7 DEF Combine
    <3> QED BY <1>1, <3>1
  <2>2. search' = [search EXCEPT ![r] = s]
    <3>1. search' = [search EXCEPT ![r] = Found(search[r], kind)]
      BY <1>7 DEF Combine
    <3> HIDE DEF kind, nothing
    <3>2. Found(search[r], kind) = s
      BY <1>1, FieldsChanged
    <3> HIDE DEF s
    <3> QED BY <1>1, <3>1, <3>2
  <2>3. s.phase = "found" /\ s.parts = search[r].parts /\ s.kind = kind /\ s.reduce = search[r].reduce
    BY DEF Fields
  <2>4. kind \in {"parts", "digest", "nothing"} /\ (kind = "nothing" <=> nothing)
    OBVIOUS
  <2>5. s = Fields("found", search[r], search[r].results, kind)
    OBVIOUS
  <2> HIDE DEF s, kind, nothing
  <2>6. PhaseFits(s, calls[r])
    <3>1. \A i \in 1..MaxCalls : calls[r][i].stage \in {"none", "over"}
      BY <1>2, <1>6 DEF Mapped
    <3>2. s.phase # "none" /\ s.phase # "mapping" /\ s.phase # "reducing"
      BY <2>3
    <3> QED BY <3>1, <3>2 DEF PhaseFits
  <2>7. KindFits(s, calls[r])
    <3>1. Told(s, calls[r]) <=> ~nothing
      BY <1>5, <2>3 DEF Told
    <3> QED BY <2>3, <2>4, <3>1 DEF KindFits
  <2>8. \A i \in 1..MaxCalls : CallFits(calls[r][i])
    BY <1>1 DEF Fits
  <2> QED BY <1>1, <1>2, <2>1, <2>2, <2>4, <2>5, <2>6, <2>7, <2>8, PhaseMoves
<1>8. CASE ~nothing /\ search[r].reduce
  <2> DEFINE k == Len(search[r].parts) + 1
             ready == [stage |-> "ready", got |-> calls[r][k].got]
             c == [calls[r] EXCEPT ![k] = ready]
             s == Fields("reducing", search[r], search[r].results, search[r].kind)
  <2>1. k \in 1..MaxCalls /\ k \notin DOMAIN search[r].parts
    BY <1>1, <1>3, MaxCallsAssumption
  <2>2. /\ calls[r][k] \in Call /\ calls[r][k].stage = "none" /\ calls[r][k].got = "none"
    <3> HIDE DEF k
    <3>1. calls[r][k].stage = "none" /\ CallFits(calls[r][k])
      BY <1>1, <1>6, <2>1 DEF Fits
    <3> QED BY <1>1, <2>1, <3>1 DEF CallsOfAll, CallFits
  <2>3. [calls[r][k] EXCEPT !.stage = "ready"] = ready
    <3> HIDE DEF k
    <3> QED BY <2>2 DEF Call
  <2>4. calls' = [calls EXCEPT ![r] = c]
    <3>1. calls' = [calls EXCEPT ![r][k].stage = "ready"]
      BY <1>8 DEF Combine, Reducing
    <3> HIDE DEF k, ready
    <3> QED BY <1>1, <2>3, <3>1
  <2>5. search' = [search EXCEPT ![r] = s]
    <3>1. search' = [search EXCEPT ![r].phase = "reducing"]
      BY <1>8 DEF Combine
    <3>2. [search[r] EXCEPT !.phase = "reducing"] = s
      BY <1>1, FieldsChanged
    <3> HIDE DEF s
    <3> QED BY <1>1, <3>1, <3>2
  <2>6. s.phase = "reducing" /\ s.parts = search[r].parts /\ s.reduce = search[r].reduce
    BY DEF Fields
  <2>7. s = Fields("reducing", search[r], search[r].results, search[r].kind)
    OBVIOUS
  <2>8. ready \in Call /\ ready.stage = "ready" /\ ready.got = "none"
    BY <2>2 DEF Call
  <2> HIDE DEF s, ready, nothing
  <2>9. /\ c \in CallsOfAll /\ c[k] = ready
        /\ \A i \in 1..MaxCalls : i # k => c[i] = calls[r][i]
    <3> HIDE DEF k
    <3> QED BY <1>1, <2>1, <2>8 DEF CallsOfAll
  <2> HIDE DEF c
  <2>10. PhaseFits(s, c)
    <3> SUFFICES ASSUME NEW i \in 1..MaxCalls
                 PROVE  IF i \in DOMAIN s.parts THEN c[i].stage = "over" ELSE i = k \/ c[i].stage = "none"
      <4>1. s.phase # "none" /\ s.phase # "mapping" /\ s.phase # "found" /\ k = Len(s.parts) + 1
        BY <2>6
      <4> QED BY <4>1 DEF PhaseFits
    <3> HIDE DEF k
    <3> QED BY <1>2, <1>6, <2>1, <2>6, <2>9 DEF Mapped
  <2>11. KindFits(s, c)
    <3>1. PICK i \in DOMAIN search[r].parts : calls[r][i].got = "text"
      BY <1>5, <1>8 DEF Told
    <3>2. i # k /\ c[i] = calls[r][i]
      <4> HIDE DEF k
      <4> QED BY <1>4, <2>1, <2>9
    <3>3. Told(s, c)
      BY <2>6, <3>1, <3>2 DEF Told
    <3>4. s.reduce /\ s.phase # "found"
      BY <1>8, <2>6
    <3> QED BY <3>3, <3>4 DEF KindFits
  <2>12. ASSUME NEW i \in 1..MaxCalls
         PROVE  /\ CallFits(c[i]) /\ c[i].got = calls[r][i].got
                /\ FilesOf(c[i].stage) = FilesOf(calls[r][i].stage)
    <3> HIDE DEF k
    <3>1. CASE i = k
      BY <2>2, <2>8, <2>9, <3>1 DEF CallFits, FilesOf
    <3>2. CASE i # k
      BY <1>1, <2>9, <3>2 DEF Fits
    <3> QED BY <3>1, <3>2
  <2>13. search[r].kind \in {"parts", "digest", "nothing"}
    BY <1>1, <1>3 DEF Search
  <2> QED BY <1>2, <2>4, <2>5, <2>7, <2>9, <2>10, <2>11, <2>12, <2>13, PhaseMoves
<1> QED BY <1>7, <1>8

LEMMA ReducedKeeps ==
  ASSUME MapInv, NEW r \in Requests, Reduced(r)
  PROVE  MapInv'
<1> DEFINE k == Len(search[r].parts) + 1
           kind == CASE calls[r][k].got = "text" -> "digest"
                     [] calls[r][k].got = "empty" -> "nothing"
                     [] OTHER -> "parts"
           s == Fields("found", search[r], search[r].results, kind)
<1>1. /\ search[r] \in Search /\ calls[r] \in CallsOfAll /\ Fits(search[r], calls[r])
      /\ calls \in [Requests -> CallsOfAll] /\ search \in [Requests -> Search]
  BY SearchTypes DEF MapInv, MapTypeOK
<1>2. /\ search[r].phase = "reducing" /\ calls[r][k].stage = "over"
      /\ trace' = trace /\ logged' = logged /\ calls' = calls /\ Busy(r)
  BY DEF Reduced, Reducing, Busy
<1>3. calls' = [calls EXCEPT ![r] = calls[r]]
  BY <1>1, <1>2
<1>4. search' = [search EXCEPT ![r] = s]
  <2>1. search' = [search EXCEPT ![r] = Found(search[r], kind)]
    BY DEF Reduced, Reducing
  <2> HIDE DEF kind
  <2>2. Found(search[r], kind) = s
    BY <1>1, FieldsChanged
  <2> HIDE DEF s
  <2> QED BY <1>1, <2>1, <2>2
<1>5. s.phase = "found" /\ s.parts = search[r].parts /\ s.kind = kind /\ s.reduce = search[r].reduce
  BY DEF Fields
<1>6. kind \in {"parts", "digest", "nothing"} /\ (kind = "nothing" => calls[r][k].got = "empty")
  OBVIOUS
<1>7. s = Fields("found", search[r], search[r].results, kind)
  OBVIOUS
<1> HIDE DEF s, kind
<1>8. PhaseFits(s, calls[r])
  <2>1. \A i \in 1..MaxCalls : calls[r][i].stage \in {"none", "over"}
    BY <1>1, <1>2 DEF Fits, PhaseFits
  <2>2. s.phase # "none" /\ s.phase # "mapping" /\ s.phase # "reducing"
    BY <1>5
  <2> QED BY <2>1, <2>2 DEF PhaseFits
<1>9. KindFits(s, calls[r])
  <2>1. search[r].reduce /\ Told(search[r], calls[r])
    BY <1>1, <1>2 DEF Fits, KindFits
  <2>2. Told(s, calls[r])
    BY <1>5, <2>1 DEF Told
  <2>3. s.kind = "nothing" => calls[r][Len(s.parts) + 1].got = "empty"
    BY <1>5, <1>6
  <2> QED BY <1>5, <2>1, <2>2, <2>3 DEF KindFits
<1>10. \A i \in 1..MaxCalls : CallFits(calls[r][i])
  BY <1>1 DEF Fits
<1> QED BY <1>1, <1>2, <1>3, <1>4, <1>6, <1>7, <1>8, <1>9, <1>10, PhaseMoves

LEMMA SearchingKeeps ==
  ASSUME MapInv, NEW r \in Requests, Searching(r)
  PROVE  MapInv'
BY CombineKeeps, ReducedKeeps, CallStepsKeep DEF Searching

\* The summary of a search says what its calls answered.
LEMMA MapInvFaithful == ASSUME MapInv PROVE SummaryFaithful
<1> SUFFICES ASSUME NEW r \in Requests, search[r].phase = "found"
             PROVE  LET s == search[r]
                        told == {i \in DOMAIN s.parts : calls[r][i].got = "text"}
                    IN  /\ \A i \in DOMAIN s.parts : s.results[i] = IF i \in told THEN i ELSE 0
                        /\ s.kind \in {"parts", "digest"} => told # {}
                        /\ s.kind = "nothing" =>
                             \/ told = {}
                             \/ s.reduce /\ calls[r][Reducing(r)].got = "empty"
                        /\ s.kind # "raw" => Covers(s)
  BY DEF SummaryFaithful
<1> DEFINE s == search[r]
           told == {i \in DOMAIN s.parts : calls[r][i].got = "text"}
<1>1. ResultsFit(s, calls[r]) /\ KindFits(s, calls[r])
  BY SearchTypes DEF Fits
<1>2. Told(s, calls[r]) <=> told # {}
  BY DEF Told
<1>3. \A i \in DOMAIN s.parts : s.results[i] = IF i \in told THEN i ELSE 0
  BY <1>1 DEF ResultsFit
<1>4. s.kind \in {"parts", "digest"} => told # {}
  BY <1>1, <1>2 DEF KindFits
<1>5. s.kind = "nothing" => told = {} \/ (s.reduce /\ calls[r][Reducing(r)].got = "empty")
  BY <1>1, <1>2 DEF KindFits, Reducing
<1>6. s.kind # "raw" => Covers(s)
  BY <1>1 DEF ResultsFit
<1> QED BY <1>3, <1>4, <1>5, <1>6

-----------------------------------------------------------------------------
(* The inductive invariant.                                                *)

Moving(r, stages) == stage[r] \in stages

\* A request that is not answered has no fate, one that has not called does not search, and no call
\* of a search is under way when the request's own is over.
StageFits(r) ==
  /\ Moving(r, {"route", "reject", "admit", "log", "send", "wait"}) => req[r].fate = "none"
  /\ Moving(r, {"route", "reject", "admit", "log", "send"}) => search[r].phase = "none"
  /\ Moving(r, {"settle", "validate", "answer"}) => Quiet(r)
  /\ Moving(r, {"route", "reject"}) => ~logged[r]
  /\ Moving(r, {"validate"}) => logged[r]
  /\ ~Moving(r, {"answer", "over"}) => Own(r) \notin validated

\* Which requests have their request half, and no response half yet.
Traced(r) ==
  \/ Moving(r, {"send", "wait", "settle"})
  \/ Moving(r, {"admit"}) /\ Wish(r).api = "embeddings"

\* The files of the request's own trace.
OwnFits(r) ==
  /\ Traced(r) => trace[Own(r)] = IF logged[r] THEN "open" ELSE "none"
  /\ Moving(r, {"route", "reject", "admit", "log"}) /\ ~Traced(r) => trace[Own(r)] = "none"
  /\ Moving(r, {"validate"}) => trace[Own(r)] = "settled"
  /\ Moving(r, {"answer"}) /\ trace[Own(r)] = "open" => Excused(Own(r))

\* The rewrites before the request is sent.
PayloadFits(r) ==
  Moving(r, {"admit", "log", "send"}) =>
    payload[r] = Rewritten(Wish(r), Endpoint(r)) /\ body[r] = Encoded(Wish(r), Endpoint(r))

\* What RewritesSent says of one request.
SentFits(r) ==
  WasSent(r) =>
    Asked(r) \ (IF WayOf(r) = "forwarded" /\ sent[r] \subseteq {"alias"} THEN {"roles"} ELSE {})
      \subseteq sent[r]

RequestFits(r) == StageFits(r) /\ OwnFits(r) /\ PayloadFits(r) /\ SentFits(r)

IInv == MapInv /\ TypeOK /\ \A r \in Requests : RequestFits(r)

-----------------------------------------------------------------------------
(* Requests share nothing.                                                 *)

LEMMA OwnTrace ==
  ASSUME NEW r \in Requests
  PROVE  /\ Own(r) \in Traces /\ Own(r)[1] = r /\ Own(r)[2] = 0
         /\ \A q \in Requests : q # r => Own(q) # Own(r)
         /\ \A q \in Requests, i \in 1..MaxCalls : <<q, i>> \in Traces /\ <<q, i>> # Own(r)
<1>1. MaxCalls \in Nat /\ 0 \in 0..MaxCalls /\ \A i \in 1..MaxCalls : i \in 0..MaxCalls /\ i # 0
  BY MaxCallsAssumption
<1> QED BY <1>1 DEF Own, Traces

\* What request q is to its invariant.
Same(q) ==
  /\ req'[q] = req[q] /\ stage'[q] = stage[q] /\ payload'[q] = payload[q]
  /\ body'[q] = body[q] /\ sent'[q] = sent[q] /\ logged'[q] = logged[q]
  /\ search'[q] = search[q] /\ calls'[q] = calls[q] /\ trace'[Own(q)] = trace[Own(q)]
  /\ Own(q) \in validated' => Own(q) \in validated

\* Definitions that depend on the request and its endpoint only.
LEMMA SameWay ==
  ASSUME NEW r, Wish(r)' = Wish(r), Endpoint(r)' = Endpoint(r)
  PROVE  WayOf(r)' = WayOf(r) /\ Asked(r)' = Asked(r) /\ Added(r)' = Added(r)
<1>1. WayOf(r)' = WayOf(r)
  BY DEF WayOf
<1> QED BY <1>1 DEF Asked, Added

\* A search stays as it is.
LEMMA QuietKept ==
  ASSUME NEW r, search'[r] = search[r], calls'[r] = calls[r]
  PROVE  Quiet(r)' <=> Quiet(r)
BY DEF Quiet, Busy, CallsOver, Mapped

LEMMA NoSearchQuiet == ASSUME NEW r, search[r].phase = "none" PROVE Quiet(r)
BY DEF Quiet, Busy

LEMMA SameFits ==
  ASSUME NEW q \in Requests, RequestFits(q), Same(q)
  PROVE  RequestFits(q)'
<1>1. Wish(q)' = Wish(q) /\ Endpoint(q)' = Endpoint(q)
  BY DEF Same, Wish, Endpoint
<1>2. WayOf(q)' = WayOf(q) /\ Asked(q)' = Asked(q)
  BY <1>1, SameWay
<1>3. Own(q)' = Own(q) /\ Own(q)[1] = q /\ Own(q)[2] = 0
  BY OwnTrace DEF Own
<1>4. Excused(Own(q)) => Excused(Own(q))'
  BY <1>1, <1>2, <1>3 DEF Excused, Same
<1>5. StageFits(q)'
  <2>1. Quiet(q)' <=> Quiet(q)
    BY QuietKept DEF Same
  <2> QED BY <1>3, <2>1 DEF RequestFits, StageFits, Same, Moving
<1>6. OwnFits(q)'
  <2>1. Traced(q)' <=> Traced(q)
    BY <1>1 DEF Traced, Moving, Same
  <2> QED BY <1>3, <1>4, <2>1 DEF RequestFits, OwnFits, Same, Moving
<1>7. PayloadFits(q)'
  BY <1>1 DEF RequestFits, PayloadFits, Same, Moving
<1>8. SentFits(q)'
  <2>1. WasSent(q)' <=> WasSent(q)
    BY DEF WasSent, Same
  <2> QED BY <1>2, <2>1 DEF RequestFits, SentFits, Same
<1> QED BY <1>5, <1>6, <1>7, <1>8 DEF RequestFits

LEMMA RequestMoves ==
  ASSUME IInv, NEW r \in Requests, MapInv', TypeOK', RequestFits(r)',
         \A q \in Requests : q # r => Same(q)
  PROVE  IInv'
BY SameFits DEF IInv

\* A step that concerns no search.
LEMMA MapSame == ASSUME MapInv, UNCHANGED mapVars PROVE MapInv'
<1>1. logged' = logged /\ trace' = trace /\ search' = search /\ calls' = calls
  BY DEF mapVars
<1> QED BY <1>1 DEF MapInv, MapTypeOK, TraceFits

LEMMA OwnWritten ==
  ASSUME MapInv, NEW r \in Requests, NEW half \in {"open", "settled"},
         trace' = Write(Own(r), half), logged' = logged, search' = search, calls' = calls
  PROVE  /\ MapInv'
         /\ trace'[Own(r)] = IF logged[r] THEN half ELSE trace[Own(r)]
         /\ \A t \in Traces : t # Own(r) => trace'[t] = trace[t]
<1>1. trace' = IF logged[r] THEN [trace EXCEPT ![Own(r)] = half] ELSE trace
  BY OwnTrace DEF Write
<1>2. trace \in [Traces -> {"none", "open", "settled", "rewritten"}]
  BY DEF MapInv, MapTypeOK
<1>3. /\ trace' \in [Traces -> {"none", "open", "settled", "rewritten"}]
      /\ \A t \in Traces : t # Own(r) => trace'[t] = trace[t]
      /\ trace'[Own(r)] = IF logged[r] THEN half ELSE trace[Own(r)]
  BY <1>1, <1>2, OwnTrace
<1>4. MapTypeOK'
  BY <1>3 DEF MapInv, MapTypeOK
<1>5. ASSUME NEW q \in Requests, NEW i \in 1..MaxCalls PROVE TraceFits(q, i)'
  <2>1. TraceFits(q, i) /\ trace'[<<q, i>>] = trace[<<q, i>>]
    BY <1>3, OwnTrace DEF MapInv
  <2> QED BY <2>1 DEF TraceFits
<1>6. \A q \in Requests : Fits(search[q], calls[q])'
  BY DEF MapInv
<1> QED BY <1>3, <1>4, <1>5, <1>6 DEF MapInv

\* Before there are calls nothing is lost by choosing whether they are traced.
LEMMA LoggedChosen ==
  ASSUME MapInv, NEW r \in Requests, NEW b \in BOOLEAN, search[r].phase = "none",
         logged' = [logged EXCEPT ![r] = b], trace' = trace, search' = search, calls' = calls
  PROVE  MapInv'
<1>1. logged \in [Requests -> BOOLEAN]
  BY DEF MapInv, MapTypeOK
<1>2. MapTypeOK'
  BY <1>1 DEF MapInv, MapTypeOK
<1>3. \A q \in Requests : Fits(search[q], calls[q])'
  BY DEF MapInv
<1>4. ASSUME NEW q \in Requests, NEW i \in 1..MaxCalls PROVE TraceFits(q, i)'
  <2>1. TraceFits(q, i)
    BY DEF MapInv
  <2>2. CASE q = r
    <3>1. calls[r][i].stage = "none"
      BY SearchTypes DEF Fits, PhaseFits, NoCall
    <3>2. trace[<<r, i>>] = "none"
      BY <2>1, <2>2, <3>1 DEF TraceFits, FilesOf
    <3> QED BY <2>2, <3>1, <3>2 DEF TraceFits, FilesOf
  <2>3. CASE q # r
    <3>1. logged'[q] = logged[q]
      BY <1>1, <2>3
    <3> QED BY <2>1, <3>1 DEF TraceFits
  <2> QED BY <2>2, <2>3
<1> QED BY <1>2, <1>3, <1>4 DEF MapInv

-----------------------------------------------------------------------------
(* What the steps keep.                                                    *)

\* Among numbers there is a least one, so an endpoint that is found is one of the configuration.
LEMMA FirstFound ==
  ASSUME NEW c \in Configs, NEW I \in SUBSET DOMAIN c
  PROVE  FirstOf(c, I) = NoEndpoint \/ \E i \in I : FirstOf(c, I) = c[i]
<1>1. CASE I = {}
  BY <1>1 DEF FirstOf
<1>2. CASE I # {}
  <2>1. I \in SUBSET Nat
    BY ConfigsAssumption
  <2>2. \E i \in I : \A j \in I : i <= j
    BY <1>2, <2>1, LeastElement
  <2>3. (CHOOSE i \in I : \A j \in I : i <= j) \in I
    BY <2>2
  <2> QED BY <1>2, <2>3 DEF FirstOf
<1> QED BY <1>1, <1>2

LEMMA ChoiceFound ==
  ASSUME NEW c \in Configs, NEW I \in SUBSET DOMAIN c, NEW model
  PROVE  Choice(c, I, model) = NoEndpoint \/ \E i \in I : Choice(c, I, model) = c[i]
<1> DEFINE listing == {i \in I : model # NoModel /\ model \in Names(c[i])}
           taking  == {i \in I : AnyModel \in c[i].models}
<1>1. listing \in SUBSET DOMAIN c /\ taking \in SUBSET DOMAIN c /\ listing \subseteq I /\ taking \subseteq I
  OBVIOUS
<1>2. Choice(c, I, model) = FirstOf(c, listing) \/ Choice(c, I, model) = FirstOf(c, taking)
  BY DEF Choice
<1> HIDE DEF listing, taking
<1> QED BY <1>1, <1>2, FirstFound

LEMMA SelectedTyped ==
  ASSUME config \in Configs, NEW w \in Wishes
  PROVE  Selected(w) \in Hosts /\ (Selected(w) # NoEndpoint => Selected(w).log \in BOOLEAN)
<1>1. \E I \in SUBSET DOMAIN config : Selected(w) = Choice(config, I, w.model)
  <2>1. w.api \in Apis
    BY DEF Wishes
  <2>2. Remote(config) \in SUBSET DOMAIN config /\ Enabled(config) \in SUBSET DOMAIN config
    BY DEF Remote, Enabled
  <2> QED BY <2>1, <2>2 DEF Apis, Selected, ForProxy, ForMessages, ForResponses, ForEmbeddings
<1>2. Selected(w) = NoEndpoint \/ \E i \in DOMAIN config : Selected(w) = config[i]
  BY <1>1, ChoiceFound
<1> QED BY <1>2, ConfigsAssumption DEF Hosts

LEMMA RewritesTyped ==
  ASSUME NEW w, NEW e
  PROVE  Rewritten(w, e) \in SUBSET Rewrites /\ Encoded(w, e) \in SUBSET Rewrites
<1>1. ASSUME NEW c, NEW x \in Rewrites PROVE If(c, x) \in SUBSET Rewrites
  BY DEF If
<1>2. /\ "alias" \in Rewrites /\ "roles" \in Rewrites /\ "cache" \in Rewrites /\ "usage" \in Rewrites
      /\ "slot" \in Rewrites
  BY DEF Rewrites
<1>3. Rewritten(w, e) \in SUBSET Rewrites
  BY <1>1, <1>2 DEF Rewritten
<1> QED BY <1>1, <1>2, <1>3 DEF Encoded

LEMMA RequestTypes ==
  ASSUME IInv, NEW r \in Requests
  PROVE  /\ req[r] \in [wish : Wishes, endpoint : Hosts, fate : Fates]
         /\ Wish(r) \in Wishes /\ Endpoint(r) \in Hosts
         /\ RequestFits(r)
BY DEF IInv, TypeOK, Wish, Endpoint

LEMMA RouteKeeps ==
  ASSUME IInv, NEW r \in Requests, Route(r)
  PROVE  IInv'
<1> DEFINE w == Wish(r)
           e == Selected(w)
<1>1. /\ stage[r] = "route" /\ config \in Configs /\ w \in Wishes /\ MapInv /\ TypeOK /\ RequestFits(r)
      /\ trace' = trace /\ search' = search /\ calls' = calls /\ config' = config
      /\ sent' = sent /\ validated' = validated
  BY RequestTypes DEF Route, IInv, TypeOK
<1>2. /\ req[r].fate = "none" /\ search[r].phase = "none" /\ Quiet(r) /\ ~logged[r]
      /\ Own(r) \notin validated /\ trace[Own(r)] = "none"
  BY <1>1, NoSearchQuiet DEF RequestFits, StageFits, OwnFits, Moving, Traced
<1>3. Own(r)' = Own(r) /\ (Quiet(r)' <=> Quiet(r))
  BY <1>1, QuietKept DEF Own
<1>4. \A q \in Requests : q # r => /\ search'[q] = search[q] /\ calls'[q] = calls[q]
                                   /\ trace'[Own(q)] = trace[Own(q)] /\ sent'[q] = sent[q]
  BY <1>1
<1>5. CASE /\ req' = [req EXCEPT ![r].fate = "malformed"]
           /\ stage' = [stage EXCEPT ![r] = "answer"]
           /\ UNCHANGED <<payload, body, logged>>
  <2>1. TypeOK' /\ MapInv'
    <3>1. MapInv'
      BY <1>1, <1>5, MapSame DEF mapVars
    <3> QED BY <1>1, <1>5, <3>1 DEF TypeOK, Stages, Fates
  <2>2. stage'[r] = "answer"
    BY <1>1, <1>5 DEF TypeOK
  <2>3. RequestFits(r)'
    BY <1>1, <1>2, <1>3, <2>2
       DEF RequestFits, StageFits, OwnFits, PayloadFits, SentFits, Moving, Traced, WasSent
  <2>4. \A q \in Requests : q # r => Same(q)
    BY <1>1, <1>4, <1>5 DEF Same, TypeOK
  <2> QED BY <2>1, <2>3, <2>4, RequestMoves
<1>6. CASE stage' = [stage EXCEPT ![r] = "reject"] /\ UNCHANGED <<req, payload, body, logged>>
  <2>1. TypeOK' /\ MapInv'
    <3>1. MapInv'
      BY <1>1, <1>6, MapSame DEF mapVars
    <3> QED BY <1>1, <1>6, <3>1 DEF TypeOK, Stages
  <2>2. stage'[r] = "reject"
    BY <1>1, <1>6 DEF TypeOK
  <2>3. RequestFits(r)'
    BY <1>1, <1>2, <1>3, <1>6, <2>2
       DEF RequestFits, StageFits, OwnFits, PayloadFits, SentFits, Moving, Traced, WasSent
  <2>4. \A q \in Requests : q # r => Same(q)
    BY <1>1, <1>4, <1>6 DEF Same, TypeOK
  <2> QED BY <2>1, <2>3, <2>4, RequestMoves
<1>7. CASE /\ e # NoEndpoint
           /\ req' = [req EXCEPT ![r].endpoint = e]
           /\ payload' = [payload EXCEPT ![r] = Rewritten(w, e)]
           /\ body' = [body EXCEPT ![r] = Encoded(w, e)]
           /\ logged' = [logged EXCEPT ![r] = e.log /\ w.api # "models"]
           /\ stage' = [stage EXCEPT ![r] = First(w, e)]
  <2>1. e \in Hosts /\ (e.log /\ w.api # "models") \in BOOLEAN /\ First(w, e) \in {"log", "admit"}
    BY <1>1, <1>7, SelectedTyped DEF First
  <2>2. Rewritten(w, e) \in SUBSET Rewrites /\ Encoded(w, e) \in SUBSET Rewrites
    BY RewritesTyped
  <2>3. MapInv'
    BY <1>1, <1>2, <1>7, <2>1, LoggedChosen
  <2>4. /\ Wish(r)' = w /\ Endpoint(r)' = e /\ req'[r].fate = "none"
        /\ payload'[r] = Rewritten(w, e) /\ body'[r] = Encoded(w, e) /\ stage'[r] = First(w, e)
        /\ \A q \in Requests : q # r => Same(q)
    <3> HIDE DEF e
    <3> QED BY <1>1, <1>2, <1>4, <1>7 DEF TypeOK, Wish, Endpoint, Same
  <2>5. TypeOK'
    <3> HIDE DEF e, w
    <3>1. /\ logged' \in [Requests -> BOOLEAN]
          /\ trace' \in [Traces -> {"none", "open", "settled", "rewritten"}]
          /\ search' \in [Requests -> Search]
          /\ calls' \in [Requests -> [1..MaxCalls -> Call]]
      BY <2>3 DEF MapInv, MapTypeOK, CallsOfAll
    <3>2. /\ req' \in [Requests -> [wish : Wishes, endpoint : Hosts, fate : Fates]]
          /\ stage' \in [Requests -> Stages]
          /\ payload' \in [Requests -> SUBSET Rewrites]
          /\ body' \in [Requests -> SUBSET Rewrites]
      BY <1>1, <1>7, <2>1, <2>2 DEF TypeOK, Stages
    <3> QED BY <1>1, <3>1, <3>2 DEF TypeOK
  <2>6. RequestFits(r)'
    <3> HIDE DEF e, w
    <3>1. StageFits(r)'
      BY <1>1, <1>2, <1>3, <2>1, <2>4 DEF StageFits, Moving
    <3>2. OwnFits(r)'
      BY <1>1, <1>2, <1>3, <2>1, <2>4 DEF OwnFits, Traced, Moving, First
    <3>3. PayloadFits(r)'
      BY <2>4 DEF PayloadFits
    <3>4. SentFits(r)'
      BY <2>1, <2>4 DEF SentFits, WasSent
    <3> QED BY <3>1, <3>2, <3>3, <3>4 DEF RequestFits
  <2> QED BY <2>3, <2>4, <2>5, <2>6, RequestMoves
<1> QED BY <1>5, <1>6, <1>7 DEF Route

\* What a step of a search leaves alone.
LEMMA SearchFrame ==
  ASSUME IInv, NEW r \in Requests, SearchFirst(r) \/ SearchGoesOn(r)
  PROVE  /\ MapInv' /\ logged' = logged /\ UNCHANGED gateVars /\ stage[r] = "wait"
         /\ \A q \in Requests : trace'[Own(q)] = trace[Own(q)]
         /\ \A q \in Requests : q # r => search'[q] = search[q] /\ calls'[q] = calls[q]
<1>1. /\ MapInv /\ search \in [Requests -> Search] /\ calls \in [Requests -> CallsOfAll]
      /\ trace \in [Traces -> {"none", "open", "settled", "rewritten"}]
  BY DEF IInv, MapInv, MapTypeOK
<1>2. UNCHANGED gateVars /\ stage[r] = "wait"
  BY DEF SearchFirst, SearchGoesOn
<1>3. CASE SearchFirst(r)
  <2>1. PICK text \in Texts : \/ ReturnRaw(r, text)
                              \/ \E budget \in Budgets, reduce \in BOOLEAN : StartMapping(r, text, budget, reduce)
    BY <1>3 DEF SearchFirst
  <2>2. search[r].phase = "none"
    BY <1>3 DEF SearchFirst
  <2>3. CASE ReturnRaw(r, text)
    <3>1. MapInv'
      BY <1>1, <2>2, <2>3, ReturnRawKeeps
    <3> QED BY <1>1, <1>2, <2>3, <3>1 DEF ReturnRaw
  <2>4. CASE \E budget \in Budgets, reduce \in BOOLEAN : StartMapping(r, text, budget, reduce)
    <3>1. PICK budget \in Budgets, reduce \in BOOLEAN : StartMapping(r, text, budget, reduce)
      BY <2>4
    <3>2. MapInv'
      BY <1>1, <2>2, <3>1, StartMappingKeeps
    <3> QED BY <1>1, <1>2, <3>1, <3>2 DEF StartMapping
  <2> QED BY <2>1, <2>3, <2>4
<1>4. CASE SearchGoesOn(r)
  <2>1. Searching(r)
    BY <1>4 DEF SearchGoesOn
  <2>2. MapInv'
    BY <1>1, <2>1, SearchingKeeps
  <2>3. CASE Combine(r)
    BY <1>1, <1>2, <2>2, <2>3 DEF Combine
  <2>4. CASE Reduced(r)
    BY <1>1, <1>2, <2>2, <2>4 DEF Reduced
  <2>5. ASSUME NEW i \in 1..MaxCalls, CallSteps(r, i)
        PROVE  /\ logged' = logged
               /\ \A q \in Requests : trace'[Own(q)] = trace[Own(q)]
               /\ \A q \in Requests : q # r => search'[q] = search[q] /\ calls'[q] = calls[q]
    <3>1. /\ logged' = logged
          /\ \E half \in {"open", "settled", "rewritten"} : trace' = Write(<<r, i>>, half)
          /\ \A q \in Requests : q # r => search'[q] = search[q] /\ calls'[q] = calls[q]
      BY <1>1, <2>5
         DEF CallSteps, SendCall, CallFails, CallUnreadable, CallRewritten, CallAnswered
    <3>2. PICK half \in {"open", "settled", "rewritten"} : trace' = Write(<<r, i>>, half)
      BY <3>1
    <3>3. trace' = trace \/ trace' = [trace EXCEPT ![<<r, i>>] = half]
      BY <3>2 DEF Write
    <3>4. \A q \in Requests : trace'[Own(q)] = trace[Own(q)]
      BY <1>1, <3>3, OwnTrace
    <3> QED BY <3>1, <3>4
  <2> QED BY <1>2, <2>1, <2>2, <2>3, <2>4, <2>5 DEF Searching
<1> QED BY <1>3, <1>4

LEMMA TypesKept ==
  ASSUME IInv, MapInv', config' \in Configs,
         req' \in [Requests -> [wish : Wishes, endpoint : Hosts, fate : Fates]],
         stage' \in [Requests -> Stages], validated' \subseteq Traces,
         payload' \in [Requests -> SUBSET Rewrites], body' \in [Requests -> SUBSET Rewrites],
         sent' \in [Requests -> SUBSET Rewrites]
  PROVE  TypeOK'
BY DEF TypeOK, MapInv, MapTypeOK, CallsOfAll

LEMMA SearchKeeps ==
  ASSUME IInv, NEW r \in Requests, SearchFirst(r) \/ SearchGoesOn(r)
  PROVE  IInv'
<1>1. /\ MapInv' /\ logged' = logged /\ stage[r] = "wait"
      /\ config' = config /\ req' = req /\ stage' = stage /\ payload' = payload /\ body' = body
      /\ sent' = sent /\ validated' = validated
      /\ \A q \in Requests : trace'[Own(q)] = trace[Own(q)]
      /\ \A q \in Requests : q # r => search'[q] = search[q] /\ calls'[q] = calls[q]
  BY SearchFrame DEF gateVars
<1>2. TypeOK'
  BY <1>1, TypesKept DEF IInv, TypeOK
<1>3. \A q \in Requests : q # r => Same(q)
  BY <1>1 DEF Same
<1>4. RequestFits(r)'
  <2>1. Own(r)' = Own(r) /\ RequestFits(r)
    BY RequestTypes DEF Own
  <2>2. Wish(r)' = Wish(r) /\ Endpoint(r)' = Endpoint(r) /\ stage'[r] = "wait"
    BY <1>1 DEF Wish, Endpoint
  <2>3. WayOf(r)' = WayOf(r) /\ Asked(r)' = Asked(r)
    BY <2>2, SameWay
  <2>4. StageFits(r)'
    BY <1>1, <2>1, <2>2 DEF RequestFits, StageFits, Moving
  <2>5. OwnFits(r)'
    BY <1>1, <2>1, <2>2 DEF RequestFits, OwnFits, Moving, Traced
  <2>6. PayloadFits(r)'
    BY <2>2 DEF PayloadFits, Moving
  <2>7. SentFits(r)'
    <3>1. WasSent(r)
      BY <1>1 DEF WasSent
    <3> QED BY <1>1, <2>1, <2>3, <3>1 DEF RequestFits, SentFits
  <2> QED BY <2>4, <2>5, <2>6, <2>7 DEF RequestFits
<1> QED BY <1>1, <1>2, <1>3, <1>4, RequestMoves

LEMMA RejectKeeps == ASSUME IInv, NEW r \in Requests, Reject(r) PROVE IInv'
<1>1. /\ stage[r] = "reject" /\ req' = [req EXCEPT ![r].fate = "unrouted"]
      /\ stage' = [stage EXCEPT ![r] = "answer"]
      /\ logged' = logged /\ trace' = trace /\ search' = search /\ calls' = calls /\ config' = config
      /\ payload' = payload /\ body' = body /\ sent' = sent /\ validated' = validated
  BY DEF Reject, mapVars
<1>2. TypeOK /\ MapInv /\ RequestFits(r)
  BY RequestTypes DEF IInv
<1>3. MapInv'
  BY <1>1, <1>2, MapSame DEF mapVars
<1>4. TypeOK'
  <2>1. "unrouted" \in Fates /\ "answer" \in Stages
    BY DEF Fates, Stages
  <2> QED BY <1>1, <1>2, <1>3, <2>1, TypesKept DEF TypeOK
<1>5. stage'[r] = "answer" /\ Own(r)' = Own(r) /\ Quiet(r)' /\ trace[Own(r)] = "none"
  <2>1. search[r].phase = "none"
    BY <1>1, <1>2 DEF RequestFits, StageFits, Moving
  <2>2. Quiet(r)'
    BY <1>1, <2>1, NoSearchQuiet, QuietKept
  <2> QED BY <1>1, <1>2, <2>2 DEF TypeOK, RequestFits, OwnFits, Moving, Traced, Own
<1>6. RequestFits(r)'
  BY <1>1, <1>5 DEF RequestFits, StageFits, OwnFits, PayloadFits, SentFits, Moving, Traced, WasSent
<1>7. \A q \in Requests : q # r => Same(q)
  BY <1>1, <1>2 DEF Same, TypeOK
<1> QED BY <1>3, <1>4, <1>6, <1>7, RequestMoves

LEMMA TranslationRaisesKeeps == ASSUME IInv, NEW r \in Requests, TranslationRaises(r) PROVE IInv'
<1>1. /\ stage[r] = "send" /\ req' = [req EXCEPT ![r].fate = "untranslatable"]
      /\ stage' = [stage EXCEPT ![r] = "answer"]
      /\ logged' = logged /\ trace' = trace /\ search' = search /\ calls' = calls /\ config' = config
      /\ payload' = payload /\ body' = body /\ sent' = sent /\ validated' = validated
  BY DEF TranslationRaises, Goes, mapVars
<1>2. TypeOK /\ MapInv /\ RequestFits(r)
  BY RequestTypes DEF IInv
<1>3. MapInv'
  BY <1>1, <1>2, MapSame DEF mapVars
<1>4. TypeOK'
  <2>1. "untranslatable" \in Fates /\ "answer" \in Stages
    BY DEF Fates, Stages
  <2> QED BY <1>1, <1>2, <1>3, <2>1, TypesKept DEF TypeOK
<1>5. stage'[r] = "answer" /\ Own(r)' = Own(r) /\ Quiet(r)' /\ req'[r].fate = "untranslatable"
  <2>1. search[r].phase = "none"
    BY <1>1, <1>2 DEF RequestFits, StageFits, Moving
  <2>2. Quiet(r)'
    BY <1>1, <2>1, NoSearchQuiet, QuietKept
  <2> QED BY <1>1, <1>2, <2>2 DEF TypeOK, Own
<1>6. Excused(Own(r))'
  BY <1>5, OwnTrace DEF Excused
<1>7. RequestFits(r)'
  BY <1>1, <1>2, <1>5, <1>6
     DEF RequestFits, StageFits, OwnFits, PayloadFits, SentFits, Moving, Traced, WasSent
<1>8. \A q \in Requests : q # r => Same(q)
  BY <1>1, <1>2 DEF Same, TypeOK
<1> QED BY <1>3, <1>4, <1>7, <1>8, RequestMoves

LEMMA AdmitKeeps == ASSUME IInv, NEW r \in Requests, Admit(r) PROVE IInv'
<1> DEFINE to == IF Wish(r).api = "embeddings" THEN "send" ELSE "log"
<1>1. /\ stage[r] = "admit" /\ stage' = [stage EXCEPT ![r] = to]
      /\ logged' = logged /\ trace' = trace /\ search' = search /\ calls' = calls /\ config' = config
      /\ req' = req /\ payload' = payload /\ body' = body /\ sent' = sent /\ validated' = validated
  BY DEF Admit, Goes, mapVars
<1>2. TypeOK /\ MapInv /\ RequestFits(r)
  BY RequestTypes DEF IInv
<1>3. MapInv'
  BY <1>1, <1>2, MapSame DEF mapVars
<1>4. TypeOK'
  <2>1. to \in Stages
    BY DEF Stages
  <2> HIDE DEF to
  <2> QED BY <1>1, <1>2, <1>3, <2>1, TypesKept DEF TypeOK
<1>5. /\ stage'[r] = to /\ Own(r)' = Own(r) /\ Wish(r)' = Wish(r) /\ Endpoint(r)' = Endpoint(r)
  BY <1>1, <1>2 DEF TypeOK, Own, Wish, Endpoint
<1>6. StageFits(r)'
  BY <1>1, <1>2, <1>5 DEF RequestFits, StageFits, Moving
<1>7. OwnFits(r)'
  <2>1. CASE Wish(r).api = "embeddings"
    BY <1>1, <1>2, <1>5, <2>1 DEF RequestFits, OwnFits, Moving, Traced
  <2>2. CASE Wish(r).api # "embeddings"
    BY <1>1, <1>2, <1>5, <2>2 DEF RequestFits, OwnFits, Moving, Traced
  <2> QED BY <2>1, <2>2
<1>8. PayloadFits(r)'
  BY <1>1, <1>2, <1>5 DEF RequestFits, PayloadFits, Moving
<1>9. SentFits(r)'
  BY <1>5 DEF SentFits, WasSent
<1>10. \A q \in Requests : q # r => Same(q)
  BY <1>1, <1>2 DEF Same, TypeOK
<1> QED BY <1>3, <1>4, <1>6, <1>7, <1>8, <1>9, <1>10, RequestMoves DEF RequestFits

LEMMA LogKeeps == ASSUME IInv, NEW r \in Requests, Log(r) PROVE IInv'
<1> DEFINE to == IF WayOf(r) = "posted" THEN "admit" ELSE "send"
<1>1. /\ stage[r] = "log" /\ stage' = [stage EXCEPT ![r] = to] /\ trace' = Write(Own(r), "open")
      /\ logged' = logged /\ search' = search /\ calls' = calls /\ config' = config
      /\ req' = req /\ payload' = payload /\ body' = body /\ sent' = sent /\ validated' = validated
  BY DEF Log, Goes
<1>2. TypeOK /\ MapInv /\ RequestFits(r)
  BY RequestTypes DEF IInv
<1>3. /\ MapInv' /\ trace'[Own(r)] = IF logged[r] THEN "open" ELSE trace[Own(r)]
      /\ \A t \in Traces : t # Own(r) => trace'[t] = trace[t]
  BY <1>1, <1>2, OwnWritten
<1>4. TypeOK'
  <2>1. to \in Stages
    BY DEF Stages
  <2> HIDE DEF to
  <2> QED BY <1>1, <1>2, <1>3, <2>1, TypesKept DEF TypeOK
<1>5. /\ stage'[r] = to /\ Own(r)' = Own(r) /\ Wish(r)' = Wish(r) /\ Endpoint(r)' = Endpoint(r)
  BY <1>1, <1>2 DEF TypeOK, Own, Wish, Endpoint
<1>6. StageFits(r)'
  BY <1>1, <1>2, <1>5 DEF RequestFits, StageFits, Moving
<1>7. OwnFits(r)'
  <2>1. trace[Own(r)] = "none"
    BY <1>1, <1>2 DEF RequestFits, OwnFits, Moving, Traced
  <2>2. WayOf(r) = "posted" => Wish(r).api = "embeddings"
    BY DEF WayOf, Way
  <2>3. CASE WayOf(r) = "posted"
    BY <1>1, <1>3, <1>5, <2>1, <2>2, <2>3 DEF OwnFits, Moving, Traced
  <2>4. CASE WayOf(r) # "posted"
    BY <1>1, <1>3, <1>5, <2>1, <2>4 DEF OwnFits, Moving, Traced
  <2> QED BY <2>3, <2>4
<1>8. PayloadFits(r)'
  BY <1>1, <1>2, <1>5 DEF RequestFits, PayloadFits, Moving
<1>9. SentFits(r)'
  BY <1>5 DEF SentFits, WasSent
<1>10. \A q \in Requests : q # r => Same(q)
  <2>1. \A q \in Requests : q # r => trace'[Own(q)] = trace[Own(q)]
    BY <1>3, OwnTrace
  <2> QED BY <1>1, <1>2, <2>1 DEF Same, TypeOK
<1> QED BY <1>3, <1>4, <1>6, <1>7, <1>8, <1>9, <1>10, RequestMoves DEF RequestFits

\* What the server receives on each way.
Received(r, full) ==
  CASE WayOf(r) = "forwarded" -> IF Added(r) # {} THEN full ELSE body[r]
    [] WayOf(r) = "bridged"   -> full \ {"cache"}
    [] WayOf(r) = "embedded"  -> {}
    [] OTHER -> full

LEMMA RewrittenWays ==
  ASSUME NEW w, NEW e
  PROVE  /\ w.api \in {"chat", "models"} =>
              /\ Rewritten(w, e) = If(Renames(w, e), "alias") \cup If(w.object /\ e.roles, "roles")
                                   \cup If(w.object /\ e.cache, "cache")
              /\ Encoded(w, e) = IF w.object /\ e.cache THEN Rewritten(w, e) ELSE If(Renames(w, e), "alias")
         /\ Way(w, e) = "translated" =>
              Rewritten(w, e) = If(Renames(w, e), "alias") \cup If(e.roles, "roles")
         /\ Way(w, e) = "looped" =>
              Rewritten(w, e) = If(Renames(w, e), "alias") \cup If(e.roles, "roles") \cup If(e.cache, "cache")
         /\ Way(w, e) \in {"passed", "posted"} => Rewritten(w, e) = If(Renames(w, e), "alias")
<1>1. Way(w, e) = "translated" => w.api = "messages"
  BY DEF Way
<1>2. Way(w, e) = "looped" => w.api = "responses"
  BY DEF Way
<1>3. Way(w, e) \in {"passed", "posted"} => w.api \in {"messages", "embeddings"}
  BY DEF Way
<1>4. ASSUME w.api \in {"chat", "models"}
      PROVE  /\ Rewritten(w, e) = If(Renames(w, e), "alias") \cup If(w.object /\ e.roles, "roles")
                                  \cup If(w.object /\ e.cache, "cache")
             /\ Encoded(w, e) = IF w.object /\ e.cache THEN Rewritten(w, e) ELSE If(Renames(w, e), "alias")
  <2>1. Rewritten(w, e) = If(Renames(w, e), "alias") \cup If(w.object /\ e.roles, "roles")
                                  \cup If(w.object /\ e.cache, "cache")
    <3>1. Way(w, e) # "translated" /\ Way(w, e) # "looped"
      BY <1>1, <1>2, <1>4
    <3> QED BY <1>4, <3>1, Zenon DEF Rewritten
  <2>2. CASE w.object /\ e.cache
    BY <1>4, <2>2, <2>1 DEF Encoded
  <2>3. CASE ~(w.object /\ e.cache)
    BY <1>4, <2>3, <2>1 DEF Encoded
  <2> QED BY <2>1, <2>2, <2>3
<1>5. ASSUME Way(w, e) = "translated"
      PROVE  Rewritten(w, e) = If(Renames(w, e), "alias") \cup If(e.roles, "roles")
  BY <1>1, <1>5 DEF Rewritten
<1>6. ASSUME Way(w, e) = "looped"
      PROVE  Rewritten(w, e) = If(Renames(w, e), "alias") \cup If(e.roles, "roles") \cup If(e.cache, "cache")
  BY <1>2, <1>6 DEF Rewritten
<1>7. ASSUME Way(w, e) \in {"passed", "posted"} PROVE Rewritten(w, e) = If(Renames(w, e), "alias")
  BY <1>3, <1>7 DEF Rewritten
<1> QED BY <1>4, <1>5, <1>6, <1>7

\* Whether the alias, the roles, the cache and the slot that are asked for are received: with the
\* payload encoded as it is on its way.
LEMMA AskedReceived ==
  ASSUME NEW r, Wish(r).api \in Apis,
         payload[r] = Rewritten(Wish(r), Endpoint(r)), body[r] = Encoded(Wish(r), Endpoint(r)),
         NEW got, got = Received(r, payload[r] \cup Added(r))
  PROVE  Asked(r) \ (IF WayOf(r) = "forwarded" /\ got \subseteq {"alias"} THEN {"roles"} ELSE {}) \subseteq got
<1> DEFINE w == Wish(r)
           e == Endpoint(r)
<1>1. \A c, x, y : y \in If(c, x) <=> (c /\ y = x)
  BY DEF If
<1> SUFFICES ASSUME NEW x \in Asked(r), WayOf(r) = "forwarded" /\ got \subseteq {"alias"} => x # "roles"
             PROVE  x \in got
  OBVIOUS
<1>2. \/ x = "alias" /\ Renames(w, e) /\ WayOf(r) # "embedded"
      \/ x = "roles" /\ w.object /\ e.roles /\ WayOf(r) \in {"forwarded", "bridged", "translated", "looped"}
      \/ x = "cache" /\ w.object /\ e.cache /\ WayOf(r) \in {"forwarded", "looped"}
      \/ x = "slot" /\ w.object /\ e.slots /\ WayOf(r) \in {"forwarded", "looped"}
  BY <1>1 DEF Asked
<1>3. x = "slot" => x \in Added(r)
  BY <1>1, <1>2 DEF Added
<1>4. WayOf(r) = Way(w, e) /\ payload[r] = Rewritten(w, e) /\ body[r] = Encoded(w, e)
  BY DEF WayOf
<1>5. WayOf(r) \in {"forwarded", "bridged"} => w.api \in {"chat", "models"}
  BY DEF WayOf, Way, Apis
<1> HIDE DEF w, e
<1>6. x # "slot" /\ WayOf(r) # "embedded" => x \in payload[r]
  <2> SUFFICES ASSUME x # "slot", WayOf(r) # "embedded" PROVE x \in payload[r]
    OBVIOUS
  <2>1. CASE WayOf(r) \in {"forwarded", "bridged"}
    <3>1. payload[r] = If(Renames(w, e), "alias") \cup If(w.object /\ e.roles, "roles")
                       \cup If(w.object /\ e.cache, "cache")
      BY <1>4, <1>5, <2>1, RewrittenWays
    <3> QED BY <1>1, <1>2, <3>1
  <2>2. CASE WayOf(r) = "translated"
    <3>1. payload[r] = If(Renames(w, e), "alias") \cup If(e.roles, "roles")
      BY <1>4, <2>2, RewrittenWays
    <3> QED BY <1>1, <1>2, <2>2, <3>1
  <2>3. CASE WayOf(r) = "looped"
    <3>1. payload[r] = If(Renames(w, e), "alias") \cup If(e.roles, "roles") \cup If(e.cache, "cache")
      BY <1>4, <2>3, RewrittenWays
    <3> QED BY <1>1, <1>2, <3>1
  <2>4. CASE WayOf(r) \in {"passed", "posted"}
    <3>1. payload[r] = If(Renames(w, e), "alias")
      BY <1>4, <2>4, RewrittenWays
    <3> QED BY <1>1, <1>2, <2>4, <3>1
  <2>5. WayOf(r) \in {"bridged", "passed", "translated", "looped", "embedded", "posted", "forwarded"}
    BY DEF WayOf, Way
  <2> QED BY <2>1, <2>2, <2>3, <2>4, <2>5
<1>7. CASE WayOf(r) = "forwarded" /\ Added(r) = {}
  <2>1. got = body[r] /\ x # "slot" /\ x \in payload[r]
    BY <1>3, <1>6, <1>7 DEF Received
  <2>2. body[r] = IF w.object /\ e.cache THEN payload[r] ELSE If(Renames(w, e), "alias")
    BY <1>4, <1>5, <1>7, RewrittenWays
  <2>3. CASE w.object /\ e.cache
    BY <2>1, <2>2, <2>3
  <2>4. CASE ~(w.object /\ e.cache)
    <3>1. got = If(Renames(w, e), "alias")
      BY <2>1, <2>2, <2>4
    <3>2. got \subseteq {"alias"}
      BY <3>1 DEF If
    <3>3. x = "alias" /\ Renames(w, e)
      BY <1>2, <1>7, <2>1, <2>4, <3>2
    <3> QED BY <1>1, <3>1, <3>3
  <2> QED BY <2>3, <2>4
<1>8. CASE ~(WayOf(r) = "forwarded" /\ Added(r) = {})
  <2>1. WayOf(r) # "embedded"
    BY <1>2
  <2>2. x \in payload[r] \cup Added(r) /\ (WayOf(r) = "bridged" => x # "cache")
    BY <1>2, <1>3, <1>6, <2>1
  <2> QED BY <1>8, <2>1, <2>2 DEF Received
<1> QED BY <1>7, <1>8

LEMMA SendKeeps == ASSUME IInv, NEW r \in Requests, Send(r) PROVE IInv'
<1> DEFINE full == payload[r] \cup Added(r)
           encoded == IF Added(r) # {} THEN full ELSE body[r]
           got == Received(r, full)
<1>1. /\ stage[r] = "send" /\ stage' = [stage EXCEPT ![r] = "wait"]
      /\ payload' = [payload EXCEPT ![r] = full] /\ body' = [body EXCEPT ![r] = encoded]
      /\ sent' = [sent EXCEPT ![r] = got]
      /\ logged' = logged /\ trace' = trace /\ search' = search /\ calls' = calls /\ config' = config
      /\ req' = req /\ validated' = validated
  BY DEF Send, Goes, mapVars, Received
<1>2. TypeOK /\ MapInv /\ RequestFits(r) /\ Wish(r).api \in Apis
  BY RequestTypes DEF IInv, Wishes
<1>3. MapInv'
  BY <1>1, <1>2, MapSame DEF mapVars
<1>4. full \in SUBSET Rewrites /\ encoded \in SUBSET Rewrites /\ got \in SUBSET Rewrites
  <2>1. Added(r) \in SUBSET Rewrites
    BY DEF Added, If, Rewrites
  <2>2. payload[r] \in SUBSET Rewrites /\ body[r] \in SUBSET Rewrites
    BY <1>2 DEF TypeOK
  <2> QED BY <2>1, <2>2 DEF Received
<1>5. payload[r] = Rewritten(Wish(r), Endpoint(r)) /\ body[r] = Encoded(Wish(r), Endpoint(r))
  BY <1>1, <1>2 DEF RequestFits, PayloadFits, Moving
<1>6. Asked(r) \ (IF WayOf(r) = "forwarded" /\ got \subseteq {"alias"} THEN {"roles"} ELSE {}) \subseteq got
  BY <1>2, <1>5, AskedReceived
<1> HIDE DEF full, encoded, got
<1>7. TypeOK'
  <2>1. "wait" \in Stages
    BY DEF Stages
  <2> QED BY <1>1, <1>2, <1>3, <1>4, <2>1, TypesKept DEF TypeOK
<1>8. /\ stage'[r] = "wait" /\ Own(r)' = Own(r) /\ Wish(r)' = Wish(r) /\ Endpoint(r)' = Endpoint(r)
      /\ sent'[r] = got
  BY <1>1, <1>2 DEF TypeOK, Own, Wish, Endpoint
<1>9. WayOf(r)' = WayOf(r) /\ Asked(r)' = Asked(r)
  BY <1>8, SameWay
<1>10. StageFits(r)'
  BY <1>1, <1>2, <1>8 DEF RequestFits, StageFits, Moving
<1>11. OwnFits(r)'
  BY <1>1, <1>2, <1>8 DEF RequestFits, OwnFits, Moving, Traced
<1>12. PayloadFits(r)'
  BY <1>8 DEF PayloadFits, Moving
<1>13. SentFits(r)'
  BY <1>6, <1>8, <1>9 DEF SentFits
<1>14. \A q \in Requests : q # r => Same(q)
  BY <1>1, <1>2 DEF Same, TypeOK
<1> QED BY <1>3, <1>7, <1>10, <1>11, <1>12, <1>13, <1>14, RequestMoves DEF RequestFits

\* A call that has come to an end without a response half is excused.
LEMMA EndedKeeps ==
  ASSUME IInv, NEW r \in Requests, NEW fate \in Fates, stage[r] = "wait", Quiet(r), Ended(r, fate)
  PROVE  IInv'
<1> DEFINE to == IF Ends(r, fate).settles THEN "settle" ELSE "answer"
<1>1. /\ req' = [req EXCEPT ![r].fate = fate] /\ stage' = [stage EXCEPT ![r] = to]
      /\ logged' = logged /\ trace' = trace /\ search' = search /\ calls' = calls /\ config' = config
      /\ payload' = payload /\ body' = body /\ sent' = sent /\ validated' = validated
  BY DEF Ended, mapVars
<1>2. TypeOK /\ MapInv /\ RequestFits(r) /\ Wish(r).api \in Apis
  BY RequestTypes DEF IInv, Wishes
<1>3. MapInv'
  BY <1>1, <1>2, MapSame DEF mapVars
<1>4. to \in {"settle", "answer"} /\ (to = "answer" => ~Ends(r, fate).settles)
  OBVIOUS
<1> HIDE DEF to
<1>5. TypeOK'
  <2>1. to \in Stages
    BY <1>4 DEF Stages
  <2> QED BY <1>1, <1>2, <1>3, <2>1, TypesKept DEF TypeOK
<1>6. /\ stage'[r] = to /\ Own(r)' = Own(r) /\ Wish(r)' = Wish(r) /\ Endpoint(r)' = Endpoint(r)
      /\ req'[r].fate = fate /\ Quiet(r)'
  BY <1>1, <1>2, QuietKept DEF TypeOK, Own, Wish, Endpoint
<1>7. WayOf(r)' = WayOf(r) /\ Asked(r)' = Asked(r)
  BY <1>6, SameWay
<1>8. StageFits(r)'
  BY <1>1, <1>2, <1>4, <1>6 DEF RequestFits, StageFits, Moving
<1>9. ~Ends(r, fate).settles =>
        \/ fate = "closed" /\ WayOf(r) = "forwarded"
        \/ fate \in Unfit /\ WayOf(r) \in Converting /\ ~Wish(r).stream
  <2>1. WayOf(r) \in {"bridged", "passed", "translated", "looped", "embedded", "posted", "forwarded"}
    BY DEF WayOf, Way
  <2> QED BY <2>1 DEF Ends, ForwardedEnds, BridgedEnds, PassedEnds, TranslatedEnds, LoopedEnds,
                      PostedEnds, EmbeddedEnds, Converting
<1>10. OwnFits(r)'
  <2>1. trace'[Own(r)] = IF logged[r] THEN "open" ELSE "none"
    BY <1>1, <1>2 DEF RequestFits, OwnFits, Moving, Traced
  <2>2. CASE to = "settle"
    BY <1>1, <1>6, <2>1, <2>2 DEF OwnFits, Moving, Traced
  <2>3. CASE to = "answer"
    <3>1. Excused(Own(r))'
      BY <1>4, <1>6, <1>7, <1>9, <2>3, OwnTrace DEF Excused
    <3> QED BY <1>6, <2>3, <3>1 DEF OwnFits, Moving, Traced
  <2> QED BY <1>4, <2>2, <2>3
<1>11. PayloadFits(r)'
  BY <1>4, <1>6 DEF PayloadFits, Moving
<1>12. SentFits(r)'
  <2>1. WasSent(r)
    BY DEF WasSent
  <2> QED BY <1>1, <1>2, <1>7, <2>1 DEF RequestFits, SentFits
<1>13. \A q \in Requests : q # r => Same(q)
  BY <1>1, <1>2 DEF Same, TypeOK
<1> QED BY <1>3, <1>5, <1>8, <1>10, <1>11, <1>12, <1>13, RequestMoves DEF RequestFits

LEMMA LeaveKeeps == ASSUME IInv, NEW r \in Requests, Leave(r) PROVE IInv'
<1>1. CASE stage[r] = "wait" /\ ~Busy(r) /\ Ended(r, "closed")
  <2>1. "closed" \in Fates /\ Quiet(r)
    BY <1>1 DEF Fates, Quiet
  <2> QED BY <1>1, <2>1, EndedKeeps
<1>2. CASE /\ stage[r] \in {"send", "wait"}
           /\ req' = [req EXCEPT ![r].fate = "left"]
           /\ stage' = [stage EXCEPT ![r] = "over"]
           /\ UNCHANGED <<mapVars, config, edits, payload, body, sent, validated>>
  <2>1. TypeOK /\ MapInv
    BY DEF IInv
  <2>2. MapInv'
    BY <1>2, <2>1, MapSame
  <2>3. TypeOK'
    <3>1. "left" \in Fates /\ "over" \in Stages
      BY DEF Fates, Stages
    <3> QED BY <1>2, <2>1, <2>2, <3>1, TypesKept DEF TypeOK
  <2>4. stage'[r] = "over"
    BY <1>2, <2>1 DEF TypeOK
  <2>5. RequestFits(r)'
    BY <2>4 DEF RequestFits, StageFits, OwnFits, PayloadFits, SentFits, Moving, Traced, WasSent
  <2>6. \A q \in Requests : q # r => Same(q)
    BY <1>2, <2>1 DEF Same, TypeOK, mapVars
  <2> QED BY <2>2, <2>3, <2>5, <2>6, RequestMoves
<1> QED BY <1>1, <1>2 DEF Leave

LEMMA SettleKeeps == ASSUME IInv, NEW r \in Requests, Settle(r) PROVE IInv'
<1> DEFINE valid == Ends(r, req[r].fate).validates /\ logged[r]
           to == IF valid THEN "validate" ELSE "answer"
<1>1. /\ stage[r] = "settle" /\ stage' = [stage EXCEPT ![r] = to] /\ trace' = Write(Own(r), "settled")
      /\ logged' = logged /\ search' = search /\ calls' = calls /\ config' = config
      /\ req' = req /\ payload' = payload /\ body' = body /\ sent' = sent /\ validated' = validated
  BY DEF Settle, Goes
<1>2. TypeOK /\ MapInv /\ RequestFits(r)
  BY RequestTypes DEF IInv
<1>3. /\ MapInv' /\ trace'[Own(r)] = IF logged[r] THEN "settled" ELSE trace[Own(r)]
      /\ \A t \in Traces : t # Own(r) => trace'[t] = trace[t]
  BY <1>1, <1>2, OwnWritten
<1>4. to \in {"validate", "answer"} /\ (to = "validate" => logged[r])
  OBVIOUS
<1> HIDE DEF to
<1>5. TypeOK'
  <2>1. to \in Stages
    BY <1>4 DEF Stages
  <2> QED BY <1>1, <1>2, <1>3, <2>1, TypesKept DEF TypeOK
<1>6. /\ stage'[r] = to /\ Own(r)' = Own(r) /\ Wish(r)' = Wish(r) /\ Endpoint(r)' = Endpoint(r)
      /\ (Quiet(r)' <=> Quiet(r))
  BY <1>1, <1>2, QuietKept DEF TypeOK, Own, Wish, Endpoint
<1>7. WayOf(r)' = WayOf(r) /\ Asked(r)' = Asked(r)
  BY <1>6, SameWay
<1>8. StageFits(r)'
  BY <1>1, <1>2, <1>4, <1>6 DEF RequestFits, StageFits, Moving
<1>9. OwnFits(r)'
  <2>1. trace[Own(r)] = IF logged[r] THEN "open" ELSE "none"
    BY <1>1, <1>2 DEF RequestFits, OwnFits, Moving, Traced
  <2>2. trace'[Own(r)] = IF logged[r] THEN "settled" ELSE "none"
    BY <1>3, <2>1
  <2> QED BY <1>4, <1>6, <2>2 DEF OwnFits, Moving, Traced
<1>10. PayloadFits(r)'
  BY <1>4, <1>6 DEF PayloadFits, Moving
<1>11. SentFits(r)'
  <2>1. WasSent(r)
    BY <1>1 DEF WasSent
  <2> QED BY <1>1, <1>2, <1>7, <2>1 DEF RequestFits, SentFits
<1>12. \A q \in Requests : q # r => Same(q)
  <2>1. \A q \in Requests : q # r => trace'[Own(q)] = trace[Own(q)]
    BY <1>3, OwnTrace
  <2> QED BY <1>1, <1>2, <2>1 DEF Same, TypeOK
<1> QED BY <1>3, <1>5, <1>8, <1>9, <1>10, <1>11, <1>12, RequestMoves DEF RequestFits

LEMMA ValidateKeeps == ASSUME IInv, NEW r \in Requests, Validate(r) PROVE IInv'
<1>1. /\ stage[r] = "validate" /\ stage' = [stage EXCEPT ![r] = "answer"]
      /\ validated' = validated \cup {Own(r)}
      /\ logged' = logged /\ trace' = trace /\ search' = search /\ calls' = calls /\ config' = config
      /\ req' = req /\ payload' = payload /\ body' = body /\ sent' = sent
  BY DEF Validate, Goes, mapVars
<1>2. TypeOK /\ MapInv /\ RequestFits(r)
  BY RequestTypes DEF IInv
<1>3. MapInv'
  BY <1>1, <1>2, MapSame DEF mapVars
<1>4. TypeOK'
  <2>1. "answer" \in Stages
    BY DEF Stages
  <2> QED BY <1>1, <1>2, <1>3, <2>1, OwnTrace, TypesKept DEF TypeOK
<1>5. stage'[r] = "answer" /\ Own(r)' = Own(r) /\ Quiet(r)' /\ trace'[Own(r)] = "settled"
  BY <1>1, <1>2, QuietKept DEF TypeOK, RequestFits, StageFits, OwnFits, Moving, Own
<1>6. RequestFits(r)'
  BY <1>5 DEF RequestFits, StageFits, OwnFits, PayloadFits, SentFits, Moving, Traced, WasSent
<1>7. \A q \in Requests : q # r => Same(q)
  BY <1>1, <1>2, OwnTrace DEF Same, TypeOK
<1> QED BY <1>3, <1>4, <1>6, <1>7, RequestMoves

LEMMA AnswerKeeps == ASSUME IInv, NEW r \in Requests, Answer(r) PROVE IInv'
<1>1. /\ stage' = [stage EXCEPT ![r] = "over"]
      /\ logged' = logged /\ trace' = trace /\ search' = search /\ calls' = calls /\ config' = config
      /\ req' = req /\ payload' = payload /\ body' = body /\ sent' = sent /\ validated' = validated
  BY DEF Answer, Goes, mapVars
<1>2. TypeOK /\ MapInv
  BY DEF IInv
<1>3. MapInv'
  BY <1>1, <1>2, MapSame DEF mapVars
<1>4. TypeOK'
  <2>1. "over" \in Stages
    BY DEF Stages
  <2> QED BY <1>1, <1>2, <1>3, <2>1, TypesKept DEF TypeOK
<1>5. stage'[r] = "over"
  BY <1>1, <1>2 DEF TypeOK
<1>6. RequestFits(r)'
  BY <1>5 DEF RequestFits, StageFits, OwnFits, PayloadFits, SentFits, Moving, Traced, WasSent
<1>7. \A q \in Requests : q # r => Same(q)
  BY <1>1, <1>2 DEF Same, TypeOK
<1> QED BY <1>3, <1>4, <1>6, <1>7, RequestMoves

LEMMA ConfigKeeps ==
  ASSUME IInv, config' \in Configs,
         UNCHANGED <<mapVars, req, stage, payload, body, sent, validated>>
  PROVE  IInv'
<1>1. MapInv'
  BY MapSame DEF IInv
<1>2. TypeOK'
  BY <1>1, TypesKept DEF IInv, TypeOK
<1>3. \A q \in Requests : Same(q)
  BY DEF Same, mapVars
<1> QED BY <1>1, <1>2, <1>3, SameFits DEF IInv

LEMMA InitFits == Init => IInv
<1> SUFFICES ASSUME Init PROVE IInv
  OBVIOUS
<1>1. /\ logged = [r \in Requests |-> FALSE] /\ trace = [t \in Traces |-> "none"]
      /\ search = [r \in Requests |-> NoSearch]
      /\ calls = [r \in Requests |-> [i \in 1..MaxCalls |-> NoCall]]
      /\ config \in Configs /\ req \in [Requests -> {Arriving(w) : w \in Wishes}]
      /\ stage = [r \in Requests |-> "route"] /\ payload = [r \in Requests |-> {}]
      /\ body = [r \in Requests |-> {}] /\ sent = [r \in Requests |-> {}] /\ validated = {}
  BY DEF Init, InitMapReduce
<1>2. NoSearch \in Search /\ NoCall \in Call
  <2>1. <<>> \in Seq(Nat \X Nat) /\ <<>> \in Seq(0..MaxCalls) /\ <<>> \in Seq(Letters)
    BY EmptySeq
  <2> QED BY <2>1 DEF NoSearch, Search, NoCall, Call
<1>3. MapTypeOK
  BY <1>1, <1>2 DEF MapTypeOK, CallsOfAll
<1>4. ASSUME NEW r \in Requests PROVE Fits(search[r], calls[r])
  <2>1. /\ search[r] = NoSearch /\ calls[r] = [i \in 1..MaxCalls |-> NoCall]
        /\ NoSearch.phase = "none" /\ NoSearch.kind = "nothing"
        /\ NoSearch.parts = <<>> /\ NoSearch.results = <<>>
        /\ NoCall.stage = "none" /\ NoCall.got = "none"
    BY <1>1 DEF NoSearch, NoCall
  <2>2. Len(<<>>) = 0 /\ DOMAIN <<>> = {} /\ 0 < MaxCalls
    BY EmptySeq, MaxCallsAssumption
  <2>3. \A i \in 1..MaxCalls : CallFits(calls[r][i])
    BY <2>1 DEF CallFits
  <2>4. PhaseFits(search[r], calls[r])
    BY <2>1 DEF PhaseFits
  <2>5. ResultsFit(search[r], calls[r])
    BY <2>1, <2>2 DEF ResultsFit
  <2>6. KindFits(search[r], calls[r])
    BY <2>1 DEF KindFits
  <2> QED BY <2>3, <2>4, <2>5, <2>6 DEF Fits
<1>5. \A r \in Requests, i \in 1..MaxCalls : TraceFits(r, i)
  BY <1>1, OwnTrace DEF TraceFits
<1>6. ASSUME NEW r \in Requests
      PROVE  \E w \in Wishes : req[r] = [wish |-> w, endpoint |-> NoEndpoint, fate |-> "none"]
  BY <1>1 DEF Arriving
<1>7. TypeOK
  <2>1. req \in [Requests -> [wish : Wishes, endpoint : Hosts, fate : Fates]]
    BY <1>1, <1>6 DEF Hosts, Fates
  <2>2. "route" \in Stages
    BY DEF Stages
  <2> QED BY <1>1, <1>3, <2>1, <2>2 DEF TypeOK, MapTypeOK, CallsOfAll
<1>8. ASSUME NEW r \in Requests PROVE RequestFits(r)
  <2>1. /\ stage[r] = "route" /\ req[r].fate = "none" /\ search[r].phase = "none" /\ ~logged[r]
        /\ trace[Own(r)] = "none"
    BY <1>1, <1>6, OwnTrace DEF NoSearch
  <2> QED BY <1>1, <2>1
       DEF RequestFits, StageFits, OwnFits, PayloadFits, SentFits, Moving, Traced, WasSent
<1> QED BY <1>3, <1>4, <1>5, <1>7, <1>8 DEF IInv, MapInv

LEMMA StepKeeps == ASSUME IInv, [Next]_vars PROVE IInv'
<1>1. CASE UNCHANGED vars
  BY <1>1, ConfigKeeps DEF vars, gateVars, IInv, TypeOK
<1>2. CASE Edit
  BY <1>2, ConfigKeeps DEF Edit
<1>3. ASSUME NEW r \in Requests, Steps(r) PROVE IInv'
  <2>1. CASE \E fate \in Fates : CallEnds(r, fate)
    BY <2>1, EndedKeeps DEF CallEnds
  <2> QED BY <1>3, <2>1, RouteKeeps, RejectKeeps, AdmitKeeps, LogKeeps, SendKeeps,
             TranslationRaisesKeeps, SearchKeeps, SettleKeeps, ValidateKeeps, AnswerKeeps DEF Steps
<1> QED BY <1>1, <1>2, <1>3, LeaveKeeps DEF Next

THEOREM GatewayInvariance == Spec => []IInv
<1>1. IInv /\ [Next]_vars => IInv'
  BY StepKeeps
<1> QED BY InitFits, <1>1, PTL DEF Spec

\* Variables hold what they are meant to hold.
THEOREM GatewayTypes == Spec => []TypeOK
<1>1. IInv => TypeOK
  BY DEF IInv
<1> QED BY <1>1, GatewayInvariance, PTL

\* However the calls of a map-reduce interleave and fail, a summary says what they answered, in the
\* order of the text, and covers every word of it (_map_reduce_search_result, _chunk_text).
THEOREM SummariesFaithful == Spec => []SummaryFaithful
<1>1. IInv => SummaryFaithful
  BY MapInvFaithful DEF IInv
<1> QED BY <1>1, GatewayInvariance, PTL

\* What an endpoint's configuration asks for is in what its server receives, but for the roles that
\* are substituted too late (ProxyService.proxy, AnthropicService, ResponsesService,
\* EmbeddingsService).
THEOREM RewritesReachServer == Spec => []RewritesSent
<1>1. IInv => RewritesSent
  BY DEF IInv, RequestFits, SentFits, RewritesSent
<1> QED BY <1>1, GatewayInvariance, PTL

-----------------------------------------------------------------------------
(* Routes.                                                                 *)

LEMMA FirstKept ==
  ASSUME NEW c \in Configs, NEW I \in SUBSET DOMAIN c, NEW J \in SUBSET I, I # {}
  PROVE  \E i \in I : FirstOf(c, I) = c[i] /\ (i \in J => FirstOf(c, J) = c[i])
<1> DEFINE Least(K, k) == k \in K /\ \A j \in K : k <= j
<1>1. I \in SUBSET Nat
  BY ConfigsAssumption
<1>2. PICK i \in I : Least(I, i)
  BY <1>1, LeastElement
<1>3. FirstOf(c, I) = c[i]
  <2>1. (CHOOSE k \in I : \A j \in I : k <= j) = i
    BY <1>1, <1>2
  <2> QED BY <2>1 DEF FirstOf
<1>4. ASSUME i \in J PROVE FirstOf(c, J) = c[i]
  <2>1. Least(J, i) /\ J # {}
    BY <1>2, <1>4
  <2>2. (CHOOSE k \in J : \A j \in J : k <= j) = i
    BY <1>1, <2>1
  <2> QED BY <2>1, <2>2 DEF FirstOf
<1> QED BY <1>3, <1>4

\* resolve_route is the search of the services among the enabled endpoints; theirs is among the
\* remote ones, so it finds the same endpoint unless that one is local.
LEMMA RouteShown ==
  ASSUME NEW c \in Configs, NEW model
  PROVE  /\ ResolveRoute(c, model) = Choice(c, Enabled(c), model)
         /\ \/ Choice(c, Remote(c), model) \in {NoEndpoint, ResolveRoute(c, model)}
            \/ ResolveRoute(c, model).local
<1> DEFINE Listing(I) == {i \in I : model # NoModel /\ model \in Names(c[i])}
           Taking(I) == {i \in I : AnyModel \in c[i].models}
           E == Enabled(c)
           R == Remote(c)
<1>1. E \in SUBSET DOMAIN c /\ R \in SUBSET E /\ \A i \in E \ R : c[i].local
  BY DEF Enabled, Remote
<1>2. {i \in E : model \in Names(c[i])} = Listing(E)
  BY <1>1, ConfigsAssumption
<1>3. ResolveRoute(c, model) = FirstOf(c, IF Listing(E) # {} THEN Listing(E) ELSE Taking(E))
  BY <1>2 DEF ResolveRoute
<1>4. \A I : Choice(c, I, model) = FirstOf(c, IF Listing(I) # {} THEN Listing(I) ELSE Taking(I))
  BY DEF Choice
<1>5. /\ Listing(E) \in SUBSET DOMAIN c /\ Listing(R) \in SUBSET Listing(E)
      /\ Taking(E) \in SUBSET DOMAIN c /\ Taking(R) \in SUBSET Taking(E)
      /\ \A i \in Listing(E) : i \in E /\ (i \in R => i \in Listing(R))
      /\ \A i \in Taking(E) : i \in E /\ (i \in R => i \in Taking(R))
  BY <1>1
<1> HIDE DEF Listing, Taking, E, R
<1>6. CASE Listing(E) # {}
  <2>1. PICK i \in Listing(E) : /\ FirstOf(c, Listing(E)) = c[i]
                                /\ i \in Listing(R) => FirstOf(c, Listing(R)) = c[i]
    BY <1>5, <1>6, FirstKept
  <2>2. ResolveRoute(c, model) = c[i]
    BY <1>3, <1>6, <2>1
  <2>3. CASE i \in Listing(R)
    <3>1. Choice(c, R, model) = c[i]
      BY <1>4, <2>1, <2>3
    <3> QED BY <1>3, <1>4, <2>2, <3>1 DEF E, R
  <2>4. CASE i \notin Listing(R)
    <3>1. c[i].local
      BY <1>1, <1>5, <2>4
    <3> QED BY <1>3, <1>4, <2>2, <3>1 DEF E, R
  <2> QED BY <2>3, <2>4
<1>7. CASE Listing(E) = {} /\ Taking(E) # {}
  <2>1. PICK i \in Taking(E) : /\ FirstOf(c, Taking(E)) = c[i]
                               /\ i \in Taking(R) => FirstOf(c, Taking(R)) = c[i]
    BY <1>5, <1>7, FirstKept
  <2>2. ResolveRoute(c, model) = c[i] /\ Listing(R) = {}
    BY <1>3, <1>5, <1>7, <2>1
  <2>3. CASE i \in Taking(R)
    <3>1. Choice(c, R, model) = c[i]
      BY <1>4, <2>1, <2>2, <2>3
    <3> QED BY <1>3, <1>4, <2>2, <3>1 DEF E, R
  <2>4. CASE i \notin Taking(R)
    <3>1. c[i].local
      BY <1>1, <1>5, <2>4
    <3> QED BY <1>3, <1>4, <2>2, <3>1 DEF E, R
  <2> QED BY <2>3, <2>4
<1>8. CASE Listing(E) = {} /\ Taking(E) = {}
  <2>1. Listing(R) = {} /\ Taking(R) = {}
    BY <1>5, <1>8
  <2>2. Choice(c, R, model) = NoEndpoint
    BY <1>4, <2>1 DEF FirstOf
  <2> QED BY <1>3, <1>4, <2>2 DEF E, R
<1> QED BY <1>6, <1>7, <1>8

\* A request gets its endpoint from Route alone.
LEMMA EndpointFromRoute ==
  ASSUME IInv, NEW r \in Requests, [Next]_vars, req'[r].endpoint # Endpoint(r)
  PROVE  Route(r)
<1>1. req \in [Requests -> [wish : Wishes, endpoint : Hosts, fate : Fates]]
  BY DEF IInv, TypeOK
<1>2. SUFFICES ASSUME ~Route(r) PROVE req'[r].endpoint = req[r].endpoint
  BY DEF Endpoint
<1>3. CASE UNCHANGED vars
  BY <1>3 DEF vars, gateVars
<1>4. CASE Edit
  BY <1>4 DEF Edit
<1>5. ASSUME NEW q \in Requests, Steps(q) \/ Leave(q) PROVE req'[r].endpoint = req[r].endpoint
  <2>1. CASE Route(q)
    <3>1. q # r
      BY <1>2, <2>1
    <3> QED BY <1>1, <2>1, <3>1 DEF Route
  <2>2. CASE Reject(q) \/ TranslationRaises(q)
    BY <1>1, <2>2 DEF Reject, TranslationRaises
  <2>3. CASE Admit(q) \/ Log(q) \/ Send(q) \/ Settle(q) \/ Validate(q) \/ Answer(q)
    BY <2>3 DEF Admit, Log, Send, Settle, Validate, Answer
  <2>4. CASE SearchFirst(q) \/ SearchGoesOn(q)
    BY <2>4 DEF SearchFirst, SearchGoesOn, gateVars
  <2>5. ASSUME NEW fate, Ended(q, fate) PROVE req'[r].endpoint = req[r].endpoint
    BY <1>1, <2>5 DEF Ended
  <2>6. CASE Leave(q)
    <3>1. CASE Ended(q, "closed")
      BY <2>5, <3>1
    <3>2. CASE req' = [req EXCEPT ![q].fate = "left"]
      BY <1>1, <3>2
    <3> QED BY <2>6, <3>1, <3>2 DEF Leave
  <2> QED BY <1>5, <2>1, <2>2, <2>3, <2>4, <2>5, <2>6 DEF Steps, CallEnds
<1> QED BY <1>3, <1>4, <1>5 DEF Next

\* A request goes where the interface says its model goes, or where it would go if local endpoints
\* were left out (ConfigService.resolve_route and the four searches of the services).
THEOREM RoutesAsShown == Spec => RouteAsShown
<1>1. ASSUME IInv, [Next]_vars, NEW r \in Requests, req'[r].endpoint # Endpoint(r)
      PROVE  LET shown == ResolveRoute(config, Wish(r).model)
             IN  req'[r].endpoint = shown \/ (Wish(r).api # "embeddings" /\ shown.local)
  <2> DEFINE w == Wish(r)
             e == Selected(w)
             shown == ResolveRoute(config, w.model)
  <2>1. Route(r)
    BY <1>1, EndpointFromRoute
  <2>2. config \in Configs /\ w \in Wishes /\ req \in [Requests -> [wish : Wishes, endpoint : Hosts, fate : Fates]]
    BY <1>1, RequestTypes DEF IInv, TypeOK
  <2>3. e # NoEndpoint /\ req'[r].endpoint = e
    BY <1>1, <2>1, <2>2 DEF Route, Endpoint
  <2>4. w.api \in Apis
    BY <2>2 DEF Wishes
  <2>5. e = Choice(config, IF w.api = "embeddings" THEN Enabled(config) ELSE Remote(config), w.model)
    BY <2>4 DEF Apis, Selected, ForProxy, ForMessages, ForResponses, ForEmbeddings
  <2> HIDE DEF w, e
  <2>6. e = shown \/ (w.api # "embeddings" /\ shown.local)
    BY <2>2, <2>3, <2>5, RouteShown
  <2> QED BY <2>3, <2>6 DEF w
<1>2. ASSUME IInv, [Next]_vars
      PROVE  [\A r \in Requests :
                LET shown == ResolveRoute(config, Wish(r).model)
                IN  req'[r].endpoint # Endpoint(r) =>
                      \/ req'[r].endpoint = shown
                      \/ Wish(r).api # "embeddings" /\ shown.local]_vars
  BY <1>1, <1>2
<1> QED BY <1>2, GatewayInvariance, PTL DEF Spec, RouteAsShown

-----------------------------------------------------------------------------
(* Gateway implements TraceLife.                                           *)

ExcusedSet == {t \in Traces : Excused(t)}
OverSet == {t \in Traces : Over(t)}
LifeUnchanged == trace' = trace /\ validated' = validated /\ ExcusedSet' = ExcusedSet /\ OverSet' = OverSet

LEMMA LifeStutters == ASSUME LifeUnchanged PROVE [Life!Next]_(Life!vars)
BY DEF LifeUnchanged, ExcusedSet, OverSet, Life!vars

LEMMA LifeBegins ==
  ASSUME NEW t \in Traces, t \notin OverSet, \A u \in Traces : u[1] = t[1] /\ u[2] = 0 => u \notin OverSet,
         trace[t] = "none", trace' = [trace EXCEPT ![t] = "open"],
         validated' = validated, ExcusedSet' = ExcusedSet, OverSet' = OverSet
  PROVE  Life!Next
<1>1. \A u \in Traces : t \in (IF u[2] = 0 THEN {u[1]} \X (1..MaxCalls) ELSE {}) => u[1] = t[1] /\ u[2] = 0
  OBVIOUS
<1> QED BY <1>1 DEF ExcusedSet, OverSet, Life!Next, Life!Begin, Life!Moves

LEMMA LifeSettles ==
  ASSUME NEW t \in Traces, t \notin OverSet, trace[t] = "open", trace' = [trace EXCEPT ![t] = "settled"],
         validated' = validated, ExcusedSet' = ExcusedSet \/ ExcusedSet' = ExcusedSet \cup {t}, OverSet' = OverSet
  PROVE  Life!Next
BY DEF ExcusedSet, OverSet, Life!Next, Life!Settle, Life!Moves

LEMMA LifeRewrites ==
  ASSUME NEW t \in Traces, t \in ExcusedSet, t \notin OverSet, trace[t] = "settled",
         trace' = [trace EXCEPT ![t] = "rewritten"],
         validated' = validated, ExcusedSet' = ExcusedSet, OverSet' = OverSet
  PROVE  Life!Next
BY DEF ExcusedSet, OverSet, Life!Next, Life!Rewrite, Life!Moves

LEMMA LifeValidates ==
  ASSUME NEW t \in Traces, t \notin validated, t \notin OverSet, trace[t] = "settled",
         trace' = trace, validated' = validated \cup {t}, ExcusedSet' = ExcusedSet, OverSet' = OverSet
  PROVE  Life!Next
BY DEF ExcusedSet, OverSet, Life!Next, Life!Validate

LEMMA LifeRetires ==
  ASSUME trace' = trace, validated' = validated,
         \A t \in Traces : Excused(t) => Excused(t)', \A t \in Traces : Over(t) => Over(t)',
         \A t \in Traces : Over(t)' /\ ~Over(t) =>
           /\ trace[t] = "open" => Excused(t)'
           /\ t[2] = 0 => \A i \in 1..MaxCalls : Over(<<t[1], i>>)'
  PROVE  Life!Next
<1>1. /\ ExcusedSet' \in SUBSET Traces /\ ExcusedSet \subseteq ExcusedSet'
      /\ OverSet' \in SUBSET Traces /\ OverSet \subseteq OverSet'
  BY DEF ExcusedSet, OverSet, Traces
<1>2. ASSUME NEW t \in OverSet' \ OverSet
      PROVE  /\ trace[t] = "open" => t \in ExcusedSet'
             /\ (IF t[2] = 0 THEN {t[1]} \X (1..MaxCalls) ELSE {}) \subseteq OverSet'
  <2>1. t \in Traces /\ Over(t)' /\ ~Over(t)
    BY DEF OverSet, Traces
  <2>2. trace[t] = "open" => t \in ExcusedSet'
    BY <2>1 DEF ExcusedSet, Traces
  <2>3. ASSUME t[2] = 0, NEW u \in {t[1]} \X (1..MaxCalls) PROVE u \in OverSet'
    <3>1. PICK i \in 1..MaxCalls : u = <<t[1], i>>
      OBVIOUS
    <3>2. u \in Traces /\ t[1] \in Requests
      BY <2>1, <3>1, OwnTrace DEF Traces
    <3> QED BY <2>1, <2>3, <3>1, <3>2 DEF OverSet, Traces
  <2> QED BY <2>2, <2>3
<1>3. Life!Retire
  BY <1>1, <1>2 DEF ExcusedSet, OverSet, Life!Retire
<1> QED BY <1>3 DEF Life!Next

-----------------------------------------------------------------------------
(* What is excused and what is over, from step to step.                    *)

LEMMA TraceParts ==
  ASSUME NEW t \in Traces
  PROVE  /\ t = <<t[1], t[2]>> /\ t[1] \in Requests /\ t[2] \in 0..MaxCalls
         /\ t[2] # 0 => t[2] \in 1..MaxCalls
BY MaxCallsAssumption DEF Traces

LEMMA ExcusedKept ==
  ASSUME NEW t \in Traces,
         \/ req'[t[1]] = req[t[1]]
         \/ {req'[t[1]].fate, req[t[1]].fate} \subseteq {"none", "malformed", "unrouted"},
         t[2] # 0 => (calls'[t[1]][t[2]].got = "garbage" <=> calls[t[1]][t[2]].got = "garbage")
  PROVE  Excused(t)' <=> Excused(t)
<1>1. calls'[t[1]][t[2]].got = "garbage" /\ t[2] > 0 <=> calls[t[1]][t[2]].got = "garbage" /\ t[2] > 0
  BY TraceParts, MaxCallsAssumption
<1>2. CASE req'[t[1]] = req[t[1]]
  <2>1. WayOf(t[1])' = WayOf(t[1]) /\ Wish(t[1])' = Wish(t[1])
    BY <1>2 DEF WayOf, Wish, Endpoint
  <2> QED BY <1>1, <1>2, <2>1 DEF Excused
<1>3. CASE {req'[t[1]].fate, req[t[1]].fate} \subseteq {"none", "malformed", "unrouted"}
  BY <1>1, <1>3 DEF Excused, Unfit
<1> QED BY <1>2, <1>3

LEMMA OverKept ==
  ASSUME NEW t \in Traces,
         stage'[t[1]] = "over" <=> stage[t[1]] = "over",
         search'[t[1]].phase = search[t[1]].phase, search'[t[1]].parts = search[t[1]].parts
  PROVE  Over(t)' <=> Over(t)
BY DEF Over, Reducing

\* A step after which searches and calls are as before, nothing more is over, and no request that is
\* excused is so for another reason.
LEMMA SetsKept ==
  ASSUME search' = search, calls' = calls,
         \A q \in Requests : stage'[q] = "over" <=> stage[q] = "over",
         \A q \in Requests : \/ req'[q] = req[q]
                             \/ {req'[q].fate, req[q].fate} \subseteq {"none", "malformed", "unrouted"}
  PROVE  ExcusedSet' = ExcusedSet /\ OverSet' = OverSet
<1>1. ASSUME NEW t \in Traces PROVE (Excused(t)' <=> Excused(t)) /\ (Over(t)' <=> Over(t))
  <2>1. t[1] \in Requests
    BY TraceParts
  <2> QED BY <2>1, ExcusedKept, OverKept
<1> QED BY <1>1 DEF ExcusedSet, OverSet, Traces

LEMMA OwnLive ==
  ASSUME NEW r \in Requests, stage[r] # "over"
  PROVE  /\ Own(r) \notin OverSet
         /\ \A u \in Traces : u[1] = r /\ u[2] = 0 => u \notin OverSet
<1>1. ASSUME NEW u \in Traces, u[1] = r, u[2] = 0 PROVE ~Over(u)
  <2>1. ~(u[2] > 0)
    BY <1>1
  <2> QED BY <1>1, <2>1 DEF Over
<1> QED BY <1>1, OwnTrace DEF OverSet

-----------------------------------------------------------------------------
(* The steps of a request.                                                 *)

LEMMA RouteLife == ASSUME IInv, NEW r \in Requests, Route(r) \/ Reject(r) PROVE LifeUnchanged
<1>1. /\ TypeOK /\ stage[r] \in {"route", "reject"} /\ req[r].fate = "none"
  BY RequestTypes DEF IInv, Route, Reject, RequestFits, StageFits, Moving
<1>2. /\ search' = search /\ calls' = calls /\ trace' = trace /\ validated' = validated
  BY DEF Route, Reject, mapVars
<1>3. /\ \A q \in Requests : q # r => req'[q] = req[q] /\ stage'[q] = stage[q]
      /\ stage'[r] # "over" /\ req'[r].fate \in {"none", "malformed", "unrouted"}
  <2>1. CASE Reject(r)
    BY <1>1, <2>1 DEF Reject, TypeOK
  <2>2. CASE Route(r)
    <3>1. \/ /\ req' = [req EXCEPT ![r].fate = "malformed"]
             /\ stage' = [stage EXCEPT ![r] = "answer"]
          \/ /\ req' = req
             /\ stage' = [stage EXCEPT ![r] = "reject"]
          \/ /\ req' = [req EXCEPT ![r].endpoint = Selected(Wish(r))]
             /\ stage' = [stage EXCEPT ![r] = First(Wish(r), Selected(Wish(r)))]
      BY <2>2 DEF Route
    <3>2. First(Wish(r), Selected(Wish(r))) # "over"
      BY DEF First
    <3> QED BY <1>1, <3>1, <3>2 DEF TypeOK
  <2> QED BY <2>1, <2>2
<1> QED BY <1>1, <1>2, <1>3, SetsKept DEF LifeUnchanged

LEMMA QuietLife == ASSUME IInv, NEW r \in Requests, Admit(r) \/ Send(r) PROVE LifeUnchanged
<1>1. TypeOK
  BY DEF IInv
<1>2. /\ search' = search /\ calls' = calls /\ trace' = trace /\ validated' = validated /\ req' = req
      /\ stage[r] # "over"
      /\ \E to \in {"send", "log", "wait"} : stage' = [stage EXCEPT ![r] = to]
  BY DEF Admit, Send, Goes, mapVars
<1>3. \A q \in Requests : stage'[q] = "over" <=> stage[q] = "over"
  BY <1>1, <1>2 DEF TypeOK
<1> QED BY <1>2, <1>3, SetsKept DEF LifeUnchanged

LEMMA LogLife == ASSUME IInv, NEW r \in Requests, Log(r) PROVE LifeUnchanged \/ Life!Next
<1>1. TypeOK /\ RequestFits(r)
  BY RequestTypes DEF IInv
<1>2. /\ search' = search /\ calls' = calls /\ validated' = validated /\ req' = req
      /\ stage[r] = "log" /\ trace' = Write(Own(r), "open")
      /\ \E to \in {"send", "admit"} : stage' = [stage EXCEPT ![r] = to]
  BY DEF Log, Goes
<1>3. \A q \in Requests : stage'[q] = "over" <=> stage[q] = "over"
  BY <1>1, <1>2 DEF TypeOK
<1>4. ExcusedSet' = ExcusedSet /\ OverSet' = OverSet
  BY <1>2, <1>3, SetsKept
<1>5. trace' = IF logged[r] THEN [trace EXCEPT ![Own(r)] = "open"] ELSE trace
  BY <1>2, OwnTrace DEF Write
<1>6. trace[Own(r)] = "none"
  BY <1>1, <1>2 DEF RequestFits, OwnFits, Moving, Traced
<1>7. Own(r) \in Traces /\ Own(r) \notin OverSet
      /\ \A u \in Traces : u[1] = Own(r)[1] /\ u[2] = 0 => u \notin OverSet
  BY <1>2, OwnLive, OwnTrace
<1>8. CASE logged[r]
  BY <1>2, <1>4, <1>5, <1>6, <1>7, <1>8, LifeBegins
<1>9. CASE ~logged[r]
  BY <1>2, <1>4, <1>5, <1>9 DEF LifeUnchanged
<1> QED BY <1>8, <1>9

LEMMA SettleLife == ASSUME IInv, NEW r \in Requests, Settle(r) PROVE LifeUnchanged \/ Life!Next
<1>1. TypeOK /\ RequestFits(r)
  BY RequestTypes DEF IInv
<1>2. /\ search' = search /\ calls' = calls /\ validated' = validated /\ req' = req
      /\ stage[r] = "settle" /\ trace' = Write(Own(r), "settled")
      /\ \E to \in {"validate", "answer"} : stage' = [stage EXCEPT ![r] = to]
  BY DEF Settle, Goes
<1>3. \A q \in Requests : stage'[q] = "over" <=> stage[q] = "over"
  BY <1>1, <1>2 DEF TypeOK
<1>4. ExcusedSet' = ExcusedSet /\ OverSet' = OverSet
  BY <1>2, <1>3, SetsKept
<1>5. trace' = IF logged[r] THEN [trace EXCEPT ![Own(r)] = "settled"] ELSE trace
  BY <1>2, OwnTrace DEF Write
<1>6. logged[r] => trace[Own(r)] = "open"
  BY <1>1, <1>2 DEF RequestFits, OwnFits, Moving, Traced
<1>7. Own(r) \in Traces /\ Own(r) \notin OverSet
  BY <1>2, OwnLive, OwnTrace
<1>8. CASE logged[r]
  BY <1>2, <1>4, <1>5, <1>6, <1>7, <1>8, LifeSettles
<1>9. CASE ~logged[r]
  BY <1>2, <1>4, <1>5, <1>9 DEF LifeUnchanged
<1> QED BY <1>8, <1>9

LEMMA ValidateLife == ASSUME IInv, NEW r \in Requests, Validate(r) PROVE Life!Next
<1>1. TypeOK /\ RequestFits(r)
  BY RequestTypes DEF IInv
<1>2. /\ search' = search /\ calls' = calls /\ trace' = trace /\ req' = req
      /\ stage[r] = "validate" /\ validated' = validated \cup {Own(r)}
      /\ stage' = [stage EXCEPT ![r] = "answer"]
  BY DEF Validate, Goes, mapVars
<1>3. \A q \in Requests : stage'[q] = "over" <=> stage[q] = "over"
  BY <1>1, <1>2 DEF TypeOK
<1>4. ExcusedSet' = ExcusedSet /\ OverSet' = OverSet
  BY <1>2, <1>3, SetsKept
<1>5. trace[Own(r)] = "settled" /\ Own(r) \notin validated
  BY <1>1, <1>2 DEF RequestFits, OwnFits, StageFits, Moving
<1>6. Own(r) \in Traces /\ Own(r) \notin OverSet
  BY <1>2, OwnLive, OwnTrace
<1> QED BY <1>2, <1>4, <1>5, <1>6, LifeValidates

\* A request gets its fate, and perhaps an excuse.
LEMMA FateLife ==
  ASSUME IInv, NEW r \in Requests, NEW fate \in Fates, NEW to \in {"settle", "answer"},
         stage[r] \in {"send", "wait"}, req' = [req EXCEPT ![r].fate = fate],
         stage' = [stage EXCEPT ![r] = to], UNCHANGED mapVars, validated' = validated
  PROVE  Life!Next
<1>1. TypeOK /\ RequestFits(r)
  BY RequestTypes DEF IInv
<1>2. /\ search' = search /\ calls' = calls /\ trace' = trace
      /\ req[r].fate = "none"
  BY <1>1 DEF mapVars, RequestFits, StageFits, Moving
<1>3. \A q \in Requests : /\ stage'[q] = "over" <=> stage[q] = "over"
                          /\ q # r => req'[q] = req[q]
  BY <1>1 DEF TypeOK
<1>4. ASSUME NEW t \in Traces PROVE (Excused(t) => Excused(t)') /\ (Over(t)' <=> Over(t))
  <2>1. t[1] \in Requests
    BY TraceParts
  <2>2. Over(t)' <=> Over(t)
    BY <1>2, <1>3, <2>1, OverKept
  <2>3. CASE t[1] # r
    BY <1>2, <1>3, <2>1, <2>2, <2>3, ExcusedKept
  <2>4. CASE t[1] = r
    BY <1>2, <2>2, <2>4 DEF Excused, Unfit
  <2> QED BY <2>3, <2>4
<1> QED BY <1>2, <1>4, LifeRetires

LEMMA EndedLife ==
  ASSUME IInv, NEW r \in Requests, NEW fate \in Fates, stage[r] = "wait", Ended(r, fate)
  PROVE  Life!Next
<1> DEFINE to == IF Ends(r, fate).settles THEN "settle" ELSE "answer"
<1>1. /\ UNCHANGED mapVars /\ validated' = validated
      /\ req' = [req EXCEPT ![r].fate = fate] /\ stage' = [stage EXCEPT ![r] = to]
  BY DEF Ended
<1>2. to \in {"settle", "answer"}
  OBVIOUS
<1> HIDE DEF to
<1> QED BY <1>1, <1>2, FateLife

LEMMA TranslationRaisesLife == ASSUME IInv, NEW r \in Requests, TranslationRaises(r) PROVE Life!Next
<1>1. "untranslatable" \in Fates
  BY DEF Fates
<1> QED BY <1>1, FateLife DEF TranslationRaises, Goes

\* A request is over, and with it everything of it.
LEMMA OverLife ==
  ASSUME IInv, NEW r \in Requests, stage[r] # "over", stage' = [stage EXCEPT ![r] = "over"],
         search' = search, calls' = calls, trace' = trace, validated' = validated,
         \A t \in Traces : Excused(t) => Excused(t)',
         \A t \in Traces : t[1] = r /\ trace[t] = "open" => Excused(t)'
  PROVE  Life!Next
<1>1. /\ stage'[r] = "over" /\ \A q \in Requests : q # r => stage'[q] = stage[q]
  BY DEF IInv, TypeOK
<1>2. ASSUME NEW t \in Traces
      PROVE  /\ Over(t) => Over(t)'
             /\ Over(t)' /\ ~Over(t) => t[1] = r
  <2>1. t[1] \in Requests
    BY TraceParts
  <2>2. CASE t[1] = r
    BY <1>1, <2>2 DEF Over
  <2>3. CASE t[1] # r
    BY <1>1, <2>1, <2>3, OverKept
  <2> QED BY <2>2, <2>3
<1>3. \A i \in 1..MaxCalls : Over(<<r, i>>)'
  BY <1>1 DEF Over
<1> QED BY <1>2, <1>3, LifeRetires

LEMMA LeaveLife == ASSUME IInv, NEW r \in Requests, Leave(r) PROVE Life!Next
<1>1. CASE stage[r] = "wait" /\ Ended(r, "closed")
  <2>1. "closed" \in Fates
    BY DEF Fates
  <2> QED BY <1>1, <2>1, EndedLife
<1>2. CASE /\ stage[r] \in {"send", "wait"}
           /\ req' = [req EXCEPT ![r].fate = "left"]
           /\ stage' = [stage EXCEPT ![r] = "over"]
           /\ UNCHANGED <<mapVars, config, edits, payload, body, sent, validated>>
  <2>1. /\ search' = search /\ calls' = calls /\ trace' = trace /\ validated' = validated
        /\ req'[r].fate = "left" /\ \A q \in Requests : q # r => req'[q] = req[q]
    BY <1>2 DEF mapVars, IInv, TypeOK
  <2>2. ASSUME NEW t \in Traces PROVE (Excused(t) => Excused(t)') /\ (t[1] = r => Excused(t)')
    <3>1. t[1] \in Requests
      BY TraceParts
    <3>2. CASE t[1] = r
      BY <2>1, <3>2 DEF Excused
    <3>3. CASE t[1] # r
      BY <2>1, <3>1, <3>3, ExcusedKept
    <3> QED BY <3>2, <3>3
  <2> QED BY <1>2, <2>1, <2>2, OverLife
<1> QED BY <1>1, <1>2 DEF Leave

LEMMA AnswerLife == ASSUME IInv, NEW r \in Requests, Answer(r) PROVE Life!Next
<1>1. /\ search' = search /\ calls' = calls /\ trace' = trace /\ validated' = validated /\ req' = req
      /\ stage[r] = "answer" /\ stage' = [stage EXCEPT ![r] = "over"]
  BY DEF Answer, Goes, mapVars
<1>2. Quiet(r) /\ (trace[Own(r)] = "open" => Excused(Own(r)))
  BY <1>1, RequestTypes DEF RequestFits, StageFits, OwnFits, Moving
<1>3. \A t \in Traces : Excused(t)' <=> Excused(t)
  BY <1>1, ExcusedKept
<1>4. ASSUME NEW i \in 1..MaxCalls PROVE trace[<<r, i>>] # "open"
  <2>1. calls[r][i].stage \in {"none", "over"}
    <3>1. \/ search[r].phase \in {"none", "found"}
          \/ search[r].phase = "mapping" /\ CallsOver(r)
      BY <1>2, SearchTypes DEF IInv, Search, Quiet, Busy
    <3>2. PhaseFits(search[r], calls[r])
      BY SearchTypes DEF IInv, Fits
    <3> QED BY <3>1, <3>2 DEF PhaseFits, NoCall, CallsOver, Mapped
  <2>2. TraceFits(r, i)
    BY DEF IInv, MapInv
  <2> QED BY <2>1, <2>2 DEF TraceFits, FilesOf
<1>5. ASSUME NEW t \in Traces, t[1] = r, trace[t] = "open" PROVE Excused(t)'
  <2>1. t[2] = 0
    BY <1>4, <1>5, TraceParts
  <2>2. t = Own(r)
    BY <1>5, <2>1, TraceParts DEF Own
  <2> QED BY <1>2, <1>3, <1>5, <2>2
<1> QED BY <1>1, <1>3, <1>5, OverLife

-----------------------------------------------------------------------------
(* The steps of a search.                                                  *)

\* A call that is under way is not over, nor is its request.
LEMMA CallLive ==
  ASSUME IInv, NEW r \in Requests, NEW i \in 1..MaxCalls, stage[r] = "wait", Busy(r),
         calls[r][i].stage \in {"ready", "sent", "unread"}
  PROVE  /\ <<r, i>> \in Traces /\ <<r, i>> \notin OverSet
         /\ \A u \in Traces : u[1] = r /\ u[2] = 0 => u \notin OverSet
<1>1. PhaseFits(search[r], calls[r])
  BY SearchTypes DEF IInv, Fits
<1>2. search[r].phase = "mapping" \/ (search[r].phase = "reducing" /\ i = Reducing(r))
  BY <1>1 DEF Busy, PhaseFits, Reducing
<1>3. ~Over(<<r, i>>)
  BY <1>2 DEF Over
<1> QED BY <1>3, OwnLive, OwnTrace DEF OverSet

\* A step of a search in which no call becomes unreadable and no phase ends.
LEMMA CallSets ==
  ASSUME req' = req, stage' = stage,
         \A q \in Requests : search'[q].phase = search[q].phase /\ search'[q].parts = search[q].parts,
         \A q \in Requests, j \in 1..MaxCalls : calls'[q][j].got = "garbage" <=> calls[q][j].got = "garbage"
  PROVE  ExcusedSet' = ExcusedSet /\ OverSet' = OverSet
<1>1. ASSUME NEW t \in Traces PROVE (Excused(t)' <=> Excused(t)) /\ (Over(t)' <=> Over(t))
  <2>1. t[1] \in Requests /\ (t[2] # 0 => t[2] \in 1..MaxCalls)
    BY TraceParts
  <2> QED BY <2>1, ExcusedKept, OverKept
<1> QED BY <1>1 DEF ExcusedSet, OverSet, Traces

LEMMA CallLife ==
  ASSUME IInv, NEW r \in Requests, NEW i \in 1..MaxCalls, stage[r] = "wait", CallSteps(r, i),
         UNCHANGED gateVars
  PROVE  LifeUnchanged \/ Life!Next
<1>1. /\ calls \in [Requests -> [1..MaxCalls -> Call]] /\ search \in [Requests -> Search]
      /\ req' = req /\ stage' = stage /\ validated' = validated
  BY DEF IInv, TypeOK, gateVars
<1>2. CallFits(calls[r][i]) /\ TraceFits(r, i)
  BY SearchTypes DEF IInv, MapInv, Fits
<1> DEFINE t == <<r, i>>
<1>3. Busy(r) /\ calls[r][i].stage \in {"ready", "sent", "unread"}
  BY DEF CallSteps, SendCall, CallFails, CallUnreadable, CallRewritten, CallAnswered, Calling
<1>4. /\ t \in Traces /\ t \notin OverSet /\ t[1] = r /\ t[2] = i /\ i # 0 /\ i > 0
      /\ \A u \in Traces : u[1] = t[1] /\ u[2] = 0 => u \notin OverSet
  BY <1>1, <1>3, CallLive, MaxCallsAssumption
<1>5. \A half : Write(t, half) = IF logged[r] THEN [trace EXCEPT ![t] = half] ELSE trace
  BY DEF Write
<1> HIDE DEF t
<1>6. ASSUME ~logged[r], trace' = trace PROVE ExcusedSet' = ExcusedSet /\ OverSet' = OverSet => LifeUnchanged
  BY <1>1, <1>6 DEF LifeUnchanged
<1>7. CASE SendCall(r, i)
  <2>1. /\ calls[r][i].stage = "ready" /\ trace' = Write(t, "open") /\ search' = search
        /\ calls' = [calls EXCEPT ![r][i].stage = "sent"]
    BY <1>7 DEF SendCall, Calling, t
  <2>2. ExcusedSet' = ExcusedSet /\ OverSet' = OverSet
    BY <1>1, <2>1, CallSets
  <2>3. CASE logged[r]
    <3>1. trace[t] = "none"
      BY <1>2, <2>1, <2>3 DEF TraceFits, FilesOf, t
    <3> QED BY <1>1, <1>4, <1>5, <2>1, <2>2, <2>3, <3>1, LifeBegins
  <2>4. CASE ~logged[r]
    BY <1>1, <1>5, <2>1, <2>2, <2>4 DEF LifeUnchanged
  <2> QED BY <2>3, <2>4
<1>8. CASE CallFails(r, i) \/ \E got \in {"text", "empty"} : CallAnswered(r, i, got)
  <2>1. /\ calls[r][i].stage = "sent" /\ trace' = Write(t, "settled")
    BY <1>8 DEF CallFails, CallAnswered, Calling, t
  <2>2. \A q \in Requests, j \in 1..MaxCalls : calls'[q][j].got = "garbage" <=> calls[q][j].got = "garbage"
    <3>1. CASE CallFails(r, i)
      BY <1>1, <3>1 DEF CallFails
    <3>2. ASSUME NEW got \in {"text", "empty"}, CallAnswered(r, i, got)
          PROVE  \A q \in Requests, j \in 1..MaxCalls : calls'[q][j].got = "garbage" <=> calls[q][j].got = "garbage"
      <4>1. calls' = [calls EXCEPT ![r][i] = [stage |-> "over", got |-> got]]
        BY <3>2 DEF CallAnswered
      <4>2. calls[r][i].got = "none"
        BY <1>2, <2>1 DEF CallFits
      <4> QED BY <1>1, <4>1, <4>2
    <3> QED BY <1>8, <3>1, <3>2
  <2>3. \A q \in Requests : search'[q].phase = search[q].phase /\ search'[q].parts = search[q].parts
    <3>1. search' = search \/ \E results : search' = [search EXCEPT ![r].results = results]
      BY <1>8 DEF CallFails, CallAnswered
    <3>2. ASSUME NEW results, search' = [search EXCEPT ![r].results = results], NEW q \in Requests
          PROVE  search'[q].phase = search[q].phase /\ search'[q].parts = search[q].parts
      <4>1. search'[r] = [search[r] EXCEPT !.results = results] /\ (q # r => search'[q] = search[q])
        BY <1>1, <3>2
      <4> QED BY <1>1, <4>1 DEF Search
    <3> QED BY <3>1, <3>2
  <2>4. ExcusedSet' = ExcusedSet /\ OverSet' = OverSet
    BY <1>1, <2>2, <2>3, CallSets
  <2>5. CASE logged[r]
    <3>1. trace[t] = "open"
      BY <1>2, <2>1, <2>5 DEF TraceFits, FilesOf, t
    <3> QED BY <1>1, <1>4, <1>5, <2>1, <2>4, <2>5, <3>1, LifeSettles
  <2>6. CASE ~logged[r]
    BY <1>1, <1>5, <2>1, <2>4, <2>6 DEF LifeUnchanged
  <2> QED BY <2>5, <2>6
<1>9. CASE CallUnreadable(r, i)
  <2>1. /\ calls[r][i].stage = "sent" /\ trace' = Write(t, "settled") /\ search' = search
        /\ calls' = [calls EXCEPT ![r][i] = [stage |-> "unread", got |-> "garbage"]]
    BY <1>9 DEF CallUnreadable, Calling, t
  <2>2. /\ calls'[r][i].got = "garbage"
        /\ \A q \in Requests, j \in 1..MaxCalls : <<q, j>> # <<r, i>> => calls'[q][j] = calls[q][j]
    BY <1>1, <2>1
  <2>3. ASSUME NEW u \in Traces
        PROVE  (u # t => (Excused(u)' <=> Excused(u))) /\ (Over(u)' <=> Over(u)) /\ (u = t => Excused(u)')
    <3>1. u[1] \in Requests /\ (u[2] # 0 => u[2] \in 1..MaxCalls) /\ u = <<u[1], u[2]>>
      BY TraceParts
    <3>2. Over(u)' <=> Over(u)
      BY <1>1, <2>1, <3>1, OverKept
    <3>3. CASE u = t
      BY <1>4, <2>2, <3>2, <3>3 DEF Excused
    <3>4. CASE u # t
      <4>1. u[2] # 0 => calls'[u[1]][u[2]] = calls[u[1]][u[2]]
        BY <2>2, <3>1, <3>4 DEF t
      <4> QED BY <1>1, <3>1, <3>2, <3>4, <4>1, ExcusedKept
    <3> QED BY <3>3, <3>4
  <2>4. ExcusedSet' = ExcusedSet \cup {t} /\ OverSet' = OverSet
    BY <1>4, <2>3 DEF ExcusedSet, OverSet, Traces
  <2>5. CASE logged[r]
    <3>1. trace[t] = "open"
      BY <1>2, <2>1, <2>5 DEF TraceFits, FilesOf, t
    <3> QED BY <1>1, <1>4, <1>5, <2>1, <2>4, <2>5, <3>1, LifeSettles
  <2>6. CASE ~logged[r]
    <3>1. trace' = trace /\ validated' = validated
      BY <1>1, <1>5, <2>1, <2>6
    <3>2. trace[t] = "none"
      BY <1>2, <2>6 DEF TraceFits, t
    <3>3. \A u \in Traces : Excused(u) => Excused(u)'
      BY <2>4 DEF ExcusedSet, Traces
    <3>4. \A u \in Traces : Over(u)' <=> Over(u)
      BY <2>3
    <3> QED BY <3>1, <3>3, <3>4, LifeRetires
  <2> QED BY <2>5, <2>6
<1>10. CASE CallRewritten(r, i)
  <2>1. /\ calls[r][i].stage = "unread" /\ trace' = Write(t, "rewritten") /\ search' = search
        /\ calls' = [calls EXCEPT ![r][i].stage = "over"]
    BY <1>10 DEF CallRewritten, Calling, t
  <2>2. ExcusedSet' = ExcusedSet /\ OverSet' = OverSet
    BY <1>1, <2>1, CallSets
  <2>3. CASE logged[r]
    <3>1. trace[t] = "settled" /\ calls[r][i].got = "garbage"
      BY <1>2, <2>1, <2>3 DEF TraceFits, FilesOf, CallFits, t
    <3>2. t \in ExcusedSet
      BY <1>4, <3>1 DEF ExcusedSet, Excused
    <3> QED BY <1>1, <1>4, <1>5, <2>1, <2>2, <2>3, <3>1, <3>2, LifeRewrites
  <2>4. CASE ~logged[r]
    BY <1>1, <1>5, <2>1, <2>2, <2>4 DEF LifeUnchanged
  <2> QED BY <2>3, <2>4
<1> QED BY <1>7, <1>8, <1>9, <1>10 DEF CallSteps

\* A search begins, ends or goes on to the reducing call: calls that are over then are not open.
LEMMA PhaseLife ==
  ASSUME IInv, NEW r \in Requests, MapInv', stage[r] = "wait", UNCHANGED gateVars,
         trace' = trace, logged' = logged,
         \A q \in Requests : q # r => search'[q] = search[q],
         \A q \in Requests, j \in 1..MaxCalls : calls'[q][j].got = "garbage" <=> calls[q][j].got = "garbage",
         search[r].phase \in {"none", "mapping", "reducing"}, search'[r].phase # "none",
         search[r].phase = "reducing" => search'[r].phase = "found"
  PROVE  Life!Next
<1>1. req' = req /\ stage' = stage /\ validated' = validated
  BY DEF gateVars
<1>2. PhaseFits(search[r], calls[r])' /\ \A i \in 1..MaxCalls : TraceFits(r, i)'
  <2>1. Fits(search[r], calls[r])'
    BY DEF MapInv
  <2> QED BY <2>1 DEF MapInv, Fits
<1>3. ASSUME NEW t \in Traces
      PROVE  /\ Excused(t)' <=> Excused(t)
             /\ Over(t) => Over(t)'
             /\ Over(t)' /\ ~Over(t) => t[1] = r /\ t[2] # 0 /\ trace[t] # "open"
  <2>1. t[1] \in Requests /\ (t[2] # 0 => t[2] \in 1..MaxCalls) /\ t = <<t[1], t[2]>>
    BY TraceParts
  <2>2. Excused(t)' <=> Excused(t)
    BY <1>1, <2>1, ExcusedKept
  <2>3. CASE t[1] # r
    <3>1. Over(t)' <=> Over(t)
      BY <1>1, <2>1, <2>3, OverKept
    <3> QED BY <2>2, <3>1
  <2>4. CASE t[1] = r /\ t[2] = 0
    <3>1. ~(t[2] > 0)
      BY <2>4
    <3> QED BY <1>1, <2>2, <2>4, <3>1 DEF Over
  <2>5. CASE t[1] = r /\ t[2] # 0
    <3>1. t[2] \in 1..MaxCalls /\ t[2] > 0
      BY <2>1, <2>5, MaxCallsAssumption
    <3>2. Over(t) => Over(t)'
      BY <1>1, <2>5 DEF Over
    <3>3. ASSUME Over(t)' PROVE trace[t] # "open"
      <4>1. \/ search'[r].phase = "found"
            \/ search'[r].phase = "reducing" /\ t[2] # Len(search'[r].parts) + 1
        BY <1>1, <2>5, <3>3 DEF Over, Reducing
      <4>2. calls'[r][t[2]].stage \in {"none", "over"}
        BY <1>2, <3>1, <4>1 DEF PhaseFits
      <4>3. trace'[<<r, t[2]>>] \in IF logged'[r] THEN FilesOf(calls'[r][t[2]].stage) ELSE {"none"}
        BY <1>2, <3>1 DEF TraceFits
      <4> QED BY <2>1, <2>5, <4>2, <4>3 DEF FilesOf
    <3> QED BY <2>2, <2>5, <3>2, <3>3
  <2> QED BY <2>3, <2>4, <2>5
<1> QED BY <1>1, <1>3, LifeRetires

LEMMA SearchLife ==
  ASSUME IInv, NEW r \in Requests, SearchFirst(r) \/ SearchGoesOn(r)
  PROVE  LifeUnchanged \/ Life!Next
<1>1. /\ MapInv' /\ logged' = logged /\ UNCHANGED gateVars /\ stage[r] = "wait"
      /\ \A q \in Requests : q # r => search'[q] = search[q] /\ calls'[q] = calls[q]
  BY SearchFrame
<1>2. /\ calls \in [Requests -> [1..MaxCalls -> Call]] /\ search \in [Requests -> Search]
  BY DEF IInv, TypeOK
<1>3. CASE SearchFirst(r)
  <2>1. search[r].phase = "none"
    BY <1>3 DEF SearchFirst
  <2>2. /\ trace' = trace /\ search'[r].phase # "none"
        /\ \A j \in 1..MaxCalls : calls'[r][j].got # "garbage"
    <3>1. \A j \in 1..MaxCalls : calls[r][j].got # "garbage"
      <4>1. \A j \in 1..MaxCalls : calls[r][j] = NoCall
        BY <2>1, SearchTypes DEF IInv, Fits, PhaseFits
      <4> QED BY <4>1 DEF NoCall
    <3>2. PICK text \in Texts : \/ ReturnRaw(r, text)
                                \/ \E budget \in Budgets, reduce \in BOOLEAN : StartMapping(r, text, budget, reduce)
      BY <1>3 DEF SearchFirst
    <3>3. CASE ReturnRaw(r, text)
      BY <1>2, <3>1, <3>3 DEF ReturnRaw
    <3>4. ASSUME NEW budget \in Budgets, NEW reduce \in BOOLEAN, StartMapping(r, text, budget, reduce)
          PROVE  /\ trace' = trace /\ search'[r].phase # "none"
                 /\ \A j \in 1..MaxCalls : calls'[r][j].got # "garbage"
      <4>1. /\ trace' = trace /\ search'[r].phase = "mapping"
            /\ calls'[r] = [i \in 1..MaxCalls |-> IF i \in DOMAIN ChunksOf(text, budget)
                                                 THEN [NoCall EXCEPT !.stage = "ready"] ELSE NoCall]
        BY <1>2, <3>4 DEF StartMapping
      <4>2. NoCall.got = "none" /\ [NoCall EXCEPT !.stage = "ready"].got = "none"
        BY DEF NoCall
      <4> QED BY <4>1, <4>2
    <3> QED BY <3>2, <3>3, <3>4
  <2>3. \A j \in 1..MaxCalls : calls[r][j].got # "garbage"
    <3>1. \A j \in 1..MaxCalls : calls[r][j] = NoCall
      BY <2>1, SearchTypes DEF IInv, Fits, PhaseFits
    <3> QED BY <3>1 DEF NoCall
  <2>4. \A q \in Requests, j \in 1..MaxCalls : calls'[q][j].got = "garbage" <=> calls[q][j].got = "garbage"
    BY <1>1, <2>2, <2>3
  <2> QED BY <1>1, <2>1, <2>2, <2>4, PhaseLife
<1>4. CASE Combine(r)
  <2>1. /\ trace' = trace /\ search[r].phase = "mapping"
        /\ \/ (\E kind : search' = [search EXCEPT ![r] = Found(search[r], kind)]) /\ calls' = calls
           \/ /\ search' = [search EXCEPT ![r].phase = "reducing"]
              /\ calls' = [calls EXCEPT ![r][Reducing(r)].stage = "ready"]
    BY <1>4 DEF Combine
  <2>2. search'[r].phase \in {"found", "reducing"}
    BY <1>2, <2>1, ZenonT(60) DEF Found, Search
  <2>4. \A j \in 1..MaxCalls : calls'[r][j].got = calls[r][j].got
    <3>1. CASE calls' = calls
      BY <3>1
    <3>2. CASE calls' = [calls EXCEPT ![r][Reducing(r)].stage = "ready"]
      <4> DEFINE k == Reducing(r)
      <4> HIDE DEF k
      <4>1. calls'[r] = [calls[r] EXCEPT ![k] = [calls[r][k] EXCEPT !.stage = "ready"]]
        BY <1>2, <3>2 DEF k
      <4> QED BY <1>2, <4>1 DEF Call
    <3> QED BY <2>1, <3>1, <3>2
  <2>3. \A q \in Requests, j \in 1..MaxCalls : calls'[q][j].got = "garbage" <=> calls[q][j].got = "garbage"
    BY <1>1, <2>4
  <2> QED BY <1>1, <2>1, <2>2, <2>3, PhaseLife
<1>5. CASE Reduced(r)
  <2>1. trace' = trace /\ search[r].phase = "reducing" /\ search'[r].phase = "found" /\ calls' = calls
    BY <1>2, <1>5 DEF Reduced, Found, Search
  <2> QED BY <1>1, <2>1, PhaseLife
<1>6. ASSUME NEW i \in 1..MaxCalls, CallSteps(r, i) PROVE LifeUnchanged \/ Life!Next
  BY <1>1, <1>6, CallLife
<1> QED BY <1>3, <1>4, <1>5, <1>6 DEF SearchGoesOn, Searching

LEMMA LifeStep == ASSUME IInv, [Next]_vars PROVE [Life!Next]_(Life!vars)
<1>1. CASE UNCHANGED vars \/ Edit
  <2>1. /\ search' = search /\ calls' = calls /\ trace' = trace /\ validated' = validated
        /\ req' = req /\ stage' = stage
    BY <1>1 DEF vars, mapVars, gateVars, Edit
  <2>2. LifeUnchanged
    BY <2>1, SetsKept DEF LifeUnchanged
  <2> QED BY <2>2, LifeStutters
<1>2. ASSUME NEW r \in Requests, Steps(r) \/ Leave(r) PROVE LifeUnchanged \/ Life!Next
  <2>1. CASE \E fate \in Fates : CallEnds(r, fate)
    BY <2>1, EndedLife DEF CallEnds
  <2> QED BY <1>2, <2>1, RouteLife, QuietLife, LogLife, TranslationRaisesLife, SettleLife, ValidateLife,
             AnswerLife, LeaveLife, SearchLife DEF Steps
<1> QED BY <1>1, <1>2, LifeStutters DEF Next

LEMMA LifeInit == ASSUME Init PROVE Life!Init
<1>1. ASSUME NEW t \in Traces PROVE trace[t] = "none" /\ ~Excused(t) /\ ~Over(t)
  <2>1. t[1] \in Requests /\ (t[2] # 0 => t[2] \in 1..MaxCalls)
    BY TraceParts
  <2>2. /\ req[t[1]].fate = "none" /\ stage[t[1]] = "route" /\ search[t[1]].phase = "none"
        /\ t[2] \in 1..MaxCalls => calls[t[1]][t[2]].got = "none"
    BY <2>1 DEF Init, InitMapReduce, NoSearch, NoCall, Arriving
  <2>3. t[2] > 0 => t[2] # 0
    BY TraceParts
  <2> QED BY <2>1, <2>2, <2>3 DEF Excused, Unfit, Over, Init, InitMapReduce
<1>2. ExcusedSet = {} /\ OverSet = {} /\ trace = [t \in Traces |-> "none"] /\ validated = {}
  BY <1>1 DEF ExcusedSet, OverSet, Init, InitMapReduce, Traces
<1> QED BY <1>2 DEF Life!Init, ExcusedSet, OverSet

\* Requests and the calls of a map-reduce are traced as TraceLife promises, in any interleaving and
\* whatever is edited, but for what Excused names: clients that left, requests and answers that the
\* code cannot translate or read (save_request_trace, save_response_trace, their callers).
THEOREM TracesLive == Spec => ImplementsLife
<1>1. Init => Life!Init
  BY LifeInit
<1>2. IInv /\ [Next]_vars => [Life!Next]_(Life!vars)
  BY LifeStep
<1> QED BY <1>1, <1>2, GatewayInvariance, PTL DEF Spec, ImplementsLife, Life!Spec
=============================================================================
