------------------------ MODULE ResponseStreamProofs ------------------------
(***************************************************************************)
(* Proofs about ResponseStream, for every number of turns, of calls in an  *)
(* answer and of searches allowed.                                         *)
(***************************************************************************)
EXTENDS ResponseStream, SequenceLemmas, FiniteSetTheorems

Items == [kind : Kinds, turn : 1..MaxTurns]

-----------------------------------------------------------------------------
(* Condensed.                                                              *)

\* f[n] is what the first n items become, for n up to m.
Condenses(f, items, last, m) == f = [n \in 0..m |-> CondensedTo(items, last, f, n)]

LEMMA CondensesAt ==
  ASSUME NEW f, NEW items, NEW last, NEW m \in Nat, Condenses(f, items, last, m)
  PROVE  \A n \in 0..m : f[n] = CondensedTo(items, last, f, n)
BY DEF Condenses

\* The recursion of Condensed ends: there is a function as it defines it.
LEMMA CondensedDefined ==
  ASSUME NEW items \in Seq(Items), NEW last \in Int
  PROVE  \E f : Condenses(f, items, last, Len(items)) /\ Condensed(items, last) = f[Len(items)]
<1> DEFINE L == Len(items)
           undefined == {m \in 0..L : ~\E f : Condenses(f, items, last, m)}
<1>1. L \in Nat
  BY LenProperties
<1>2. undefined = {}
  <2> SUFFICES ASSUME undefined # {} PROVE FALSE
    OBVIOUS
  <2>1. PICK m \in undefined : \A k \in undefined : m <= k
    <3>1. undefined \in SUBSET Nat
      BY <1>1
    <3> HIDE DEF undefined
    <3> QED BY <3>1, LeastElement
  <2>2. m \in 0..L /\ ~\E f : Condenses(f, items, last, m)
    OBVIOUS
  <2>3. CASE m = 0
    <3> DEFINE g == [n \in 0..0 |-> <<>>]
    <3>1. \A n \in 0..0 : CondensedTo(items, last, g, n) = <<>>
      BY DEF CondensedTo
    <3>2. Condenses(g, items, last, 0)
      BY <3>1 DEF Condenses
    <3> QED BY <2>2, <2>3, <3>2
  <2>4. CASE m # 0
    <3>1. PICK f : Condenses(f, items, last, m - 1)
      <4>1. m - 1 \in 0..L /\ m - 1 < m
        BY <1>1, <2>2, <2>4
      <4>2. m - 1 \notin undefined
        <5> HIDE DEF undefined
        <5> QED BY <2>1, <2>2, <4>1
      <4> QED BY <4>1, <4>2
    <3> DEFINE g == [n \in 0..m |-> IF n = m THEN CondensedTo(items, last, f, m) ELSE f[n]]
    <3>2. \A n \in 0..m : CondensedTo(items, last, g, n) = CondensedTo(items, last, f, n)
      <4> SUFFICES ASSUME NEW n \in 0..m
                   PROVE  CondensedTo(items, last, g, n) = CondensedTo(items, last, f, n)
        OBVIOUS
      <4>1. CASE n = 0
        BY <4>1 DEF CondensedTo
      <4>2. CASE n # 0
        <5>1. g[n - 1] = f[n - 1]
          BY <2>2, <4>2
        <5> HIDE DEF g
        <5> QED BY <5>1 DEF CondensedTo
      <4> QED BY <4>1, <4>2
    <3>3. \A n \in 0..(m - 1) : f[n] = CondensedTo(items, last, f, n)
      BY <3>1 DEF Condenses
    <3>4. \A n \in 0..m : g[n] = CondensedTo(items, last, f, n)
      <4>1. \A n \in 0..m : n = m \/ n \in 0..(m - 1)
        BY <2>2
      <4> QED BY <3>3, <4>1
    <3>5. g = [n \in 0..m |-> g[n]]
      OBVIOUS
    <3> HIDE DEF g
    <3>6. Condenses(g, items, last, m)
      BY <3>2, <3>4, <3>5 DEF Condenses
    <3> QED BY <2>2, <3>6
  <2> QED BY <2>3, <2>4
<1>3. \E f : Condenses(f, items, last, L)
  BY <1>1, <1>2
<1> DEFINE chosen == CHOOSE f : Condenses(f, items, last, L)
<1>4. Condenses(chosen, items, last, L)
  BY <1>3
<1>5. Condensed(items, last) = chosen[L]
  BY DEF Condensed, Condenses
<1> QED BY <1>4, <1>5

\* The first m items are the same, and the same of them are of a turn to come.
BeginAlike(s, a, f, t, b, g, m) ==
  /\ s \in Seq(Items) /\ Condenses(f, s, a, Len(s))
  /\ t \in Seq(Items) /\ Condenses(g, t, b, Len(t))
  /\ m \in 0..Len(s) /\ m \in 0..Len(t)
  /\ \A i \in 1..m : s[i] = t[i] /\ (s[i].turn > a <=> t[i].turn > b)

\* What the first items become does not depend on those that follow.
LEMMA CondensedAgrees ==
  ASSUME NEW s, NEW a, NEW f, NEW t, NEW b, NEW g, NEW m, BeginAlike(s, a, f, t, b, g, m)
  PROVE  f[m] = g[m]
<1> DEFINE apart == {n \in 0..m : f[n] # g[n]}
<1>1. /\ m \in Nat
      /\ \A n \in 0..m : f[n] = CondensedTo(s, a, f, n) /\ g[n] = CondensedTo(t, b, g, n)
  <2>1. Len(s) \in Nat /\ Len(t) \in Nat /\ m \in 0..Len(s) /\ m \in 0..Len(t)
    BY LenProperties DEF BeginAlike
  <2>2. \A n \in 0..Len(s) : f[n] = CondensedTo(s, a, f, n)
    BY <2>1, CondensesAt DEF BeginAlike
  <2>3. \A n \in 0..Len(t) : g[n] = CondensedTo(t, b, g, n)
    BY <2>1, CondensesAt DEF BeginAlike
  <2> QED BY <2>1, <2>2, <2>3
<1>2. apart = {}
  <2> SUFFICES ASSUME apart # {} PROVE FALSE
    OBVIOUS
  <2>1. PICK n \in apart : \A k \in apart : n <= k
    <3>1. apart \in SUBSET Nat
      BY <1>1
    <3> HIDE DEF apart
    <3> QED BY <3>1, LeastElement
  <2>2. n \in 0..m /\ f[n] # g[n]
    OBVIOUS
  <2>3. CASE n = 0
    BY <1>1, <2>2, <2>3 DEF CondensedTo
  <2>4. CASE n # 0
    <3>1. n \in 1..m /\ n - 1 \in 0..m /\ (n > 1 => n - 1 \in 1..m)
      BY <1>1, <2>2, <2>4
    <3>2. f[n - 1] = g[n - 1]
      <4>1. n - 1 \notin apart
        <5> HIDE DEF apart
        <5> QED BY <2>1, <2>2, <3>1
      <4> QED BY <3>1, <4>1
    <3>3. s[n] = t[n] /\ (s[n].turn > a <=> t[n].turn > b) /\ (n > 1 => s[n - 1] = t[n - 1])
      BY <3>1 DEF BeginAlike
    <3>4. CondensedTo(s, a, f, n) = CondensedTo(t, b, g, n)
      BY <3>2, <3>3 DEF CondensedTo
    <3> QED BY <1>1, <2>2, <3>4
  <2> QED BY <2>3, <2>4
<1> QED BY <1>1, <1>2

\* The same items up to a later turn, if none of them is later than the first.
LEMMA CondensedUpTo ==
  ASSUME NEW s \in Seq(Items), NEW a \in Int, NEW b \in Int,
         \A i \in 1..Len(s) : s[i].turn <= a /\ s[i].turn <= b
  PROVE  Condensed(s, a) = Condensed(s, b)
<1>1. Len(s) \in Nat /\ \A i \in 1..Len(s) : s[i].turn \in Int
  <2>1. \A i \in 1..Len(s) : s[i] \in Items
    BY ElementOfSeq
  <2>2. \A x \in Items : x.turn \in Int
    BY LoopAssumption DEF Items
  <2> QED BY <2>1, <2>2, LenProperties
<1>2. PICK f : Condenses(f, s, a, Len(s)) /\ Condensed(s, a) = f[Len(s)]
  BY CondensedDefined
<1>3. PICK g : Condenses(g, s, b, Len(s)) /\ Condensed(s, b) = g[Len(s)]
  BY CondensedDefined
<1>4. \A i \in 1..Len(s) : s[i].turn > a <=> s[i].turn > b
  BY <1>1
<1>5. f[Len(s)] = g[Len(s)]
  <2>1. BeginAlike(s, a, f, s, b, g, Len(s))
    BY <1>1, <1>2, <1>3, <1>4 DEF BeginAlike
  <2> QED BY <2>1, CondensedAgrees
<1> QED BY <1>2, <1>3, <1>5

\* One more item adds itself, unless it is of a later turn or goes on with the reasoning.
LEMMA CondensedEmpty == ASSUME NEW last \in Int PROVE Condensed(<<>>, last) = <<>>
<1>1. <<>> \in Seq(Items) /\ Len(<<>>) = 0
  OBVIOUS
<1>2. PICK f : Condenses(f, <<>>, last, 0) /\ Condensed(<<>>, last) = f[0]
  BY <1>1, CondensedDefined
<1> QED BY <1>2 DEF Condenses, CondensedTo

LEMMA CondensedAppend ==
  ASSUME NEW s \in Seq(Items), NEW x \in Items, NEW last \in Int
  PROVE  Condensed(Append(s, x), last) =
           IF x.turn > last \/ (s # <<>> /\ x = s[Len(s)] /\ x.kind = "reasoning")
           THEN Condensed(s, last) ELSE Append(Condensed(s, last), x)
<1> DEFINE t == Append(s, x)
           L == Len(s)
<1>1. /\ t \in Seq(Items) /\ Len(t) = L + 1 /\ L \in Nat
      /\ \A i \in 1..L : t[i] = s[i]
      /\ t[L + 1] = x
      /\ s # <<>> <=> L > 0
  BY LenProperties, AppendProperties, EmptySeq
<1>2. PICK f : Condenses(f, s, last, L) /\ Condensed(s, last) = f[L]
  BY CondensedDefined
<1>3. PICK g : Condenses(g, t, last, L + 1) /\ Condensed(t, last) = g[L + 1]
  BY <1>1, CondensedDefined
<1> HIDE DEF t, L
<1>4. f[L] = g[L]
  <2>1. L = Len(s)
    BY DEF L
  <2>2. BeginAlike(s, last, f, t, last, g, L)
    BY <1>1, <1>2, <1>3, <2>1 DEF BeginAlike
  <2> QED BY <2>2, CondensedAgrees
<1>5. g[L + 1] = CondensedTo(t, last, g, L + 1)
  BY <1>1, <1>3, CondensesAt
<1>6. CondensedTo(t, last, g, L + 1) =
        IF x.turn > last \/ (L > 0 /\ x = s[L] /\ x.kind = "reasoning") THEN g[L] ELSE Append(g[L], x)
  <2>1. L + 1 # 0 /\ (L + 1 > 1 <=> L > 0) /\ L + 1 - 1 = L /\ (L > 0 => t[L] = s[L])
    BY <1>1
  <2> QED BY <1>1, <2>1, SMTT(30) DEF CondensedTo
<1> QED BY <1>1, <1>2, <1>3, <1>4, <1>5, <1>6 DEF t, L
LEMMA CondensedType ==
  ASSUME NEW s \in Seq(Items), NEW last \in Int PROVE Condensed(s, last) \in Seq(Items)
<1>1. PICK f : Condenses(f, s, last, Len(s)) /\ Condensed(s, last) = f[Len(s)]
  BY CondensedDefined
<1>2. Len(s) \in Nat /\ \A i \in 1..Len(s) : s[i] \in Items
  BY LenProperties, ElementOfSeq
<1>3. \A n \in 0..Len(s) : f[n] = CondensedTo(s, last, f, n)
  BY <1>1, <1>2, CondensesAt
<1> DEFINE strange == {n \in 0..Len(s) : f[n] \notin Seq(Items)}
<1>4. strange = {}
  <2> SUFFICES ASSUME strange # {} PROVE FALSE
    OBVIOUS
  <2>1. PICK n \in strange : \A k \in strange : n <= k
    <3>1. strange \in SUBSET Nat
      BY <1>2
    <3> HIDE DEF strange
    <3> QED BY <3>1, LeastElement
  <2>2. n \in 0..Len(s) /\ f[n] \notin Seq(Items)
    OBVIOUS
  <2>3. CASE n = 0
    <3>1. f[n] = <<>>
      BY <1>3, <2>2, <2>3 DEF CondensedTo
    <3> QED BY <2>2, <3>1, EmptySeq
  <2>4. CASE n # 0
    <3>1. n - 1 \in 0..Len(s) /\ n \in 1..Len(s)
      BY <1>2, <2>2, <2>4
    <3>2. f[n - 1] \in Seq(Items)
      <4>1. n - 1 \notin strange
        <5> HIDE DEF strange
        <5> QED BY <1>2, <2>1, <2>2, <3>1
      <4> QED BY <3>1, <4>1
    <3>3. Append(f[n - 1], s[n]) \in Seq(Items)
      BY <1>2, <3>1, <3>2, AppendProperties
    <3>4. f[n] = f[n - 1] \/ f[n] = Append(f[n - 1], s[n])
      BY <1>3, <2>2, <2>4 DEF CondensedTo
    <3> QED BY <2>2, <3>2, <3>3, <3>4
  <2> QED BY <2>3, <2>4
<1>5. Len(s) \in 0..Len(s)
  BY <1>2
<1> QED BY <1>1, <1>4, <1>5

\* An item that is not reasoning, and not of a later turn, always adds itself.
LEMMA CondensedAppendOther ==
  ASSUME NEW s \in Seq(Items), NEW kind \in Kinds \ {"reasoning"},
         NEW turn \in 1..MaxTurns, NEW last \in Int, turn <= last
  PROVE  Condensed(Append(s, Item(kind, turn)), last) = Append(Condensed(s, last), Item(kind, turn))
<1>1. Item(kind, turn) \in Items /\ Item(kind, turn).kind # "reasoning" /\ ~(Item(kind, turn).turn > last)
  BY LoopAssumption DEF Item, Items
<1> QED BY <1>1, CondensedAppend

LEMMA ItemsAssociative ==
  \A a, b, c \in Seq(Items) : (a \o b) \o c = a \o (b \o c)
<1> SUFFICES ASSUME NEW a \in Seq(Items), NEW b \in Seq(Items), NEW c \in Seq(Items)
             PROVE  (a \o b) \o c = a \o (b \o c)
  OBVIOUS
<1> DEFINE ab == a \o b
           bc == b \o c
           l == ab \o c
           r == a \o bc
<1>1. Len(a) \in Nat /\ Len(b) \in Nat /\ Len(c) \in Nat
  BY LenProperties
<1>2. /\ ab \in Seq(Items) /\ Len(ab) = Len(a) + Len(b)
      /\ \A i \in 1..(Len(a) + Len(b)) : ab[i] = IF i <= Len(a) THEN a[i] ELSE b[i - Len(a)]
  BY ConcatProperties
<1>3. /\ bc \in Seq(Items) /\ Len(bc) = Len(b) + Len(c)
      /\ \A i \in 1..(Len(b) + Len(c)) : bc[i] = IF i <= Len(b) THEN b[i] ELSE c[i - Len(b)]
  BY ConcatProperties
<1> HIDE DEF ab, bc
<1>4. /\ l \in Seq(Items) /\ Len(l) = Len(ab) + Len(c)
      /\ \A i \in 1..(Len(ab) + Len(c)) : l[i] = IF i <= Len(ab) THEN ab[i] ELSE c[i - Len(ab)]
  <2>1. ab \in Seq(Items)
    BY <1>2
  <2> QED BY <2>1, ConcatProperties
<1>5. /\ r \in Seq(Items) /\ Len(r) = Len(a) + Len(bc)
      /\ \A i \in 1..(Len(a) + Len(bc)) : r[i] = IF i <= Len(a) THEN a[i] ELSE bc[i - Len(a)]
  <2>1. bc \in Seq(Items)
    BY <1>3
  <2> QED BY <2>1, ConcatProperties
<1> HIDE DEF l, r
<1>6. Len(l) = Len(r)
  BY <1>1, <1>2, <1>3, <1>4, <1>5
<1>7. ASSUME NEW i \in 1..Len(l) PROVE l[i] = r[i]
  <2>1. i \in 1..(Len(ab) + Len(c)) /\ i \in 1..(Len(a) + Len(bc))
    BY <1>4, <1>5, <1>6
  <2>2. CASE i <= Len(a)
    <3>1. i <= Len(ab) /\ i \in 1..(Len(a) + Len(b))
      BY <1>1, <1>2, <2>1, <2>2
    <3>2. l[i] = ab[i] /\ ab[i] = a[i] /\ r[i] = a[i]
      BY <1>2, <1>4, <1>5, <2>1, <2>2, <3>1
    <3> QED BY <3>2
  <2>3. CASE ~(i <= Len(a)) /\ i <= Len(ab)
    <3>1. i \in 1..(Len(a) + Len(b)) /\ i - Len(a) \in 1..(Len(b) + Len(c)) /\ i - Len(a) <= Len(b)
      BY <1>1, <1>2, <2>1, <2>3
    <3>2. l[i] = ab[i] /\ ab[i] = b[i - Len(a)] /\ r[i] = bc[i - Len(a)] /\ bc[i - Len(a)] = b[i - Len(a)]
      BY <1>2, <1>3, <1>4, <1>5, <2>1, <2>3, <3>1
    <3> QED BY <3>2
  <2>4. CASE ~(i <= Len(a)) /\ ~(i <= Len(ab))
    <3>1. /\ i - Len(a) \in 1..(Len(b) + Len(c)) /\ ~(i - Len(a) <= Len(b))
          /\ i - Len(ab) = (i - Len(a)) - Len(b)
      BY <1>1, <1>2, <1>3, <2>1, <2>4
    <3>2. l[i] = c[i - Len(ab)] /\ r[i] = bc[i - Len(a)] /\ bc[i - Len(a)] = c[(i - Len(a)) - Len(b)]
      BY <1>3, <1>4, <1>5, <2>1, <2>4, <3>1
    <3> QED BY <3>1, <3>2
  <2> QED BY <2>2, <2>3, <2>4
<1>8. l = r
  BY <1>4, <1>5, <1>6, <1>7, SeqEqual
<1> QED BY <1>8 DEF l, r, ab, bc

\* So do any number of calls that are handed over.
LEMMA CondensedCalls ==
  ASSUME NEW s \in Seq(Items), NEW turn \in 1..MaxTurns, NEW n \in Nat
  PROVE  Condensed(s \o [k \in 1..n |-> Item("call", turn)], turn)
           = Condensed(s, turn) \o [k \in 1..n |-> Item("call", turn)]
<1> DEFINE x == Item("call", turn)
           H(m) == [k \in 1..m |-> x]
           c == Condensed(s, turn)
           wrong == {m \in 0..n : Condensed(s \o H(m), turn) # c \o H(m)}
<1>1. turn \in Int /\ turn <= turn /\ "call" \in Kinds \ {"reasoning"} /\ x \in Items
  BY LoopAssumption DEF Kinds, Item, Items
<1>2. c \in Seq(Items)
  BY <1>1, CondensedType
<1>3. \A m \in 0..n : H(m) \in Seq(Items) /\ Len(H(m)) = m
  BY <1>1, SeqDef
<1>4. wrong = {}
  <2> SUFFICES ASSUME wrong # {} PROVE FALSE
    OBVIOUS
  <2>1. PICK m \in wrong : \A k \in wrong : m <= k
    <3>1. wrong \in SUBSET Nat
      OBVIOUS
    <3> HIDE DEF wrong
    <3> QED BY <3>1, LeastElement
  <2>2. m \in 0..n /\ Condensed(s \o H(m), turn) # c \o H(m)
    OBVIOUS
  <2>3. CASE m = 0
    <3>1. H(m) = <<>>
      BY <2>3
    <3> QED BY <1>2, <2>2, <3>1, ConcatEmptySeq
  <2>4. CASE m # 0
    <3> DEFINE h == H(m - 1)
    <3>1. m - 1 \in 0..n /\ m - 1 < m
      BY <2>2, <2>4
    <3>2. Condensed(s \o h, turn) = c \o h
      <4>1. m - 1 \notin wrong
        <5> HIDE DEF wrong
        <5> QED BY <2>1, <2>2, <3>1
      <4> QED BY <3>1, <4>1
    <3>3. h \in Seq(Items) /\ Len(h) = m - 1 /\ H(m) \in Seq(Items) /\ Len(H(m)) = m
      BY <1>3, <2>2, <3>1
    <3>4. H(m) = Append(h, x)
      <4>1. /\ Append(h, x) \in Seq(Items) /\ Len(Append(h, x)) = m
            /\ \A k \in 1..(m - 1) : Append(h, x)[k] = h[k]
            /\ Append(h, x)[m] = x
        <5> HIDE DEF x, H, h
        <5> QED BY <1>1, <2>2, <3>3, AppendProperties
      <4>2. \A k \in 1..m : H(m)[k] = Append(h, x)[k]
        <5>1. \A k \in 1..(m - 1) : h[k] = x
          OBVIOUS
        <5>2. \A k \in 1..m : H(m)[k] = x
          OBVIOUS
        <5>3. \A k \in 1..m : k \in 1..(m - 1) \/ k = m
          BY <2>2
        <5> HIDE DEF x, H, h
        <5> QED BY <4>1, <5>1, <5>2, <5>3
      <4> HIDE DEF x, H, h
      <4> QED BY <3>3, <4>1, <4>2, SeqEqual
    <3> HIDE DEF x, H, h, c
    <3>5. ASSUME NEW q \in Seq(Items) PROVE q \o Append(h, x) = Append(q \o h, x) /\ q \o h \in Seq(Items)
      <4>1. <<x>> \in Seq(Items) /\ q \o h \in Seq(Items)
        BY <1>1, <3>3, ConcatProperties
      <4>2. Append(h, x) = h \o <<x>> /\ Append(q \o h, x) = (q \o h) \o <<x>>
        BY <1>1, <3>3, <4>1, AppendIsConcat
      <4>3. (q \o h) \o <<x>> = q \o (h \o <<x>>)
        BY <3>3, <4>1, ItemsAssociative
      <4> QED BY <4>1, <4>2, <4>3
    <3>6. Condensed(Append(s \o h, x), turn) = Append(Condensed(s \o h, turn), x)
      BY <1>1, <3>5, CondensedAppendOther DEF x
    <3> QED BY <1>2, <2>2, <3>2, <3>4, <3>5, <3>6
  <2> QED BY <2>3, <2>4
<1>5. n \in 0..n
  OBVIOUS
<1> QED BY <1>4, <1>5

-----------------------------------------------------------------------------
(* The inductive invariant.                                                *)

\* How far the loop is, and what chat_payload is like there.
LoopOK ==
  /\ pc = "post" => turns < MaxTurns
  /\ pc # "post" => turns > 0
  /\ pc # "over" => status = "in_progress"
  /\ pc \in {"post", "await", "read"} => chat.unanswered = 0
  /\ pc \in {"search", "searching"} => chat.unanswered = left
  /\ pc = "searching" => left > 0
  /\ pc = "await" => calls = <<>>

\* Which kinds of item may be open at which point.
OpenOK ==
  /\ pc \in {"post", "await", "search"} => \A kind \in ItemKinds : open[kind] = None
  /\ pc = "searching" => /\ open["reasoning"] = None /\ open["message"] = None
                         /\ open["search"] # None
  /\ pc = "read" => open["search"] = None

\* No item is of a turn to come, and none of this turn before the model is heard.
NoneLater(s, turn) == \A i \in 1..Len(s) : s[i].turn <= turn
TurnsOK ==
  /\ NoneLater(output, turns)
  /\ pc = "await" => NoneLater(output, turns - 1)

\* What the answer that arrives has put into the output: reasoning, which goes on, or nothing.
Arriving(s) ==
  \/ /\ Condensed(s, turns) = Condensed(s, turns - 1)
     /\ s # <<>> => s[Len(s)].turn <= turns - 1
  \/ /\ Condensed(s, turns) = Append(Condensed(s, turns - 1), Item("reasoning", turns))
     /\ s # <<>> /\ s[Len(s)] = Item("reasoning", turns)
ArrivingOK == pc = "read" => Arriving(output)

Inv == TypeOK /\ LoopOK /\ OpenOK /\ ItemsInPlace /\ SearchingSubsides /\ TurnsOK
-----------------------------------------------------------------------------
(* The feed.                                                               *)

Feeds == [output : Seq(Items), index : Nat, open : [ItemKinds -> Nat \cup {None}]]

LEMMA OpenedIs ==
  ASSUME NEW f \in Feeds, NEW kind \in ItemKinds
  PROVE  /\ Opened(f, kind) \in Feeds
         /\ Opened(f, kind).output = f.output
         /\ Opened(f, kind).index = f.index
         /\ Opened(f, kind).open[kind] = IF f.open[kind] # None THEN f.open[kind] ELSE f.index
         /\ \A k \in ItemKinds \ {kind} : Opened(f, kind).open[k] = f.open[k]
<1>1. CASE f.open[kind] # None
  BY <1>1 DEF Opened
<1>2. CASE f.open[kind] = None
  <2>1. Opened(f, kind) = [output |-> f.output, index |-> f.index, open |-> [f.open EXCEPT ![kind] = f.index]]
    BY <1>2 DEF Opened, Feeds
  <2> QED BY <1>2, <2>1 DEF Feeds
<1> QED BY <1>1, <1>2

LEMMA ClosedIs ==
  ASSUME turns \in 1..MaxTurns, NEW f \in Feeds, NEW kind \in ItemKinds
  PROVE  /\ Closed(f, kind) \in Feeds
         /\ Closed(f, kind).output = IF f.open[kind] = None THEN f.output
                                     ELSE Append(f.output, Item(kind, turns))
         /\ Closed(f, kind).index = IF f.open[kind] = None THEN f.index ELSE f.index + 1
         /\ Closed(f, kind).open[kind] = None
         /\ \A k \in ItemKinds \ {kind} : Closed(f, kind).open[k] = f.open[k]
<1>1. CASE f.open[kind] = None
  BY <1>1 DEF Closed
<1>2. CASE f.open[kind] # None
  <2>1. Item(kind, turns) \in Items
    BY DEF Item, Items, ItemKinds, Kinds
  <2>2. Append(f.output, Item(kind, turns)) \in Seq(Items)
    BY <2>1, AppendProperties DEF Feeds
  <2> QED BY <1>2, <2>2 DEF Closed, Feeds
<1> QED BY <1>1, <1>2

LEMMA FeedIs ==
  ASSUME TypeOK
  PROVE  Feed \in Feeds /\ Feed.output = output /\ Feed.index = index /\ Feed.open = open
BY DEF TypeOK, Feed, Feeds, Items
\* output_index counts the items.
Placed(f) == f.index = Len(f.output)

\* One item is open at most, and stands at output_index.
Single(f) ==
  /\ \A kind \in ItemKinds : f.open[kind] \in {f.index, None}
  /\ \A k1, k2 \in ItemKinds : f.open[k1] # None /\ f.open[k2] # None => k1 = k2

LEMMA OpenedInPlace ==
  ASSUME NEW f \in Feeds, NEW kind \in ItemKinds, Placed(f)
  PROVE  /\ Placed(Opened(f, kind))
         /\ Single(f) /\ (\A k \in ItemKinds \ {kind} : f.open[k] = None) => Single(Opened(f, kind))
<1> DEFINE g == Opened(f, kind)
<1>1. /\ g.output = f.output /\ g.index = f.index
      /\ g.open[kind] = IF f.open[kind] # None THEN f.open[kind] ELSE f.index
      /\ \A k \in ItemKinds \ {kind} : g.open[k] = f.open[k]
  BY OpenedIs
<1> HIDE DEF g
<1>2. Placed(g)
  BY <1>1 DEF Placed
<1>3. ASSUME Single(f), \A k \in ItemKinds \ {kind} : f.open[k] = None
      PROVE  Single(g)
  BY <1>1, <1>3 DEF Single
<1> QED BY <1>2, <1>3 DEF g

LEMMA ClosedInOrder ==
  ASSUME turns \in 1..MaxTurns, NEW f \in Feeds, NEW kind \in ItemKinds, Placed(f)
  PROVE  /\ Placed(Closed(f, kind))
         /\ Single(f) => Single(Closed(f, kind))
<1> DEFINE g == Closed(f, kind)
<1>1. /\ g.output = IF f.open[kind] = None THEN f.output ELSE Append(f.output, Item(kind, turns))
      /\ g.index = IF f.open[kind] = None THEN f.index ELSE f.index + 1
      /\ g.open[kind] = None
      /\ \A k \in ItemKinds \ {kind} : g.open[k] = f.open[k]
  BY ClosedIs
<1> HIDE DEF g
<1>2. f.output \in Seq(Items) /\ Item(kind, turns) \in Items
  BY DEF Feeds, Item, Items, ItemKinds, Kinds
<1>3. Len(Append(f.output, Item(kind, turns))) = Len(f.output) + 1
  BY <1>2, AppendProperties
<1>4. Placed(g)
  BY <1>1, <1>3 DEF Placed
<1>5. ASSUME Single(f) PROVE Single(g)
  BY <1>1, <1>5 DEF Single
<1> QED BY <1>4, <1>5 DEF g

\* Calls are the sequences of no more than MaxCalls.
LEMMA CallsAre ==
  \A c : c \in Calls <=> c \in Seq(CallKinds) /\ Len(c) <= MaxCalls
<1>1. ASSUME NEW c \in Calls PROVE c \in Seq(CallKinds) /\ Len(c) <= MaxCalls
  <2>1. PICK n \in 0..MaxCalls : c \in [1..n -> CallKinds]
    BY DEF Calls
  <2> QED BY <2>1, LoopAssumption, SeqDef
<1>2. ASSUME NEW c \in Seq(CallKinds), Len(c) <= MaxCalls PROVE c \in Calls
  <2>1. Len(c) \in 0..MaxCalls /\ c \in [1..Len(c) -> CallKinds]
    BY <1>2, LenProperties, LoopAssumption
  <2> QED BY <2>1 DEF Calls
<1> QED BY <1>1, <1>2

\* function_call items: as many as there are calls of the client.
LEMMA HandedOverIs ==
  ASSUME NEW c \in Calls, NEW cf, NEW turn \in 1..MaxTurns
  PROVE  \E n \in Nat : /\ HandedOver(cf, c, turn) = [k \in 1..n |-> Item("call", turn)]
                       /\ HandedOver(cf, c, turn) \in Seq(Items)
                       /\ Len(HandedOver(cf, c, turn)) = n
<1> DEFINE mine == ClientCalls(cf, c)
           n == Cardinality(mine)
<1>1. PICK m \in 0..MaxCalls : c \in [1..m -> CallKinds]
  BY DEF Calls
<1>2. mine \subseteq 1..m
  BY <1>1 DEF ClientCalls
<1>3. n \in Nat
  <2>1. IsFiniteSet(1..m)
    BY LoopAssumption, FS_Interval
  <2> QED BY <1>2, <2>1, FS_Subset, FS_CardinalityType
<1>4. HandedOver(cf, c, turn) = [k \in 1..n |-> Item("call", turn)]
  BY DEF HandedOver
<1> HIDE DEF n
<1>5. Item("call", turn) \in Items
  BY DEF Item, Items, Kinds
<1>6. [k \in 1..n |-> Item("call", turn)] \in Seq(Items) /\ Len([k \in 1..n |-> Item("call", turn)]) = n
  BY <1>3, <1>5, SeqDef
<1> QED BY <1>3, <1>4, <1>6
LEMMA NoCalls == <<>> \in Calls
<1>1. <<>> \in [1..0 -> CallKinds]
  OBVIOUS
<1> QED BY <1>1, LoopAssumption DEF Calls

LEMMA ItemTurns ==
  ASSUME NEW s \in Seq(Items)
  PROVE  Len(s) \in Nat /\ \A i \in 1..Len(s) : s[i].turn \in Int
<1>1. \A i \in 1..Len(s) : s[i] \in Items
  BY ElementOfSeq
<1>2. \A x \in Items : x.turn \in Int
  BY LoopAssumption DEF Items
<1> QED BY <1>1, <1>2, LenProperties

\* An item of this turn is appended, and none of a later one.
LEMMA AppendOfTurn ==
  ASSUME NEW s \in Seq(Items), NEW t \in 1..MaxTurns, NEW kind \in Kinds, NoneLater(s, t)
  PROVE  NoneLater(Append(s, Item(kind, t)), t)
<1> DEFINE x == Item(kind, t)
           u == Append(s, x)
<1>1. x \in Items /\ x.turn <= t
  BY LoopAssumption DEF Item, Items
<1> HIDE DEF x
<1>2. /\ Len(u) = Len(s) + 1 /\ Len(s) \in Nat
      /\ \A i \in 1..Len(s) : u[i] = s[i]
      /\ u[Len(s) + 1] = x
  BY <1>1, AppendProperties, LenProperties
<1> HIDE DEF u
<1>3. \A i \in 1..Len(u) : i \in 1..Len(s) \/ i = Len(s) + 1
  BY <1>2
<1>4. \A i \in 1..Len(u) : u[i].turn <= t
  BY <1>1, <1>2, <1>3 DEF NoneLater
<1> QED BY <1>4 DEF u, x, NoneLater

\* What every step finds of the feed and leaves.
Fine(f) == f \in Feeds /\ Placed(f) /\ NoneLater(f.output, turns)

LEMMA OpenedFine ==
  ASSUME NEW f, Fine(f), NEW kind \in ItemKinds PROVE Fine(Opened(f, kind))
BY OpenedIs, OpenedInPlace DEF Fine

LEMMA ClosedFine ==
  ASSUME turns \in 1..MaxTurns, NEW f, Fine(f), NEW kind \in ItemKinds PROVE Fine(Closed(f, kind))
<1>1. kind \in Kinds /\ f \in Feeds /\ f.output \in Seq(Items) /\ Placed(f) /\ NoneLater(f.output, turns)
  BY DEF ItemKinds, Kinds, Fine, Feeds
<1>2. NoneLater(Append(f.output, Item(kind, turns)), turns)
  BY <1>1, AppendOfTurn
<1> QED BY <1>1, <1>2, ClosedIs, ClosedInOrder DEF Fine

-----------------------------------------------------------------------------
(* chat_payload.                                                           *)

LEMMA RequestedIs ==
  ASSUME NEW c \in Chats, NEW tools \in Calls
  PROVE  /\ Requested(c, tools) \in Chats
         /\ Requested(c, tools).unanswered = Len(tools)
<1>1. Len(tools) \in 0..MaxCalls
  BY CallsAre, LenProperties, LoopAssumption
<1> QED BY <1>1 DEF Requested, Chats

LEMMA AnsweredIs ==
  ASSUME NEW c \in Chats, c.unanswered > 0
  PROVE  /\ Answered(c) \in Chats
         /\ Answered(c).unanswered = c.unanswered - 1
<1>1. c.unanswered - 1 \in 0..MaxCalls
  BY LoopAssumption DEF Chats
<1> QED BY <1>1 DEF Answered, Chats

LEMMA PreparedIs ==
  ASSUME NEW c \in Chats, NEW cf, NEW done
  PROVE  /\ Prepared(cf, done, c) \in Chats
         /\ Prepared(cf, done, c).unanswered = c.unanswered
         /\ ~Prepared(cf, done, c).forced
         /\ ~(Spent(cf, done) /\ Prepared(cf, done, c).tools)
BY DEF Prepared, Chats

-----------------------------------------------------------------------------
(* What each step keeps.                                                   *)

LEMMA InitInv == ASSUME Init PROVE Inv
<1>1. chat \in Chats /\ chat.unanswered = 0
  BY DEF Init, Openings
<1>2. <<>> \in Seq(Items) /\ Len(<<>>) = 0
  OBVIOUS
<1>3. open \in [ItemKinds -> Nat \cup {None}] /\ turns \in 0..MaxTurns /\ left \in 0..MaxCalls
  BY LoopAssumption DEF Init
<1>4. TypeOK
  BY <1>1, <1>2, <1>3, NoCalls DEF Init, TypeOK, Items
<1>5. LoopOK /\ OpenOK /\ TurnsOK
  BY <1>1, <1>2, LoopAssumption DEF Init, LoopOK, OpenOK, TurnsOK, NoneLater, ItemKinds
<1>6. ItemsInPlace
  <2>1. index = Len(output) /\ \A kind \in ItemKinds : open[kind] = None
    BY <1>2 DEF Init
  <2> QED BY <2>1 DEF ItemsInPlace
<1>7. SearchingSubsides
  <2>1. turns = 0 /\ searches = 0 /\ conf.budget \in Nat
    BY LoopAssumption DEF Init, Settings
  <2> QED BY <2>1 DEF SearchingSubsides
<1> QED BY <1>4, <1>5, <1>6, <1>7 DEF Inv

LEMMA PostKeeps == ASSUME Inv, Post PROVE Inv'
<1> USE DEF Inv, Post
<1>1. TypeOK'
  <2>1. turns' \in 0..MaxTurns
    BY LoopAssumption DEF TypeOK, LoopOK
  <2> QED BY <2>1, NoCalls DEF TypeOK
<1>2. LoopOK' /\ OpenOK'
  BY LoopAssumption DEF TypeOK, LoopOK, OpenOK, ItemKinds
<1>3. ItemsInPlace'
  BY DEF TypeOK, OpenOK, ItemsInPlace, ItemKinds
<1>4. SearchingSubsides'
  BY DEF TypeOK, SearchingSubsides
<1>5. TurnsOK'
  <2>1. \A i \in 1..Len(output) : output[i].turn \in Int
    BY ItemTurns DEF TypeOK, Items
  <2> QED BY <2>1, LoopAssumption DEF TypeOK, TurnsOK, NoneLater
<1> QED BY <1>1, <1>2, <1>3, <1>4, <1>5

LEMMA AcceptKeeps == ASSUME Inv, Accept PROVE Inv'
<1> USE DEF Inv, Accept, feedVars
<1>1. TypeOK' /\ LoopOK' /\ OpenOK'
  BY DEF TypeOK, LoopOK, OpenOK, ItemKinds
<1>2. ItemsInPlace' /\ SearchingSubsides' /\ TurnsOK'
  BY DEF ItemsInPlace, SearchingSubsides, TurnsOK
<1> QED BY <1>1, <1>2

LEMMA FailKeeps == ASSUME Inv, Fail PROVE Inv'
<1> USE DEF Inv, Fail, feedVars, Ends
<1>1. TypeOK' /\ LoopOK' /\ OpenOK'
  BY DEF TypeOK, LoopOK, OpenOK, ItemKinds
<1>2. ItemsInPlace' /\ SearchingSubsides' /\ TurnsOK'
  BY DEF ItemsInPlace, SearchingSubsides, TurnsOK
<1> QED BY <1>1, <1>2

LEMMA DeclineKeeps == ASSUME Inv, Decline PROVE Inv'
<1> USE DEF Inv, Decline, feedVars
<1>1. /\ chat' \in Chats /\ chat'.unanswered = chat.unanswered - 1
      /\ left' \in 0..MaxCalls /\ left' = chat'.unanswered
  <2>1. chat \in Chats /\ chat.unanswered = left /\ left \in 0..MaxCalls /\ left > 0
    BY DEF TypeOK, LoopOK
  <2> QED BY <2>1, AnsweredIs, LoopAssumption
<1>2. TypeOK' /\ LoopOK' /\ OpenOK'
  BY <1>1 DEF TypeOK, LoopOK, OpenOK, ItemKinds
<1>3. ItemsInPlace' /\ SearchingSubsides' /\ TurnsOK'
  BY DEF ItemsInPlace, SearchingSubsides, TurnsOK
<1> QED BY <1>2, <1>3

LEMMA NextTurnKeeps == ASSUME Inv, NextTurn PROVE Inv'
<1> USE DEF Inv, NextTurn, feedVars, Ends
<1>1. /\ chat' \in Chats /\ chat'.unanswered = 0
      /\ ~chat'.forced /\ ~(Spent(conf, searches) /\ chat'.tools)
  BY PreparedIs DEF TypeOK, LoopOK
<1>2. TypeOK' /\ LoopOK' /\ OpenOK'
  BY <1>1 DEF TypeOK, LoopOK, OpenOK, ItemKinds
<1>3. ItemsInPlace' /\ TurnsOK'
  BY DEF ItemsInPlace, TurnsOK
<1>4. SearchingSubsides'
  BY <1>1 DEF SearchingSubsides, Spent
<1> QED BY <1>2, <1>3, <1>4

LEMMA ExtendedFine ==
  ASSUME turns \in 1..MaxTurns, NEW f, Fine(f), NEW items \in Seq(Items), NoneLater(items, turns)
  PROVE  /\ Fine(Extended(f, items))
         /\ Extended(f, items).output = f.output \o items
         /\ Extended(f, items).open = f.open
<1> DEFINE s == f.output
           u == s \o items
<1>1. s \in Seq(Items) /\ f \in Feeds /\ f.index = Len(s) /\ NoneLater(s, turns)
  BY DEF Fine, Feeds, Placed
<1>2. /\ u \in Seq(Items) /\ Len(u) = Len(s) + Len(items)
      /\ \A i \in 1..(Len(s) + Len(items)) : u[i] = IF i <= Len(s) THEN s[i] ELSE items[i - Len(s)]
      /\ Len(s) \in Nat /\ Len(items) \in Nat
  BY <1>1, ConcatProperties, LenProperties
<1>3. Extended(f, items) = [output |-> u, index |-> f.index + Len(items), open |-> f.open]
  BY DEF Extended
<1> HIDE DEF u, s
<1>4. NoneLater(u, turns)
  <2> SUFFICES ASSUME NEW i \in 1..(Len(s) + Len(items)) PROVE u[i].turn <= turns
    BY <1>2 DEF NoneLater
  <2>1. CASE i <= Len(s)
    BY <1>1, <1>2, <2>1 DEF NoneLater
  <2>2. CASE i > Len(s)
    <3>1. i - Len(s) \in 1..Len(items) /\ ~(i <= Len(s))
      BY <1>2, <2>2
    <3>2. u[i] = items[i - Len(s)]
      BY <1>2, <3>1
    <3>3. items[i - Len(s)].turn <= turns
      BY <3>1 DEF NoneLater
    <3> QED BY <3>2, <3>3
  <2> QED BY <1>2, <2>1, <2>2
<1> QED BY <1>1, <1>2, <1>3, <1>4 DEF Fine, Feeds, Placed, u, s

LEMMA OneItemFine ==
  ASSUME turns \in 1..MaxTurns, NEW kind \in Kinds
  PROVE  <<Item(kind, turns)>> \in Seq(Items) /\ NoneLater(<<Item(kind, turns)>>, turns)
BY LoopAssumption DEF Items, Item, NoneLater

LEMMA HandedOverFine ==
  ASSUME turns \in 1..MaxTurns, NEW c \in Calls, NEW cf
  PROVE  HandedOver(cf, c, turns) \in Seq(Items) /\ NoneLater(HandedOver(cf, c, turns), turns)
<1>1. PICK n \in Nat : /\ HandedOver(cf, c, turns) = [k \in 1..n |-> Item("call", turns)]
                       /\ HandedOver(cf, c, turns) \in Seq(Items)
                       /\ Len(HandedOver(cf, c, turns)) = n
  BY HandedOverIs
<1>2. Item("call", turns).turn <= turns
  BY LoopAssumption DEF Item
<1> QED BY <1>1, <1>2 DEF NoneLater

\* What is known of the feed in between, and what is to be known of the next.
LEMMA FeedFine ==
  ASSUME Inv
  PROVE  Feed.open = open /\ Fine(Feed) /\ (~mixed => Single(Feed))
BY FeedIs DEF Inv, ItemsInPlace, TurnsOK, Fine, Placed, Single

LEMMA FeedKept ==
  ASSUME Inv, NEW f, f \in Feeds, Become(f), Placed(f), ~mixed' => Single(f), mixed' \in BOOLEAN
  PROVE  /\ output' \in Seq(Items) /\ index' \in Nat /\ open' \in [ItemKinds -> Nat \cup {None}]
         /\ output' = f.output /\ open' = f.open
         /\ ItemsInPlace'
BY DEF Become, Feeds, Placed, Single, ItemsInPlace

LEMMA RunSearchKeeps == ASSUME Inv, RunSearch PROVE Inv'
<1> USE DEF Inv, RunSearch
<1>1. /\ Feed.open = open /\ Fine(Feed) /\ Single(Feed) /\ "search" \in ItemKinds
      /\ \A k \in ItemKinds \ {"search"} : Feed.open[k] = None
  BY FeedFine DEF OpenOK, Single, ItemKinds
<1> DEFINE g == Opened(Feed, "search")
<1>2. /\ Fine(g) /\ Single(g) /\ \A k \in ItemKinds \ {"search"} : g.open[k] = None
      /\ g.open["search"] # None
  BY <1>1, OpenedIs, OpenedInPlace, OpenedFine, NoneAssumption DEF Fine, Feeds
<1> HIDE DEF g
<1>3. /\ output' \in Seq(Items) /\ index' \in Nat /\ open' \in [ItemKinds -> Nat \cup {None}]
      /\ output' = g.output /\ open' = g.open /\ ItemsInPlace'
  BY <1>2, FeedKept DEF Fine, TypeOK, g
<1>4. TypeOK'
  BY <1>3 DEF TypeOK, Items
<1>5. LoopOK' /\ OpenOK' /\ TurnsOK'
  BY <1>2, <1>3 DEF LoopOK, OpenOK, TurnsOK, Fine, ItemKinds
<1>6. SearchingSubsides'
  <2>1. conf.budget \in Nat
    BY LoopAssumption DEF TypeOK, Settings
  <2> QED BY <2>1 DEF TypeOK, SearchingSubsides, Spent
<1> QED BY <1>3, <1>4, <1>5, <1>6

LEMMA TakeResultKeeps == ASSUME Inv, TakeResult PROVE Inv'
<1> USE DEF Inv, TakeResult
<1>1. /\ Feed.open = open /\ Fine(Feed) /\ (~mixed => Single(Feed)) /\ "search" \in ItemKinds
      /\ \A k \in ItemKinds \ {"search"} : Feed.open[k] = None
      /\ turns \in 1..MaxTurns
  BY FeedFine DEF TypeOK, LoopOK, OpenOK, ItemKinds
<1> DEFINE g == Closed(Feed, "search")
<1>2. Fine(g) /\ (~mixed => Single(g)) /\ \A k \in ItemKinds : g.open[k] = None
  BY <1>1, ClosedIs, ClosedInOrder, ClosedFine DEF Fine
<1> HIDE DEF g
<1>3. /\ output' \in Seq(Items) /\ index' \in Nat /\ open' \in [ItemKinds -> Nat \cup {None}]
      /\ output' = g.output /\ open' = g.open /\ ItemsInPlace'
  BY <1>2, FeedKept DEF Fine, TypeOK, g
<1>4. /\ chat' \in Chats /\ chat'.unanswered = chat.unanswered - 1
      /\ left' \in 0..MaxCalls /\ left' = chat'.unanswered
  <2>1. chat \in Chats /\ chat.unanswered = left /\ left \in 0..MaxCalls /\ left > 0
    BY DEF TypeOK, LoopOK
  <2> QED BY <2>1, AnsweredIs, LoopAssumption
<1>5. TypeOK'
  BY <1>3, <1>4 DEF TypeOK, Items
<1>6. LoopOK' /\ OpenOK' /\ TurnsOK'
  BY <1>2, <1>3, <1>4 DEF LoopOK, OpenOK, TurnsOK, Fine, ItemKinds
<1>7. SearchingSubsides'
  BY DEF SearchingSubsides
<1> QED BY <1>3, <1>5, <1>6, <1>7
\* A chunk opens and closes items of this turn; nothing is open but them.
LEMMA SpokenFine ==
  ASSUME Inv, pc = "read", NEW think \in BOOLEAN, NEW text \in BOOLEAN
  PROVE  /\ Fine(Spoken(Feed, think, text))
         /\ Spoken(Feed, think, text).open["search"] = None
         /\ ~(mixed \/ (think /\ open["message"] # None)) => Single(Spoken(Feed, think, text))
<1> DEFINE a == IF think THEN Opened(Feed, "reasoning") ELSE Feed
           b == Closed(a, "reasoning")
           c == Opened(b, "message")
<1>1. /\ Feed.open = open /\ Fine(Feed) /\ (~mixed => Single(Feed))
      /\ Feed.open["search"] = None /\ turns \in 1..MaxTurns
      /\ ItemKinds = {"reasoning", "message", "search"}
  BY FeedFine DEF Inv, TypeOK, LoopOK, OpenOK, ItemKinds
<1>2. /\ Fine(a) /\ a.open["search"] = None
      /\ ~(mixed \/ (think /\ open["message"] # None)) => Single(a)
  <2>1. CASE ~think
    BY <1>1, <2>1
  <2>2. CASE think
    <3>1. Fine(a) /\ a.open["search"] = None
      BY <1>1, <2>2, OpenedFine, OpenedIs DEF Fine
    <3>2. ASSUME ~mixed, open["message"] = None PROVE Single(a)
      <4>1. Feed \in Feeds /\ Placed(Feed) /\ Single(Feed)
            /\ \A k \in ItemKinds \ {"reasoning"} : Feed.open[k] = None
        BY <1>1, <3>2 DEF Fine
      <4> QED BY <1>1, <2>2, <4>1, OpenedInPlace
    <3> QED BY <2>2, <3>1, <3>2
  <2> QED BY <2>1, <2>2
<1> HIDE DEF a
<1>3. /\ Fine(b) /\ b.open["search"] = None /\ b.open["reasoning"] = None
      /\ Single(a) => Single(b)
  BY <1>1, <1>2, ClosedFine, ClosedIs, ClosedInOrder, SMTT(30) DEF Fine
<1> HIDE DEF b
<1>4. /\ Fine(c) /\ c.open["search"] = None
      /\ Single(b) => Single(c)
  <2>1. b \in Feeds /\ Placed(b) /\ \A k \in ItemKinds \ {"message"} : b.open[k] = None
    BY <1>1, <1>3 DEF Fine
  <2> QED BY <1>1, <1>3, <2>1, OpenedFine, OpenedIs, OpenedInPlace
<1> HIDE DEF c
<1>5. Spoken(Feed, think, text) = IF text THEN c ELSE a
  BY DEF Spoken, a, b, c
<1> QED BY <1>2, <1>3, <1>4, <1>5

LEMMA ChunkKeeps ==
  ASSUME Inv, NEW think \in BOOLEAN, NEW text \in BOOLEAN,
         NEW begun \in {<<>>} \cup {<<c>> : c \in CallKinds}, Chunk(think, text, begun)
  PROVE  Inv'
<1> USE DEF Inv, Chunk, loopVars
<1> DEFINE g == Spoken(Feed, think, text)
<1>1. Fine(g) /\ g.open["search"] = None /\ (~mixed' => Single(g)) /\ mixed' \in BOOLEAN
  BY SpokenFine DEF TypeOK
<1> HIDE DEF g
<1>2. /\ output' \in Seq(Items) /\ index' \in Nat /\ open' \in [ItemKinds -> Nat \cup {None}]
      /\ output' = g.output /\ open' = g.open /\ ItemsInPlace'
  BY <1>1, FeedKept DEF Fine, g
<1>3. calls' \in Calls
  <2>1. calls \in Seq(CallKinds) /\ begun \in Seq(CallKinds) /\ Len(calls) + Len(begun) <= MaxCalls
    <3>1. calls \in Seq(CallKinds) /\ Len(calls) + Len(begun) <= MaxCalls
      BY CallsAre DEF TypeOK
    <3>2. begun \in Seq(CallKinds)
      <4>1. CASE begun = <<>>
        BY <4>1, EmptySeq
      <4>2. ASSUME NEW c \in CallKinds, begun = <<c>> PROVE begun \in Seq(CallKinds)
        BY <4>2
      <4>3. begun = <<>> \/ \E c \in CallKinds : begun = <<c>>
        OBVIOUS
      <4> QED BY <4>1, <4>2, <4>3
    <3> QED BY <3>1, <3>2
  <2>2. calls' \in Seq(CallKinds) /\ Len(calls') = Len(calls) + Len(begun)
    BY <2>1, ConcatProperties
  <2> QED BY <2>1, <2>2, CallsAre
<1>4. TypeOK'
  BY <1>1, <1>2, <1>3 DEF TypeOK, Items
<1>5. LoopOK' /\ OpenOK' /\ TurnsOK'
  BY <1>1, <1>2 DEF LoopOK, OpenOK, TurnsOK, Fine
<1>6. SearchingSubsides'
  BY DEF SearchingSubsides
<1> QED BY <1>2, <1>4, <1>5, <1>6

LEMMA SettledFine ==
  ASSUME Inv, pc = "read"
  PROVE  Fine(Settled) /\ (~mixed => Single(Settled)) /\ \A k \in ItemKinds : Settled.open[k] = None
<1> DEFINE a == Closed(Feed, "reasoning")
<1>1. /\ Fine(Feed) /\ (~mixed => Single(Feed))
      /\ Feed.open["search"] = None /\ turns \in 1..MaxTurns
      /\ ItemKinds = {"reasoning", "message", "search"}
  BY FeedFine DEF Inv, TypeOK, LoopOK, OpenOK, ItemKinds
<1>2. Fine(a) /\ (~mixed => Single(a))
  BY <1>1, ClosedFine, ClosedInOrder DEF Fine
<1>3. a.open["search"] = None /\ a.open["reasoning"] = None
  BY <1>1, ClosedIs DEF Fine
<1>4. Settled = Closed(a, "message")
  BY DEF Settled
<1> HIDE DEF a
<1> DEFINE b == Closed(a, "message")
<1>5. Fine(b) /\ (~mixed => Single(b))
  BY <1>1, <1>2, ClosedFine, ClosedInOrder DEF Fine
<1>6. b.open["message"] = None /\ b.open["search"] = None /\ b.open["reasoning"] = None
  BY <1>1, <1>2, <1>3, ClosedIs DEF Fine
<1> HIDE DEF b
<1>7. \A k \in ItemKinds : b.open[k] = None
  BY <1>1, <1>6
<1> QED BY <1>4, <1>5, <1>7 DEF b

LEMMA SearchKeeps == ASSUME Inv, Search PROVE Inv'
<1> USE DEF Inv, Search
<1>1. Fine(Settled) /\ (~mixed => Single(Settled)) /\ \A k \in ItemKinds : Settled.open[k] = None
  BY SettledFine
<1>2. /\ output' \in Seq(Items) /\ index' \in Nat /\ open' \in [ItemKinds -> Nat \cup {None}]
      /\ output' = Settled.output /\ open' = Settled.open /\ ItemsInPlace'
  BY <1>1, FeedKept DEF Fine, TypeOK
<1>3. /\ chat' \in Chats /\ chat'.unanswered = Len(calls)
      /\ left' \in 0..MaxCalls /\ left' = chat'.unanswered
  <2>1. chat \in Chats /\ calls \in Calls
    BY DEF TypeOK
  <2>2. Len(calls) \in 0..MaxCalls
    BY <2>1, CallsAre, LenProperties, LoopAssumption
  <2> QED BY <2>1, <2>2, RequestedIs
<1>4. TypeOK'
  BY <1>2, <1>3 DEF TypeOK, Items
<1>5. LoopOK' /\ OpenOK' /\ TurnsOK'
  BY <1>1, <1>2, <1>3 DEF LoopOK, OpenOK, TurnsOK, Fine
<1>6. SearchingSubsides'
  BY DEF SearchingSubsides
<1> QED BY <1>2, <1>4, <1>5, <1>6

LEMMA ConcludeKeeps == ASSUME Inv, NEW cut \in BOOLEAN, Conclude(cut) PROVE Inv'
<1> USE DEF Inv, Conclude, Ends
<1> DEFINE given == HandedOver(conf, calls, turns)
           g == Extended(Settled, given)
<1>1. /\ Fine(Settled) /\ (~mixed => Single(Settled)) /\ \A k \in ItemKinds : Settled.open[k] = None
      /\ turns \in 1..MaxTurns
  BY SettledFine DEF TypeOK, LoopOK
<1>2. given \in Seq(Items) /\ NoneLater(given, turns)
  BY <1>1, HandedOverFine DEF TypeOK
<1>3. Fine(g) /\ g.open = Settled.open
  BY <1>1, <1>2, ExtendedFine
<1> HIDE DEF g
<1>4. ~mixed => Single(g)
  BY <1>1, <1>3 DEF Single
<1>5. /\ output' \in Seq(Items) /\ index' \in Nat /\ open' \in [ItemKinds -> Nat \cup {None}]
      /\ output' = g.output /\ open' = g.open /\ ItemsInPlace'
  BY <1>3, <1>4, FeedKept DEF Fine, TypeOK, g
<1>6. TypeOK'
  BY <1>5 DEF TypeOK, Items
<1>7. LoopOK' /\ OpenOK' /\ TurnsOK'
  BY <1>3, <1>5 DEF LoopOK, OpenOK, TurnsOK, Fine
<1>8. SearchingSubsides'
  BY DEF SearchingSubsides
<1> QED BY <1>5, <1>6, <1>7, <1>8

LEMMA ReportKeeps == ASSUME Inv, Report PROVE Inv'
<1> USE DEF Inv, Report, Ends
<1> DEFINE g == Extended(Feed, <<Item("message", turns)>>)
<1>1. /\ Feed.open = open /\ Fine(Feed) /\ \A k \in ItemKinds : open[k] = None
      /\ turns \in 1..MaxTurns /\ "message" \in Kinds
  BY FeedFine DEF TypeOK, LoopOK, OpenOK, Kinds
<1>2. Fine(g) /\ g.open = open
  BY <1>1, OneItemFine, ExtendedFine
<1> HIDE DEF g
<1>3. Single(g)
  BY <1>1, <1>2 DEF Single
<1>4. /\ output' \in Seq(Items) /\ index' \in Nat /\ open' \in [ItemKinds -> Nat \cup {None}]
      /\ output' = g.output /\ open' = g.open /\ ItemsInPlace'
  BY <1>2, <1>3, FeedKept DEF Fine, TypeOK, g
<1>5. TypeOK'
  BY <1>4 DEF TypeOK, Items
<1>6. LoopOK' /\ OpenOK' /\ TurnsOK'
  BY <1>2, <1>4 DEF LoopOK, OpenOK, TurnsOK, Fine
<1>7. SearchingSubsides'
  BY DEF SearchingSubsides
<1> QED BY <1>4, <1>5, <1>6, <1>7

LEMMA UnchangedKeeps == ASSUME Inv, UNCHANGED vars PROVE Inv'
<1> USE DEF vars, loopVars, feedVars
<1>1. TypeOK' /\ LoopOK' /\ OpenOK'
  BY DEF Inv, TypeOK, LoopOK, OpenOK
<1>2. ItemsInPlace' /\ SearchingSubsides' /\ TurnsOK'
  BY DEF Inv, ItemsInPlace, SearchingSubsides, TurnsOK
<1> QED BY <1>1, <1>2 DEF Inv
LEMMA NextKeeps == ASSUME Inv, [Next]_vars PROVE Inv'
<1>1. ASSUME Read PROVE Inv'
  BY <1>1, ChunkKeeps, SearchKeeps, ConcludeKeeps DEF Read
<1> QED BY <1>1, PostKeeps, AcceptKeeps, FailKeeps, RunSearchKeeps, TakeResultKeeps, DeclineKeeps,
           ReportKeeps, NextTurnKeeps, UnchangedKeeps DEF Next

THEOREM Invariance == Spec => []Inv
<1>1. Init => Inv
  BY InitInv
<1>2. Inv /\ [Next]_vars => Inv'
  BY NextKeeps
<1> QED BY <1>1, <1>2, PTL DEF Spec

-----------------------------------------------------------------------------
(* The properties.                                                         *)

\* The variables of _stream_inner keep their types: no search beyond the calls of an
\* answer, no turn beyond MaxTurns, every item of a known kind and of a turn there was.
THEOREM TypeCorrectness == Spec => []TypeOK
<1>1. Inv => TypeOK
  BY DEF Inv
<1> QED BY <1>1, Invariance, PTL

\* Every event about an item carries the index that the item has in the final output, as
\* long as the model does not think on after it began to answer: output_index in
\* _stream_inner is moved by whoever closes an item, and by nobody else.
THEOREM ItemsStayInPlace == Spec => []ItemsInPlace
<1>1. Inv => ItemsInPlace
  BY DEF Inv
<1> QED BY <1>1, Invariance, PTL

\* No chat request goes upstream with a tool call that has no tool message, whether its
\* search ran, failed or was declined for the budget.
THEOREM CallsAreAnswered == Spec => []CallsAnswered
<1>1. Inv => CallsAnswered
  BY DEF Inv, LoopOK, CallsAnswered
<1> QED BY <1>1, Invariance, PTL

\* The budget of searches is kept to, and a model that has spent it is neither offered
\* tools nor forced to use one.
THEOREM SearchingIsBounded == Spec => []SearchingSubsides
<1>1. Inv => SearchingSubsides
  BY DEF Inv
<1> QED BY <1>1, Invariance, PTL

-----------------------------------------------------------------------------
(* What arrives, condensed.                                                *)

\* More reasoning of this turn: of the answer that is still arriving nothing counts yet.
LEMMA ReasoningArrives ==
  ASSUME turns \in 1..MaxTurns, NEW s \in Seq(Items), Arriving(s)
  PROVE  /\ Arriving(Append(s, Item("reasoning", turns)))
         /\ Condensed(Append(s, Item("reasoning", turns)), turns - 1) = Condensed(s, turns - 1)
<1> DEFINE x == Item("reasoning", turns)
           u == Append(s, x)
<1>1. /\ x \in Items /\ x.turn = turns /\ x.kind = "reasoning"
      /\ turns \in Int /\ turns - 1 \in Int /\ turns > turns - 1 /\ ~(turns > turns)
  BY LoopAssumption DEF Item, Items, Kinds
<1> HIDE DEF x
<1>2. Condensed(u, turns - 1) = Condensed(s, turns - 1)
  BY <1>1, CondensedAppend
<1>3. Condensed(u, turns) = IF s # <<>> /\ x = s[Len(s)] THEN Condensed(s, turns)
                           ELSE Append(Condensed(s, turns), x)
  BY <1>1, CondensedAppend
<1>4. /\ u # <<>> /\ u[Len(u)] = x
  <2>1. u # <<>> /\ Len(u) = Len(s) + 1 /\ u[Len(s) + 1] = x
    BY <1>1, AppendProperties
  <2> QED BY <2>1
<1>5. \/ /\ Condensed(s, turns) = Condensed(s, turns - 1)
         /\ s # <<>> => s[Len(s)].turn <= turns - 1
      \/ /\ Condensed(s, turns) = Append(Condensed(s, turns - 1), x)
         /\ s # <<>> /\ s[Len(s)] = x
  BY DEF Arriving, x
<1> HIDE DEF u
<1>6. Condensed(u, turns) = Append(Condensed(u, turns - 1), x)
  <2>1. CASE s # <<>> /\ s[Len(s)] = x
    <3>1. Condensed(s, turns) = Append(Condensed(s, turns - 1), x)
      BY <1>1, <1>5, <2>1
    <3> QED BY <1>2, <1>3, <2>1, <3>1
  <2>2. CASE ~(s # <<>> /\ s[Len(s)] = x)
    <3>1. Condensed(s, turns) = Condensed(s, turns - 1)
      BY <1>5, <2>2
    <3> QED BY <1>2, <1>3, <2>2, <3>1
  <2> QED BY <2>1, <2>2
<1> QED BY <1>2, <1>4, <1>6 DEF Arriving, x, u

\* The same of whatever closes the reasoning that is open.
LEMMA ReasoningCloses ==
  ASSUME turns \in 1..MaxTurns, NEW f, Fine(f), Arriving(f.output)
  PROVE  /\ Arriving(Closed(f, "reasoning").output)
         /\ Condensed(Closed(f, "reasoning").output, turns - 1) = Condensed(f.output, turns - 1)
<1>1. f \in Feeds /\ f.output \in Seq(Items) /\ "reasoning" \in ItemKinds
  BY DEF Fine, Feeds, ItemKinds
<1>2. \/ Closed(f, "reasoning").output = f.output
      \/ Closed(f, "reasoning").output = Append(f.output, Item("reasoning", turns))
  BY <1>1, ClosedIs
<1> QED BY <1>1, <1>2, ReasoningArrives

LEMMA AcceptArrives ==
  ASSUME Inv, Accept
  PROVE  ArrivingOK' /\ Condensed(output, turns) = Condensed(output, turns - 1)
<1>1. /\ output' = output /\ turns' = turns
      /\ turns \in Int /\ turns - 1 \in Int /\ output \in Seq(Items)
      /\ NoneLater(output, turns) /\ NoneLater(output, turns - 1)
  BY LoopAssumption DEF Inv, TypeOK, TurnsOK, Accept, feedVars, Items
<1>2. Condensed(output, turns) = Condensed(output, turns - 1)
  BY <1>1, CondensedUpTo DEF NoneLater
<1>3. output # <<>> => output[Len(output)].turn <= turns - 1
  <2>1. output # <<>> => Len(output) \in 1..Len(output)
    BY <1>1, EmptySeq
  <2> QED BY <1>1, <2>1 DEF NoneLater
<1>4. Arriving(output)
  BY <1>2, <1>3 DEF Arriving
<1> QED BY <1>1, <1>2, <1>4 DEF ArrivingOK, Arriving

LEMMA ChunkArrives ==
  ASSUME Inv, ArrivingOK, NEW think \in BOOLEAN, NEW text \in BOOLEAN, NEW begun,
         Chunk(think, text, begun)
  PROVE  ArrivingOK' /\ Condensed(output', turns - 1) = Condensed(output, turns - 1)
<1> DEFINE a == IF think THEN Opened(Feed, "reasoning") ELSE Feed
           b == Closed(a, "reasoning")
           c == Opened(b, "message")
<1>1. /\ Fine(Feed) /\ Feed.output = output /\ turns \in 1..MaxTurns /\ Arriving(output)
      /\ "reasoning" \in ItemKinds /\ "message" \in ItemKinds
  BY FeedFine, FeedIs DEF Inv, TypeOK, LoopOK, ItemKinds, ArrivingOK, Chunk
<1>2. Fine(a) /\ a.output = output
  BY <1>1, OpenedFine, OpenedIs DEF Fine
<1> HIDE DEF a
<1>3. Fine(b) /\ Arriving(b.output) /\ Condensed(b.output, turns - 1) = Condensed(output, turns - 1)
  BY <1>1, <1>2, ClosedFine, ReasoningCloses
<1> HIDE DEF b
<1>4. c.output = b.output
  BY <1>1, <1>3, OpenedIs DEF Fine
<1> HIDE DEF c
<1>5. output' = (IF text THEN c ELSE a).output /\ turns' = turns
  BY DEF Chunk, Become, Spoken, loopVars, a, b, c
<1>6. output' = a.output \/ output' = b.output
  BY <1>4, <1>5
<1>7. Arriving(output') /\ Condensed(output', turns - 1) = Condensed(output, turns - 1)
  BY <1>1, <1>2, <1>3, <1>6
<1> QED BY <1>5, <1>7 DEF ArrivingOK, Arriving

LEMMA NextArrives == ASSUME Inv, ArrivingOK, [Next]_vars PROVE ArrivingOK'
<1>1. CASE Accept
  BY <1>1, AcceptArrives
<1>2. ASSUME NEW think \in BOOLEAN, NEW text \in BOOLEAN, NEW begun, Chunk(think, text, begun)
      PROVE  ArrivingOK'
  BY <1>2, ChunkArrives
<1>3. CASE UNCHANGED vars
  BY <1>3 DEF vars, loopVars, feedVars, ArrivingOK, Arriving
<1>4. ASSUME \/ Post \/ Search \/ (\E cut \in BOOLEAN : Conclude(cut)) \/ Fail \/ RunSearch
             \/ TakeResult \/ Decline \/ Report \/ NextTurn
      PROVE  pc' # "read"
  BY <1>4 DEF Post, Search, Conclude, Fail, RunSearch, TakeResult, Decline, Report, NextTurn, Ends
<1> QED BY <1>1, <1>2, <1>3, <1>4 DEF Next, Read, ArrivingOK

THEOREM ArrivingInvariance == Spec => [](Inv /\ ArrivingOK)
<1>1. Init => Inv /\ ArrivingOK
  BY InitInv DEF Init, ArrivingOK
<1>2. Inv /\ ArrivingOK /\ [Next]_vars => (Inv /\ ArrivingOK)'
  BY NextKeeps, NextArrives
<1> QED BY <1>1, <1>2, PTL DEF Spec
-----------------------------------------------------------------------------
(* Every step is one of ResponseLoop, or none.                             *)

Before == Condensed(output, turns - 1)
Now == Condensed(output, turns)

\* What a settled answer has added is what an answer that comes at once would have.
LEMMA SettledSays ==
  ASSUME Inv, ArrivingOK, pc = "read"
  PROVE  /\ Settled.output \in Seq(Items)
         /\ \E think, text \in BOOLEAN :
              Condensed(Settled.output, turns) = Before \o Unstreamed!Said(think, text)
         /\ Before \in Seq(Items)
<1> DEFINE a == Closed(Feed, "reasoning")
           b == Closed(a, "message")
           r == Item("reasoning", turns)
           m == Item("message", turns)
<1>1. /\ Fine(Feed) /\ Feed.output = output /\ turns \in 1..MaxTurns /\ Arriving(output)
      /\ "reasoning" \in ItemKinds /\ "message" \in ItemKinds /\ output \in Seq(Items)
      /\ turns \in Int /\ turns - 1 \in Int
  BY FeedFine, FeedIs, LoopAssumption DEF Inv, TypeOK, LoopOK, ItemKinds, ArrivingOK, Items
<1>2. /\ Fine(a) /\ Arriving(a.output) /\ Condensed(a.output, turns - 1) = Before
      /\ a \in Feeds /\ a.output \in Seq(Items)
  BY <1>1, ClosedFine, ReasoningCloses DEF Before, Fine, Feeds
<1>3. Settled = b
  BY DEF Settled
<1> HIDE DEF a
<1>4. b \in Feeds /\ b.output = IF a.open["message"] = None THEN a.output ELSE Append(a.output, m)
  BY <1>1, <1>2, ClosedIs
<1>5. r \in Items /\ m \in Items
  BY <1>1 DEF Item, Items, Kinds
<1>6. Condensed(Append(a.output, m), turns) = Append(Condensed(a.output, turns), m)
  <2>1. "message" \in Kinds \ {"reasoning"} /\ turns <= turns
    BY <1>1 DEF Kinds
  <2> QED BY <1>1, <1>2, <2>1, CondensedAppendOther
<1>7. Before \in Seq(Items)
  BY <1>1, CondensedType DEF Before
<1>8. PICK think \in BOOLEAN : Condensed(a.output, turns) = IF think THEN Append(Before, r) ELSE Before
  <2>1. Condensed(a.output, turns) \in {Append(Before, r), Before}
    BY <1>2 DEF Arriving
  <2> QED BY <2>1
<1> DEFINE text == a.open["message"] # None
<1> HIDE DEF b, r, m
<1>9. Condensed(b.output, turns) = IF text THEN Append(Condensed(a.output, turns), m)
                                   ELSE Condensed(a.output, turns)
  BY <1>4, <1>6
<1>10. /\ Append(Before, r) = Before \o <<r>> /\ Append(Before, m) = Before \o <<m>>
       /\ Append(Append(Before, r), m) = Before \o (<<r>> \o <<m>>)
  <2>1. <<r>> \in Seq(Items) /\ <<m>> \in Seq(Items)
    BY <1>5
  <2>2. Append(Before, r) = Before \o <<r>> /\ Append(Before, m) = Before \o <<m>>
    BY <1>5, <1>7, AppendIsConcat
  <2>3. Append(Before, r) \in Seq(Items)
    BY <1>5, <1>7, AppendProperties
  <2>4. Append(Append(Before, r), m) = Append(Before, r) \o <<m>>
    BY <1>5, <2>3, AppendIsConcat
  <2>5. (Before \o <<r>>) \o <<m>> = Before \o (<<r>> \o <<m>>)
    BY <1>7, <2>1, ItemsAssociative
  <2> QED BY <2>2, <2>4, <2>5
<1>11. Unstreamed!Said(think, text) = (IF think THEN <<r>> ELSE <<>>) \o (IF text THEN <<m>> ELSE <<>>)
  BY DEF Unstreamed!Said, Unstreamed!Item, Item, r, m
<1>12. /\ <<r>> \o <<>> = <<r>> /\ <<>> \o <<m>> = <<m>> /\ <<>> \o <<>> = <<>>
       /\ Before \o <<>> = Before
  <2>1. <<r>> \in Seq(Items) /\ <<m>> \in Seq(Items) /\ <<>> \in Seq(Items)
    BY <1>5, EmptySeq
  <2> QED BY <1>7, <2>1, ConcatEmptySeq
<1> HIDE DEF text
<1>13. Condensed(b.output, turns) = Before \o Unstreamed!Said(think, text)
  <2>1. CASE think /\ text
    BY <1>8, <1>9, <1>10, <1>11, <2>1
  <2>2. CASE think /\ ~text
    BY <1>8, <1>9, <1>10, <1>11, <1>12, <2>2
  <2>3. CASE ~think /\ text
    BY <1>8, <1>9, <1>10, <1>11, <1>12, <2>3
  <2>4. CASE ~think /\ ~text
    BY <1>8, <1>9, <1>11, <1>12, <2>4
  <2> QED BY <2>1, <2>2, <2>3, <2>4
<1>14. text \in BOOLEAN
  BY DEF text
<1>15. b.output \in Seq(Items)
  BY <1>4 DEF Feeds
<1> QED BY <1>3, <1>7, <1>13, <1>14, <1>15
LEMMA OutputIs ==
  UnstreamedOutput = IF status = "failed" THEN <<>> ELSE IF pc = "read" THEN Before ELSE Now
BY DEF UnstreamedOutput, Before, Now

LEMMA InitImplements == ASSUME Init PROVE Unstreamed!Init
<1>1. Condensed(output, turns) = <<>>
  BY CondensedEmpty DEF Init
<1>2. UnstreamedOutput = <<>>
  BY <1>1 DEF Init, UnstreamedOutput
<1> QED BY <1>2 DEF Init, Unstreamed!Init, Settings, Unstreamed!Settings, Openings, Unstreamed!Openings,
                    Chats, Unstreamed!Chats

LEMMA PostImplements == ASSUME Inv, Post PROVE Unstreamed!Post
<1>1. /\ pc = "post" /\ pc' = "await" /\ turns' = turns + 1 /\ calls' = <<>> /\ output' = output
      /\ status' = status /\ conf' = conf /\ chat' = chat /\ left' = left /\ searches' = searches
      /\ status # "failed"
  BY DEF Post, Inv, LoopOK
<1>2. Condensed(output, turns) = Condensed(output, turns + 1)
  <2>1. /\ output \in Seq(Items) /\ turns \in Int /\ turns + 1 \in Int /\ NoneLater(output, turns)
    BY LoopAssumption DEF Inv, TypeOK, TurnsOK, Items
  <2>2. \A i \in 1..Len(output) : output[i].turn <= turns /\ output[i].turn <= turns + 1
    BY <2>1, ItemTurns DEF NoneLater
  <2> QED BY <2>1, <2>2, CondensedUpTo
<1>3. UnstreamedOutput' = UnstreamedOutput
  BY <1>1, <1>2 DEF UnstreamedOutput
<1> QED BY <1>1, <1>3 DEF Unstreamed!Post

LEMMA AcceptImplements == ASSUME Inv, Accept PROVE UNCHANGED Unstreamed!vars
<1>1. /\ pc = "await" /\ pc' = "read" /\ turns' = turns /\ calls' = calls /\ calls = <<>>
      /\ output' = output /\ status' = status /\ conf' = conf /\ chat' = chat /\ left' = left
      /\ searches' = searches /\ status # "failed"
  BY DEF Accept, Inv, LoopOK, feedVars
<1>2. UnstreamedOutput' = UnstreamedOutput
  BY <1>1, AcceptArrives DEF UnstreamedOutput
<1> QED BY <1>1, <1>2 DEF Unstreamed!vars

LEMMA ChunkImplements ==
  ASSUME Inv, ArrivingOK, NEW think \in BOOLEAN, NEW text \in BOOLEAN, NEW begun,
         Chunk(think, text, begun)
  PROVE  UNCHANGED Unstreamed!vars
<1>1. /\ pc = "read" /\ pc' = "read" /\ turns' = turns
      /\ status' = status /\ conf' = conf /\ chat' = chat /\ left' = left
      /\ searches' = searches /\ status # "failed"
  BY DEF Chunk, Inv, LoopOK, loopVars
<1>2. UnstreamedOutput' = UnstreamedOutput
  BY <1>1, ChunkArrives DEF UnstreamedOutput
<1> QED BY <1>1, <1>2 DEF Unstreamed!vars

LEMMA SearchImplements ==
  ASSUME Inv, ArrivingOK, Search
  PROVE  \E tools \in Unstreamed!Calls, think, text \in BOOLEAN : Unstreamed!Search(think, text, tools)
<1>1. /\ pc = "read" /\ pc' = "search" /\ turns' = turns /\ calls' = calls
      /\ status' = status /\ conf' = conf /\ chat' = Requested(chat, calls) /\ left' = Len(calls)
      /\ searches' = searches /\ status = "in_progress" /\ output' = Settled.output
      /\ AllSearches(conf, calls) /\ calls \in Calls
  BY DEF Search, Inv, TypeOK, LoopOK, Become
<1>2. PICK think \in BOOLEAN, text \in BOOLEAN :
        Condensed(Settled.output, turns) = Before \o Unstreamed!Said(think, text)
  BY <1>1, SettledSays
<1>3. UnstreamedOutput = Before /\ UnstreamedOutput' = Before \o Unstreamed!Said(think, text)
  BY <1>1, <1>2 DEF UnstreamedOutput, Before
<1>4. Unstreamed!Search(think, text, calls)
  BY <1>1, <1>3 DEF Unstreamed!Search, AllSearches, Unstreamed!AllSearches, Requested, Unstreamed!Requested
<1>5. calls \in Unstreamed!Calls
  BY <1>1 DEF Calls, Unstreamed!Calls, CallKinds, Unstreamed!CallKinds
<1> QED BY <1>4, <1>5

LEMMA ConcludeImplements ==
  ASSUME Inv, ArrivingOK, NEW cut \in BOOLEAN, Conclude(cut)
  PROVE  \E tools \in Unstreamed!Calls, think, text, c \in BOOLEAN :
           Unstreamed!Conclude(think, text, tools, c)
<1> DEFINE given == HandedOver(conf, calls, turns)
<1>1. /\ pc = "read" /\ pc' = "over" /\ turns' = turns /\ calls' = calls
      /\ status' = (IF cut THEN "incomplete" ELSE "completed")
      /\ conf' = conf /\ chat' = chat /\ left' = left
      /\ searches' = searches /\ status = "in_progress"
      /\ ~AllSearches(conf, calls) /\ calls \in Calls /\ turns \in 1..MaxTurns
  BY DEF Conclude, Inv, TypeOK, LoopOK, Ends
<1>2. output' = Settled.output \o given
  BY DEF Conclude, Become, Extended
<1>3. PICK think \in BOOLEAN, text \in BOOLEAN :
        /\ Condensed(Settled.output, turns) = Before \o Unstreamed!Said(think, text)
        /\ Settled.output \in Seq(Items)
  BY <1>1, SettledSays
<1>4. Condensed(Settled.output \o given, turns) = Condensed(Settled.output, turns) \o given
  <2>1. PICK n \in Nat : given = [k \in 1..n |-> Item("call", turns)]
    BY <1>1, HandedOverIs
  <2> QED BY <1>1, <1>3, <2>1, CondensedCalls
<1>5. given = Unstreamed!HandedOver(conf, calls, turns)
  <2> DEFINE x == [kind |-> "call", turn |-> turns]
             mine == {i \in DOMAIN calls : conf.active => calls[i] = "client"}
  <2>1. given = [k \in 1..Cardinality(mine) |-> x]
    BY DEF HandedOver, ClientCalls, Item
  <2>2. Unstreamed!HandedOver(conf, calls, turns) = [k \in 1..Cardinality(mine) |-> x]
    BY DEF Unstreamed!HandedOver, Unstreamed!ClientCalls, Unstreamed!Item, Cardinality, Unstreamed!Cardinality
  <2> QED BY <2>1, <2>2
<1> HIDE DEF given
<1>6. UnstreamedOutput = Before
  BY <1>1 DEF UnstreamedOutput, Before
<1>7. UnstreamedOutput' = (Before \o Unstreamed!Said(think, text)) \o given
  BY <1>1, <1>2, <1>3, <1>4 DEF UnstreamedOutput
<1>8. Unstreamed!Conclude(think, text, calls, cut)
  BY <1>1, <1>5, <1>6, <1>7 DEF Unstreamed!Conclude, Unstreamed!Ends, AllSearches, Unstreamed!AllSearches
<1>9. calls \in Unstreamed!Calls
  BY <1>1 DEF Calls, Unstreamed!Calls, CallKinds, Unstreamed!CallKinds
<1> QED BY <1>8, <1>9

LEMMA FailImplements == ASSUME Inv, Fail PROVE Unstreamed!Fail
<1>1. /\ pc \in {"await", "read", "searching"} /\ pc' = "over" /\ status' = "failed"
      /\ turns' = turns /\ conf' = conf /\ chat' = chat /\ left' = left /\ searches' = searches
  BY DEF Fail, Ends
<1>2. UnstreamedOutput' = <<>>
  BY <1>1 DEF UnstreamedOutput
<1> QED BY <1>1, <1>2 DEF Unstreamed!Fail, Unstreamed!Ends

LEMMA RunSearchImplements == ASSUME Inv, RunSearch PROVE Unstreamed!RunSearch
<1>1. /\ pc = "search" /\ pc' = "searching" /\ left > 0 /\ ~Spent(conf, searches)
      /\ searches' = searches + 1 /\ turns' = turns /\ conf' = conf /\ chat' = chat
      /\ left' = left /\ status' = status /\ calls' = calls /\ status = "in_progress"
  BY DEF RunSearch, Inv, LoopOK
<1>2. output' = output
  <2>1. Feed \in Feeds /\ Feed.output = output /\ "search" \in ItemKinds
    BY FeedIs DEF Inv, ItemKinds
  <2> QED BY <2>1, OpenedIs DEF RunSearch, Become
<1>3. UnstreamedOutput' = UnstreamedOutput
  BY <1>1, <1>2 DEF UnstreamedOutput
<1> QED BY <1>1, <1>3 DEF Unstreamed!RunSearch, Spent, Unstreamed!Spent

LEMMA TakeResultImplements == ASSUME Inv, TakeResult PROVE Unstreamed!TakeResult
<1>1. /\ pc = "searching" /\ pc' = "search" /\ chat' = Answered(chat) /\ left' = left - 1
      /\ searches' = searches /\ turns' = turns /\ conf' = conf
      /\ status' = status /\ calls' = calls /\ status = "in_progress"
      /\ turns \in 1..MaxTurns /\ turns \in Int /\ turns <= turns
      /\ output \in Seq(Items) /\ open["search"] # None
  BY LoopAssumption DEF TakeResult, Inv, TypeOK, LoopOK, OpenOK, Items
<1>2. output' = Append(output, Item("search", turns))
  <2>1. Feed \in Feeds /\ Feed.output = output /\ Feed.open = open /\ "search" \in ItemKinds
    BY FeedIs DEF Inv, ItemKinds
  <2> QED BY <1>1, <2>1, ClosedIs DEF TakeResult, Become
<1>3. "search" \in Kinds \ {"reasoning"}
  BY DEF Kinds
<1>4. Condensed(output', turns) = Append(Condensed(output, turns), Item("search", turns))
  BY <1>1, <1>2, <1>3, CondensedAppendOther
<1>5. UnstreamedOutput' = Append(UnstreamedOutput, Item("search", turns))
  BY <1>1, <1>4 DEF UnstreamedOutput
<1> QED BY <1>1, <1>5 DEF Unstreamed!TakeResult, Answered, Unstreamed!Answered, Item, Unstreamed!Item

LEMMA DeclineImplements == ASSUME Inv, Decline PROVE Unstreamed!Decline
<1>1. /\ pc = "search" /\ pc' = "search" /\ left > 0 /\ Spent(conf, searches)
      /\ chat' = Answered(chat) /\ left' = left - 1
      /\ searches' = searches /\ turns' = turns /\ conf' = conf
      /\ status' = status /\ calls' = calls /\ output' = output
  BY DEF Decline, feedVars
<1>2. UnstreamedOutput' = UnstreamedOutput
  BY <1>1 DEF UnstreamedOutput
<1> QED BY <1>1, <1>2 DEF Unstreamed!Decline, Answered, Unstreamed!Answered, Spent, Unstreamed!Spent

LEMMA ReportImplements == ASSUME Inv, Report PROVE Unstreamed!Report
<1>1. /\ pc = "search" /\ pc' = "over" /\ left = 0 /\ ~conf.agent /\ status' = "completed"
      /\ chat' = chat /\ left' = left /\ searches' = searches /\ turns' = turns /\ conf' = conf
      /\ calls' = calls /\ status = "in_progress"
      /\ turns \in 1..MaxTurns /\ turns \in Int /\ turns <= turns
      /\ output \in Seq(Items) /\ "message" \in Kinds \ {"reasoning"}
  BY LoopAssumption DEF Report, Inv, TypeOK, LoopOK, Ends, Items, Kinds
<1>2. output' = output \o <<Item("message", turns)>>
  BY FeedIs DEF Report, Become, Extended, Inv
<1>3. Item("message", turns) \in Items
  BY <1>1 DEF Item, Items
<1>4. output' = Append(output, Item("message", turns))
  BY <1>1, <1>2, <1>3, AppendIsConcat
<1>5. Condensed(output', turns) = Append(Condensed(output, turns), Item("message", turns))
  BY <1>1, <1>4, CondensedAppendOther
<1>6. UnstreamedOutput' = Append(UnstreamedOutput, Item("message", turns))
  BY <1>1, <1>5 DEF UnstreamedOutput
<1> QED BY <1>1, <1>6 DEF Unstreamed!Report, Unstreamed!Ends, Item, Unstreamed!Item

LEMMA NextTurnImplements == ASSUME Inv, NextTurn PROVE Unstreamed!NextTurn
<1>1. /\ pc = "search" /\ left = 0 /\ conf.agent /\ chat' = Prepared(conf, searches, chat)
      /\ left' = left /\ searches' = searches /\ turns' = turns /\ conf' = conf
      /\ calls' = calls /\ output' = output /\ status = "in_progress"
      /\ IF turns < MaxTurns THEN pc' = "post" /\ status' = status
         ELSE pc' = "over" /\ status' = "incomplete"
  BY DEF NextTurn, Inv, LoopOK, Ends, feedVars
<1>2. status' # "failed" /\ pc' # "read"
  BY <1>1
<1>3. UnstreamedOutput' = UnstreamedOutput
  BY <1>1, <1>2 DEF UnstreamedOutput
<1> QED BY <1>1, <1>2, <1>3 DEF Unstreamed!NextTurn, Unstreamed!Ends, Prepared, Unstreamed!Prepared,
                               Spent, Unstreamed!Spent

LEMMA UnchangedImplements == ASSUME UNCHANGED vars PROVE UNCHANGED Unstreamed!vars
BY DEF vars, loopVars, feedVars, Unstreamed!vars, UnstreamedOutput

LEMMA NextImplements ==
  ASSUME Inv, ArrivingOK, [Next]_vars
  PROVE  [Unstreamed!Next]_(Unstreamed!vars)
<1>1. ASSUME Read PROVE [Unstreamed!Next]_(Unstreamed!vars)
  BY <1>1, ChunkImplements, SearchImplements, ConcludeImplements DEF Read, Unstreamed!Next
<1>2. ASSUME Post \/ Fail \/ RunSearch \/ TakeResult \/ Decline \/ Report \/ NextTurn
      PROVE  Unstreamed!Next
  BY <1>2, PostImplements, FailImplements, RunSearchImplements, TakeResultImplements,
     DeclineImplements, ReportImplements, NextTurnImplements DEF Unstreamed!Next
<1> QED BY <1>1, <1>2, AcceptImplements, UnchangedImplements DEF Next

\* A streamed response is the response that would have come at once: for the same answers of
\* the model, _stream_inner makes the calls, runs the searches and ends with the items and the
\* status that _complete_inner does.
THEOREM StreamImplementsLoop == Spec => ImplementsLoop
<1>1. Init => Unstreamed!Init
  BY InitImplements
<1>2. Inv /\ ArrivingOK /\ [Next]_vars => [Unstreamed!Next]_(Unstreamed!vars)
  BY NextImplements
<1> QED BY <1>1, <1>2, ArrivingInvariance, PTL DEF Spec, ImplementsLoop, Unstreamed!Spec
=============================================================================
