----------------------------- MODULE FileProofs -----------------------------
(***************************************************************************)
(* Proofs about the two files that requests write: ConfigStore, for any    *)
(* number of threads, where outside the races that the history variables   *)
(* name saving is atomic and no update is lost; and the ledger and its     *)
(* page, where for any number of traces, of writes that fail half way and  *)
(* of entries on a page, a torn write costs at most one other entry,       *)
(* whoever reads the listing page by page misses none of the entries it    *)
(* began with, and of a streamed chat is said what is said of its body, as *)
(* far as its lines were not lost.                                         *)
(***************************************************************************)
EXTENDS ConfigStore, LiveView, SequenceLemmas, FiniteSetTheorems

-----------------------------------------------------------------------------
(* What the ledger says of an answer that was streamed.                    *)

\* Where the two pieces of a part are in the order.
Placed(order, i, a, b) ==
  /\ a \in DOMAIN order /\ b \in DOMAIN order /\ a < b
  /\ order[a] = <<i, 1>> /\ order[b] = <<i, 2>>
  /\ \A j \in DOMAIN order : order[j][1] = i => j = a \/ j = b

LEMMA AnswerCalls ==
  ASSUME NEW answer \in Answers
  PROVE  answer.calls \in Seq(Arguments) /\ Len(answer.calls) \in Nat /\ DOMAIN answer.calls = 1..Len(answer.calls)
<1>1. answer \in [way : Ways, tag : {"none", "closed", "unclosed"}, calls : Seq(Arguments), reason : STRING]
  BY AnswersAssumption
<1>2. answer.calls \in Seq(Arguments)
  BY <1>1
<1> QED BY <1>2, LenProperties

\* An order has the two pieces of each part, the first before the second.
LEMMA OrderPlaces ==
  ASSUME NEW answer \in Answers, NEW order \in Orders(answer), NEW i \in 0..Len(answer.calls)
  PROVE  \E a, b \in DOMAIN order : Placed(order, i, a, b)
<1> DEFINE n == Len(answer.calls)
           S == 1..(2 * (n + 1))
           T == (0..n) \X {1, 2}
<1>1. n \in Nat
  BY AnswerCalls
<1>2. /\ order \in [S -> T]
      /\ \A j, k \in S : j < k => order[j] # order[k] /\ (order[j][1] = order[k][1] => order[j][2] = 1)
  <2>1. LastLine(answer) - 1 = 2 * (n + 1)
    BY <1>1 DEF LastLine
  <2> QED BY <2>1 DEF Orders, Pieces
<1>3. IsFiniteSet(S) /\ Cardinality(S) = 2 * (n + 1)
  <2> DEFINE m == 2 * (n + 1)
  <2>1. m \in Int /\ m >= 1 /\ 1 \in Int
    BY <1>1
  <2> HIDE DEF m
  <2>2. IsFiniteSet(1..m) /\ Cardinality(1..m) = IF 1 > m THEN 0 ELSE m - 1 + 1
    BY <2>1, FS_Interval
  <2>3. Cardinality(1..m) = m
    BY <2>1, <2>2
  <2> QED BY <2>2, <2>3 DEF m
<1>4. IsFiniteSet(T) /\ Cardinality(T) = (n + 1) * 2
  <2> HIDE DEF n
  <2>0. n \in Int /\ n >= 0 /\ 0 \in Int /\ 1 \in Int /\ 2 \in Int
    BY <1>1
  <2>1. IsFiniteSet(0..n) /\ Cardinality(0..n) = n + 1
    <3>1. IsFiniteSet(0..n) /\ Cardinality(0..n) = IF 0 > n THEN 0 ELSE n - 0 + 1
      BY <2>0, FS_Interval
    <3> QED BY <2>0, <3>1
  <2>2. IsFiniteSet({1, 2}) /\ Cardinality({1, 2}) = 2
    <3>1. {1, 2} = 1..2
      OBVIOUS
    <3>2. IsFiniteSet(1..2) /\ Cardinality(1..2) = IF 1 > 2 THEN 0 ELSE 2 - 1 + 1
      BY <2>0, FS_Interval
    <3> QED BY <3>1, <3>2
  <2>3. IsFiniteSet(T) /\ Cardinality(T) = Cardinality(0..n) * Cardinality({1, 2})
    BY <2>1, <2>2, FS_Product
  <2> HIDE DEF T
  <2> QED BY <2>1, <2>2, <2>3
<1>5. \A t \in T : \E j \in S : order[j] = t
  <2> SUFFICES ASSUME NEW t \in T, \A j \in S : order[j] # t PROVE FALSE
    OBVIOUS
  <2>1. IsFiniteSet(T \ {t}) /\ Cardinality(T \ {t}) = Cardinality(T) - 1
    BY <1>4, FS_RemoveElement
  <2>2. order \in [S -> T \ {t}]
    BY <1>2
  <2>3. IsInjective(order)
    BY <1>1, <1>2 DEF IsInjective
  <2>4. Cardinality(S) <= Cardinality(T \ {t})
    <3> HIDE DEF S, T
    <3> QED BY <1>3, <2>1, <2>2, <2>3, FS_Injection DEF Injection, IsInjective
  <2> HIDE DEF n, S, T
  <2> QED BY <1>1, <1>3, <1>4, <2>1, <2>4
<1>6. PICK a \in S : order[a] = <<i, 1>>
  BY <1>5
<1>7. PICK b \in S : order[b] = <<i, 2>>
  BY <1>5
<1>8. a < b
  BY <1>1, <1>2, <1>6, <1>7
<1>9. \A j \in S : order[j][1] = i => j = a \/ j = b
  <2> SUFFICES ASSUME NEW j \in S, order[j][1] = i, j # a, j # b PROVE FALSE
    OBVIOUS
  <2>1. order[j] \in T /\ order[j] = <<order[j][1], order[j][2]>> /\ order[j][2] \in {1, 2}
    <3>1. order[j] \in T
      BY <1>2
    <3>2. \A t \in T : t = <<t[1], t[2]>> /\ t[2] \in {1, 2}
      OBVIOUS
    <3> HIDE DEF T
    <3> QED BY <3>1, <3>2
  <2>2. order[j] = order[a] \/ order[j] = order[b]
    BY <1>6, <1>7, <2>1
  <2>3. order[j] # order[a] /\ order[j] # order[b]
    <3>1. (j < a \/ a < j) /\ (j < b \/ b < j)
      BY <1>1
    <3> QED BY <1>2, <3>1
  <2> QED BY <2>2, <2>3
<1> QED BY <1>2, <1>6, <1>7, <1>8, <1>9 DEF Placed

\* The piece of the log that an order has at a place.
PieceAt(order, lost, j) == [of |-> order[j][1], part |-> order[j][2], lost |-> j \in lost]

LEMMA LogProperties ==
  ASSUME NEW answer \in Answers, NEW order \in Orders(answer), NEW lost
  PROVE  /\ Logged(order, lost) \in Seq(Piece)
         /\ Len(answer.calls) \in Nat
         /\ Len(Logged(order, lost)) \in Nat
         /\ DOMAIN order = 1..Len(Logged(order, lost))
         /\ \A j \in DOMAIN order : Logged(order, lost)[j] = PieceAt(order, lost, j)
<1> DEFINE n == Len(answer.calls)
           m == 2 * (n + 1)
           log == Logged(order, lost)
<1>1. n \in Nat /\ m \in Nat
  BY AnswerCalls
<1>2. order \in [1..m -> (0..n) \X {1, 2}] /\ DOMAIN order = 1..m
  <2>1. LastLine(answer) - 1 = m
    BY <1>1 DEF LastLine
  <2> QED BY <2>1 DEF Orders, Pieces
<1>3. \A j \in 1..m : PieceAt(order, lost, j) \in Piece
  <2> SUFFICES ASSUME NEW j \in 1..m PROVE PieceAt(order, lost, j) \in Piece
    OBVIOUS
  <2>1. order[j][1] \in Nat /\ order[j][2] \in {1, 2}
    BY <1>1, <1>2
  <2> QED BY <2>1 DEF PieceAt, Piece
<1>4. log = [j \in 1..m |-> PieceAt(order, lost, j)]
  BY <1>2 DEF Logged, PieceAt
<1>5. log \in Seq(Piece) /\ Len(log) = m
  <2>1. log \in [1..m -> Piece]
    BY <1>3, <1>4
  <2> HIDE DEF log, m
  <2> QED BY <1>1, <2>1, SeqDef, LenProperties
<1> QED BY <1>1, <1>2, <1>4, <1>5

\* What Joined picks from a log.
OwnPieces(i) == [p \in Piece |-> IF p.of = i /\ ~p.lost THEN <<p>> ELSE <<>>]

LEMMA OwnPiecesType == ASSUME NEW i PROVE OwnPieces(i) \in [Piece -> Seq(Piece)]
<1>1. \A p \in Piece : <<p>> \in Seq(Piece)
  OBVIOUS
<1>2. <<>> \in Seq(Piece)
  OBVIOUS
<1> QED BY <1>1, <1>2 DEF OwnPieces

LEMMA JoinedIs ==
  ASSUME NEW answer \in Answers, NEW order \in Orders(answer), NEW lost, NEW i
  PROVE  Joined(Logged(order, lost), i) = Spread(Logged(order, lost), OwnPieces(i))
<1> DEFINE log == Logged(order, lost)
           f == OwnPieces(i)
<1>1. log \in Seq(Piece) /\ Len(log) \in Nat /\ DOMAIN log = 1..Len(log)
  BY LogProperties, LenProperties
<1> HIDE DEF log
<1>2. \A k \in DOMAIN log : log[k] \in Piece
  BY <1>1, ElementOfSeq
<1>3. \A k \in DOMAIN log : f[log[k]] = IF log[k].of = i /\ ~log[k].lost THEN <<log[k]>> ELSE <<>>
  BY <1>2 DEF OwnPieces
<1> HIDE DEF f
<1>4. MapSeq(log, f) = [k \in DOMAIN log |-> IF log[k].of = i /\ ~log[k].lost THEN <<log[k]>> ELSE <<>>]
  BY <1>3 DEF MapSeq
<1> QED BY <1>4 DEF Joined, Spread, log, f

\* No line of this part was lost.
NoneLost(order, lost, i) == \A j \in DOMAIN order : j \in lost => order[j][1] # i

\* The pieces of a part of which none was lost are joined in their order.
LEMMA JoinedWhole ==
  ASSUME NEW answer \in Answers, NEW order \in Orders(answer), NEW lost,
         NEW i \in 0..Len(answer.calls), NoneLost(order, lost, i)
  PROVE  Joined(Logged(order, lost), i)
           = <<[of |-> i, part |-> 1, lost |-> FALSE], [of |-> i, part |-> 2, lost |-> FALSE]>>
<1> DEFINE log == Logged(order, lost)
           f == OwnPieces(i)
           x == [of |-> i, part |-> 1, lost |-> FALSE]
           y == [of |-> i, part |-> 2, lost |-> FALSE]
<1>1. PICK a \in DOMAIN order, b \in DOMAIN order : Placed(order, i, a, b)
  BY OrderPlaces
<1>2. /\ log \in Seq(Piece) /\ Len(log) \in Nat /\ DOMAIN order = 1..Len(log)
      /\ \A j \in DOMAIN order : log[j] = PieceAt(order, lost, j)
  BY LogProperties
<1>3. a \notin lost /\ b \notin lost
  <2>1. order[a][1] = i /\ order[b][1] = i
    BY <1>1 DEF Placed
  <2> QED BY <1>1, <2>1 DEF NoneLost
<1>4. log[a] = x /\ log[b] = y
  <2>1. log[a] = PieceAt(order, lost, a) /\ log[b] = PieceAt(order, lost, b)
    BY <1>2
  <2>2. order[a] = <<i, 1>> /\ order[b] = <<i, 2>>
    BY <1>1 DEF Placed
  <2>3. (a \in lost) = FALSE /\ (b \in lost) = FALSE
    BY <1>3
  <2>6. order[a][1] = i /\ order[a][2] = 1 /\ order[b][1] = i /\ order[b][2] = 2
    BY <2>2
  <2>4. PieceAt(order, lost, a) = x
    BY <2>3, <2>6, Zenon DEF PieceAt
  <2>5. PieceAt(order, lost, b) = y
    BY <2>3, <2>6, Zenon DEF PieceAt
  <2> QED BY <2>1, <2>4, <2>5
<1> HIDE DEF log
<1>5. x \in Piece /\ y \in Piece
  BY <1>2, <1>4, ElementOfSeq
<1>6. f[log[a]] = <<x>> /\ f[log[b]] = <<y>>
  <2>1. x.of = i /\ x.lost = FALSE /\ y.of = i /\ y.lost = FALSE
    OBVIOUS
  <2> HIDE DEF x, y
  <2>2. f[x] = <<x>> /\ f[y] = <<y>>
    BY <1>5, <2>1 DEF OwnPieces
  <2> QED BY <1>4, <2>2
<1>7. \A j \in 1..Len(log) : j # a /\ j # b => f[log[j]] = <<>>
  <2> SUFFICES ASSUME NEW j \in 1..Len(log), j # a, j # b PROVE f[log[j]] = <<>>
    OBVIOUS
  <2>1. order[j][1] # i
    BY <1>1, <1>2 DEF Placed
  <2>2. log[j].of = order[j][1]
    <3>1. log[j] = PieceAt(order, lost, j)
      BY <1>2
    <3>2. PieceAt(order, lost, j).of = order[j][1]
      BY Zenon DEF PieceAt
    <3> QED BY <3>1, <3>2
  <2>3. log[j] \in Piece
    BY <1>2, ElementOfSeq
  <2> QED BY <2>1, <2>2, <2>3 DEF OwnPieces
<1>8. a \in 1..Len(log) /\ b \in 1..Len(log) /\ a < b
  BY <1>1, <1>2 DEF Placed
<1>9. f \in [Piece -> Seq(Piece)]
  BY OwnPiecesType
<1> HIDE DEF f
<1>10. Spread(log, f) = f[log[a]] \o f[log[b]]
  <2>1. log \in Seq(Piece)
    BY <1>2
  <2>2. a \in 1..Len(log) /\ b \in 1..Len(log)
    BY <1>8
  <2>3. a < b
    BY <1>8
  <2> HIDE DEF x, y
  <2> QED BY <1>7, <1>9, <2>1, <2>2, <2>3, SpreadPair
<1>11. <<x>> \o <<y>> = <<x, y>>
  <2> HIDE DEF x, y
  <2>1. <<x>> \in Seq(Piece)
    BY <1>5
  <2>2. Append(<<x>>, y) = <<x>> \o <<y>>
    BY <1>5, <2>1, AppendIsConcat
  <2>3. Append(<<x>>, y) = <<x, y>>
    BY AppendEmpty
  <2> QED BY <2>2, <2>3
<1> HIDE DEF x, y
<1>12. Joined(log, i) = Spread(log, f)
  BY JoinedIs DEF log, f
<1> QED BY <1>6, <1>10, <1>11, <1>12 DEF log, x, y

\* Of a call that came whole, and with arguments, is said what is said of it in a body.
LEMMA CallAlike ==
  ASSUME NEW answer \in Answers, NEW order \in Orders(answer), NEW lost,
         NEW i \in DOMAIN answer.calls, NoneLost(order, lost, i), answer.calls[i] # "absent"
  PROVE  /\ Joined(Logged(order, lost), i) # <<>>
         /\ Parsed(answer, Logged(order, lost), i) = answer.calls[i]
<1> DEFINE log == Logged(order, lost)
           x == [of |-> i, part |-> 1, lost |-> FALSE]
           y == [of |-> i, part |-> 2, lost |-> FALSE]
<1>1. i \in 0..Len(answer.calls)
  BY AnswerCalls
<1>2. Joined(log, i) = <<x, y>>
  BY <1>1, JoinedWhole
<1>3. <<x, y>> # <<>>
  <2> HIDE DEF x, y
  <2> QED OBVIOUS
<1>4. Parsed(answer, log, i) = answer.calls[i]
  <2> HIDE DEF log
  <2> QED BY <1>2 DEF Parsed
<1> QED BY <1>2, <1>3, <1>4

\* Of the content is said the same if none of its pieces is lost.
LEMMA ContentAlike ==
  ASSUME NEW answer \in Answers, NEW order \in Orders(answer), NEW lost,
         NoneLost(order, lost, 0)
  PROVE  ContentIssues(answer, Logged(order, lost))
           = IF answer.tag = "unclosed" THEN {<<0, "unclosed_tag">>} ELSE {}
<1> DEFINE log == Logged(order, lost)
           x == [of |-> 0, part |-> 1, lost |-> FALSE]
           z == [of |-> 0, part |-> 2, lost |-> TRUE]
<1>1. Len(answer.calls) \in Nat /\ 0 \in 0..Len(answer.calls)
  BY LogProperties
<1>2. PICK a \in DOMAIN order, b \in DOMAIN order : Placed(order, 0, a, b)
  BY <1>1, OrderPlaces
<1>3. /\ log \in Seq(Piece) /\ Len(log) \in Nat /\ DOMAIN order = 1..Len(log)
      /\ \A j \in DOMAIN order : log[j] = PieceAt(order, lost, j)
  BY LogProperties
<1>4. DOMAIN log = DOMAIN order
  BY <1>3, LenProperties
<1>5. log[a] = x
  <2>1. order[a][1] = 0 /\ order[a][2] = 1
    BY <1>2 DEF Placed
  <2>2. a \notin lost
    BY <1>2, <2>1 DEF NoneLost
  <2>3. (a \in lost) = FALSE
    BY <2>2
  <2>4. PieceAt(order, lost, a) = x
    BY <2>1, <2>3, Zenon DEF PieceAt
  <2> QED BY <1>3, <2>4
<1>6. x \in {log[j] : j \in DOMAIN log}
  BY <1>4, <1>5
<1>7. z \notin {log[j] : j \in DOMAIN log}
  <2> SUFFICES ASSUME NEW j \in DOMAIN log, log[j] = z PROVE FALSE
    OBVIOUS
  <2>1. PieceAt(order, lost, j) = z
    <3> HIDE DEF z, log
    <3> QED BY <1>3, <1>4
  <2>2. z.lost = TRUE /\ z.of = 0
    OBVIOUS
  <2>3. PieceAt(order, lost, j).lost = (j \in lost) /\ PieceAt(order, lost, j).of = order[j][1]
    BY Zenon DEF PieceAt
  <2> HIDE DEF z
  <2>4. j \in lost
    BY <2>1, <2>2, <2>3
  <2>5. j \in DOMAIN order /\ order[j][1] = 0
    BY <1>4, <2>1, <2>2, <2>3
  <2> QED BY <2>4, <2>5 DEF NoneLost
<1> DEFINE L == {log[j] : j \in DOMAIN log}
<1>8. ContentIssues(answer, log)
        = IF x \in L /\ (answer.tag = "unclosed" \/ (answer.tag = "closed" /\ z \in L))
          THEN {<<0, "unclosed_tag">>} ELSE {}
  BY Zenon DEF ContentIssues
<1> HIDE DEF L, x, z, log
<1> QED BY <1>6, <1>7, <1>8 DEF L, log

\* Whatever is said of one and not of the other, is of a call without arguments or of what was lost.
Excused(answer, order, lost, issue) ==
  \/ issue[1] \in DOMAIN answer.calls /\ answer.calls[issue[1]] = "absent"
  \/ issue[1] \in Hit(answer, order, lost)

LEMMA NotHit ==
  ASSUME NEW answer, NEW order, NEW lost, NEW i, i \notin Hit(answer, order, lost)
  PROVE  NoneLost(order, lost, i)
BY DEF Hit, NoneLost

LEMMA CallIssuesAlike ==
  ASSUME NEW answer \in Answers, NEW order \in Orders(answer), NEW lost,
         NEW issue, ~Excused(answer, order, lost, issue)
  PROVE  issue \in CallIssues(answer, Logged(order, lost)) <=> issue \in InCalls(answer.calls)
<1> DEFINE log == Logged(order, lost)
           Own(i) == issue \in {i} \X IssueOf(answer.calls[i])
<1>1. Len(answer.calls) \in Nat /\ DOMAIN answer.calls = 1..Len(answer.calls)
  BY AnswerCalls
<1>2. \A i \in DOMAIN answer.calls : issue[1] = i =>
        Joined(log, i) # <<>> /\ Parsed(answer, log, i) = answer.calls[i]
  <2> SUFFICES ASSUME NEW i \in DOMAIN answer.calls, issue[1] = i
               PROVE  Joined(log, i) # <<>> /\ Parsed(answer, log, i) = answer.calls[i]
    OBVIOUS
  <2>1. NoneLost(order, lost, i) /\ answer.calls[i] # "absent"
    BY NotHit DEF Excused
  <2> QED BY <2>1, CallAlike
<1> HIDE DEF log
<1>3. issue \in CallIssues(answer, log) <=> \E i \in DOMAIN answer.calls : Own(i)
  <2>1. ASSUME issue \in CallIssues(answer, log) PROVE \E i \in DOMAIN answer.calls : Own(i)
    <3>1. PICK i \in DOMAIN answer.calls : issue \in {i} \X IssueOf(Parsed(answer, log, i))
      BY <2>1 DEF CallIssues
    <3>2. issue[1] = i
      BY <3>1
    <3> QED BY <1>2, <3>1, <3>2
  <2>2. ASSUME NEW i \in DOMAIN answer.calls, Own(i) PROVE issue \in CallIssues(answer, log)
    <3>1. issue[1] = i
      BY <2>2
    <3> QED BY <1>2, <2>2, <3>1 DEF CallIssues
  <2> QED BY <2>1, <2>2
<1>4. issue \in InCalls(answer.calls) <=> \E i \in DOMAIN answer.calls : Own(i)
  BY DEF InCalls
<1> QED BY <1>3, <1>4 DEF log

\* The ledger says the same of every answer in every order of its pieces, whatever lines are lost.
LEMMA EveryAnswerAlike == Answers \subseteq Alike
<1> SUFFICES ASSUME NEW answer \in Answers, NEW order \in Orders(answer), NEW lost \in Losses(answer),
                    answer.way # "translated", NEW issue, ~Excused(answer, order, lost, issue)
             PROVE  issue \in IssuesOfStream(answer, order, lost) <=> issue \in IssuesOfBody(answer)
  BY DEF Alike, Excused, IssuesOfStream
<1> DEFINE log == Logged(order, lost)
           reason == InReason(answer)
           read == IF LastLine(answer) \in lost THEN {} ELSE reason
           tag == IF answer.tag = "unclosed" THEN {<<0, "unclosed_tag">>} ELSE {}
<1>1. IssuesOfStream(answer, order, lost) = CallIssues(answer, log) \cup ContentIssues(answer, log) \cup read
  <2> HIDE DEF log, reason
  <2> QED BY DEF IssuesOfStream, log, reason
<1>2. IssuesOfBody(answer) = InCalls(answer.calls) \cup tag \cup reason
  BY DEF IssuesOfBody
<1>3. issue \in CallIssues(answer, log) <=> issue \in InCalls(answer.calls)
  BY CallIssuesAlike
<1>4. issue \in ContentIssues(answer, log) <=> issue \in tag
  <2>1. CASE issue[1] = 0
    <3>1. NoneLost(order, lost, 0)
      BY <2>1, NotHit DEF Excused
    <3>2. ContentIssues(answer, log) = tag
      BY <3>1, ContentAlike
    <3> QED BY <3>2
  <2>2. CASE issue[1] # 0
    <3>1. issue # <<0, "unclosed_tag">>
      BY <2>2
    <3> QED BY <3>1 DEF ContentIssues
  <2> QED BY <2>1, <2>2
<1>5. issue \in read <=> issue \in reason
  <2> SUFFICES ASSUME LastLine(answer) \in lost, issue \in reason PROVE FALSE
    OBVIOUS
  <2>1. issue[1] = ReasonOf(answer)
    BY DEF InReason
  <2>2. ReasonOf(answer) \in Hit(answer, order, lost)
    BY DEF Hit
  <2> QED BY <2>1, <2>2 DEF Excused
<1> HIDE DEF log, reason, read, tag
<1> QED BY <1>1, <1>2, <1>3, <1>4, <1>5

USE StoreAssumption, ContentsAssumption

-----------------------------------------------------------------------------
(* The inductive invariant of the configuration.                           *)

Saving(h) == pc[h] \in {"open", "written"}

Alone(h) == \A g \in Handlers \ {h} : ~Saving(g)

\* The temporary file is the one h has opened, with what h has written so far.
Owns(h) ==
  /\ pc[h] = "open" => temp = Truncated
  /\ pc[h] = "written" => temp = updated[h]

\* Before two updates meet in the temporary file, whoever saves is alone and owns it.
SavesApart ==
  ~collided =>
    /\ FileWhole
    /\ \A h \in Handlers : Saving(h) => Alone(h) /\ Owns(h) /\ handle[h] = "temp"

\* Before one update overtakes another, all that are under way started from what is in
\* the file; whoever saves alone owns the temporary file, and what is in it otherwise
\* is at worst the text of somebody who is still under way.
InTurn ==
  ~overtaken =>
    /\ file \in Configs \cup {None}
    /\ Loaded = intended
    /\ \A h \in Handlers :
         /\ handle[h] \in {"temp", None}
         /\ pc[h] # "idle" => updated[h] = Apply(request[h], intended)
         /\ Alone(h) => Owns(h)
         /\ pc[h] = "written" =>
              \/ temp \in {Truncated, Garbled}
              \/ \E g \in Handlers : pc[g] # "idle" /\ temp = updated[g]

IInv == TypeOK /\ SavesApart /\ InTurn

-----------------------------------------------------------------------------
(* Configurations and updates.                                             *)

LEMMA PartialFunctions ==
  ASSUME NEW S, NEW T, NEW f
  PROVE  f \in Partial(S, T) <=> f \in [DOMAIN f -> T] /\ DOMAIN f \in SUBSET S
BY DEF Partial

LEMMA BlankConfig == Blank \in Configs
<1>1. <<>> \in Partial(Endpoints, Keys \cup {None}) /\ <<>> \in Partial(Models, Prices)
  <2>1. DOMAIN <<>> = {}
    OBVIOUS
  <2>2. \A T : <<>> \in [{} -> T]
    BY EmptySeq, LenProperties
  <2> QED BY <2>1, <2>2, PartialFunctions
<1> QED BY <1>1 DEF Blank, Configs

\* What Apply does, by kind of update.
LEMMA ApplyEndpoints ==
  ASSUME NEW update \in Updates, update.kind = "endpoints", NEW old \in Configs
  PROVE  /\ Apply(update, old) \in Configs
         /\ Apply(update, Apply(update, old)) = Apply(update, old)
<1> DEFINE sent == update.endpoints
           kept == [name \in DOMAIN sent |-> KeptKey(old, name, sent[name])]
           new == [old EXCEPT !.endpoints = kept]
<1>1. sent \in [DOMAIN sent -> Keys \cup {None}] /\ DOMAIN sent \in SUBSET Endpoints
  BY PartialFunctions DEF Updates
<1>2. /\ old.endpoints \in [DOMAIN old.endpoints -> Keys \cup {None}]
      /\ old = [endpoints |-> old.endpoints, sections |-> old.sections, pricing |-> old.pricing]
      /\ old.sections \in [Sections -> Settings] /\ old.pricing \in Partial(Models, Prices)
  BY PartialFunctions DEF Configs
<1>3. kept \in [DOMAIN sent -> Keys \cup {None}]
  BY <1>1, <1>2 DEF KeptKey
<1>4. kept \in Partial(Endpoints, Keys \cup {None})
  <2>1. DOMAIN kept = DOMAIN sent
    OBVIOUS
  <2> QED BY <1>1, <1>3, <2>1, PartialFunctions
<1>5. Apply(update, old) = new
  BY DEF Apply
<1>6. new = [endpoints |-> kept, sections |-> old.sections, pricing |-> old.pricing]
  BY <1>2
<1>7. new \in Configs
  BY <1>2, <1>4, <1>6 DEF Configs
<1>8. \A name \in DOMAIN sent : KeptKey(new, name, sent[name]) = kept[name]
  BY <1>6 DEF KeptKey
<1>9. Apply(update, new) = new
  <2>1. Apply(update, new) = [new EXCEPT !.endpoints = [name \in DOMAIN sent |-> KeptKey(new, name, sent[name])]]
    BY DEF Apply
  <2>2. [name \in DOMAIN sent |-> KeptKey(new, name, sent[name])] = kept
    BY <1>8
  <2> QED BY <1>6, <2>1, <2>2
<1> QED BY <1>5, <1>7, <1>9

LEMMA ApplySection ==
  ASSUME NEW update \in Updates, update.kind = "section", NEW old \in Configs
  PROVE  /\ Apply(update, old) \in Configs
         /\ Apply(update, Apply(update, old)) = Apply(update, old)
         /\ Apply(update, old).endpoints = old.endpoints
<1> DEFINE new == [old EXCEPT !.sections[update.section] = update.settings]
<1>1. Apply(update, old) = new /\ Apply(update, new) = [new EXCEPT !.sections[update.section] = update.settings]
  BY DEF Apply
<1>2. update.section \in Sections /\ update.settings \in Settings
  BY DEF Updates
<1>3. new \in Configs /\ new.endpoints = old.endpoints
  BY <1>2 DEF Configs
<1>4. [new EXCEPT !.sections[update.section] = update.settings] = new
  BY <1>2 DEF Configs
<1> QED BY <1>1, <1>3, <1>4

LEMMA ApplyPrice ==
  ASSUME NEW update \in Updates, update.kind = "price", NEW old \in Configs
  PROVE  /\ Apply(update, old) \in Configs
         /\ Apply(update, Apply(update, old)) = Apply(update, old)
         /\ Apply(update, old).endpoints = old.endpoints
<1> DEFINE Priced(prices) == [m \in DOMAIN prices \cup {update.model} |->
                               IF m = update.model THEN update.price ELSE prices[m]]
           new == [old EXCEPT !.pricing = Priced(old.pricing)]
<1>1. Apply(update, old) = new /\ Apply(update, new) = [new EXCEPT !.pricing = Priced(new.pricing)]
  BY DEF Apply
<1>2. update.model \in Models /\ update.price \in Prices
  BY DEF Updates
<1>3. old.pricing \in [DOMAIN old.pricing -> Prices] /\ DOMAIN old.pricing \in SUBSET Models
  BY PartialFunctions DEF Configs
<1>4. Priced(old.pricing) \in Partial(Models, Prices)
  <2>1. /\ DOMAIN Priced(old.pricing) = DOMAIN old.pricing \cup {update.model}
        /\ Priced(old.pricing) \in [DOMAIN old.pricing \cup {update.model} -> Prices]
    BY <1>2, <1>3
  <2> QED BY <1>2, <1>3, <2>1, PartialFunctions
<1>5. new.pricing = Priced(old.pricing) /\ new.endpoints = old.endpoints /\ new \in Configs
  BY <1>4 DEF Configs
<1>6. Priced(Priced(old.pricing)) = Priced(old.pricing)
  OBVIOUS
<1>7. [new EXCEPT !.pricing = Priced(old.pricing)] = new
  BY DEF Configs
<1> QED BY <1>1, <1>5, <1>6, <1>7

LEMMA ApplyUnprice ==
  ASSUME NEW update \in Updates, update.kind = "unprice", NEW old \in Configs
  PROVE  /\ Apply(update, old) \in Configs
         /\ Apply(update, Apply(update, old)) = Apply(update, old)
         /\ Apply(update, old).endpoints = old.endpoints
         /\ update.model \notin DOMAIN old.pricing => Apply(update, old) = old
<1> DEFINE Rest(prices) == [m \in DOMAIN prices \ {update.model} |-> prices[m]]
           new == [old EXCEPT !.pricing = Rest(old.pricing)]
<1>1. Apply(update, old) = new /\ Apply(update, new) = [new EXCEPT !.pricing = Rest(new.pricing)]
  BY DEF Apply
<1>3. old.pricing \in [DOMAIN old.pricing -> Prices] /\ DOMAIN old.pricing \in SUBSET Models
  BY PartialFunctions DEF Configs
<1>4. Rest(old.pricing) \in Partial(Models, Prices)
  <2>1. /\ DOMAIN Rest(old.pricing) = DOMAIN old.pricing \ {update.model}
        /\ Rest(old.pricing) \in [DOMAIN old.pricing \ {update.model} -> Prices]
    BY <1>3
  <2> QED BY <1>3, <2>1, PartialFunctions
<1>5. new.pricing = Rest(old.pricing) /\ new.endpoints = old.endpoints /\ new \in Configs
  BY <1>4 DEF Configs
<1>6. Rest(Rest(old.pricing)) = Rest(old.pricing)
  OBVIOUS
<1>7. [new EXCEPT !.pricing = Rest(old.pricing)] = new
  BY DEF Configs
<1>8. ASSUME update.model \notin DOMAIN old.pricing PROVE new = old
  <2>1. Rest(old.pricing) = old.pricing
    BY <1>3, <1>8
  <2> QED BY <2>1 DEF Configs
<1> QED BY <1>1, <1>5, <1>6, <1>7, <1>8

\* An update makes a configuration of a configuration, repeating it changes nothing, and
\* an endpoint that stays keeps its key.
LEMMA ApplyProperties ==
  ASSUME NEW update \in Updates, NEW old \in Configs
  PROVE  /\ Apply(update, old) \in Configs
         /\ Apply(update, Apply(update, old)) = Apply(update, old)
         /\ Idle(update, old) => Apply(update, old) = old
         /\ \A name \in DOMAIN old.endpoints \cap DOMAIN Apply(update, old).endpoints :
              old.endpoints[name] # None => Apply(update, old).endpoints[name] # None
<1>1. update.kind \in {"endpoints", "section", "price", "unprice"}
  BY DEF Updates
<1>2. CASE update.kind = "endpoints"
  <2>1. /\ DOMAIN Apply(update, old).endpoints = DOMAIN update.endpoints
        /\ \A name \in DOMAIN update.endpoints :
             Apply(update, old).endpoints[name] = KeptKey(old, name, update.endpoints[name])
    BY <1>2 DEF Apply, Configs
  <2>2. ~Idle(update, old)
    BY <1>2 DEF Idle
  <2> QED BY <1>2, <2>1, <2>2, ApplyEndpoints DEF KeptKey
<1>3. CASE update.kind = "section"
  BY <1>3, ApplySection DEF Idle
<1>4. CASE update.kind = "price"
  BY <1>4, ApplyPrice DEF Idle
<1>5. CASE update.kind = "unprice"
  BY <1>5, ApplyUnprice DEF Idle
<1> QED BY <1>1, <1>2, <1>3, <1>4, <1>5

-----------------------------------------------------------------------------
(* The steps.                                                              *)

\* Nobody who loads the file finds it garbled before both kinds of race.
LEMMA LoadedConfig ==
  ASSUME IInv, file # Garbled
  PROVE  Loaded \in Configs
BY BlankConfig DEF IInv, TypeOK, Contents, Loaded

LEMMA LoadKeeps ==
  ASSUME IInv, NEW h \in Handlers, NEW update \in Updates, Load(h, update)
  PROVE  IInv'
<1>1. /\ TypeOK /\ SavesApart /\ InTurn /\ pc[h] = "idle"
      /\ request[h] = None /\ updated[h] = None /\ handle[h] = None
      /\ UNCHANGED <<file, temp, crashes, overtaken, collided>>
  BY DEF Load, IInv, TypeOK
<1>2. Loaded' = Loaded
  BY <1>1 DEF Loaded
<1>3. CASE file = Garbled
  <2>1. collided /\ overtaken
    BY <1>1, <1>3 DEF SavesApart, InTurn, FileWhole, Contents
  <2>2. /\ UNCHANGED intended /\ answered' = [answered EXCEPT ![h] = "error"]
        /\ pc' = pc /\ request' = request /\ updated' = updated /\ handle' = handle
    <3>1. Finish(h, "error") /\ UNCHANGED intended
      BY <1>3 DEF Load
    <3> QED BY <1>1, <3>1 DEF Finish, TypeOK
  <2>3. TypeOK'
    BY <1>1, <2>2 DEF TypeOK
  <2> QED BY <1>1, <2>1, <2>3 DEF IInv, SavesApart, InTurn
<1>4. CASE file # Garbled /\ Idle(update, Loaded)
  <2>1. /\ answered' = [answered EXCEPT ![h] = "done"]
        /\ intended' = IF overtaken THEN Blank ELSE Apply(update, intended)
        /\ pc' = pc /\ request' = request /\ updated' = updated /\ handle' = handle
    BY <1>1, <1>4, ZenonT(60) DEF Load, Finish, Intend, TypeOK
  <2>2. ~overtaken => intended' = intended
    BY <1>1, <1>4, <2>1, ApplyProperties DEF InTurn, TypeOK
  <2>3. intended' \in Configs
    BY <1>1, <2>1, ApplyProperties, BlankConfig DEF TypeOK
  <2>4. TypeOK'
    BY <1>1, <2>1, <2>3 DEF TypeOK
  <2>5. SavesApart'
    BY <1>1, <2>1 DEF SavesApart, FileWhole, Saving, Alone, Owns, TypeOK
  <2>6. InTurn'
    BY <1>1, <1>2, <2>1, <2>2 DEF InTurn, Saving, Alone, Owns
  <2> QED BY <2>4, <2>5, <2>6 DEF IInv
<1>5. CASE file # Garbled /\ ~Idle(update, Loaded)
  <2>1. /\ pc' = [pc EXCEPT ![h] = "loaded"]
        /\ request' = [request EXCEPT ![h] = update]
        /\ updated' = [updated EXCEPT ![h] = Apply(update, Loaded)]
        /\ answered' = [answered EXCEPT ![h] = None]
        /\ handle' = handle /\ intended' = intended
    BY <1>5 DEF Load
  <2>2. /\ Apply(update, Loaded) \in Configs
        /\ Apply(update, Apply(update, Loaded)) = Apply(update, Loaded)
    BY <1>5, LoadedConfig, ApplyProperties
  <2>3. /\ pc'[h] = "loaded" /\ request'[h] = update /\ updated'[h] = Apply(update, Loaded)
        /\ \A g \in Handlers \ {h} : pc'[g] = pc[g] /\ request'[g] = request[g] /\ updated'[g] = updated[g]
    BY <1>1, <2>1 DEF TypeOK
  <2>4. TypeOK'
    <3>1. /\ pc' \in [Handlers -> {"idle", "loaded", "open", "written"}]
          /\ request' \in [Handlers -> Updates \cup {None}] /\ updated' \in [Handlers -> Configs \cup {None}]
          /\ answered' \in [Handlers -> {"done", "error", None}]
      BY <1>1, <2>1, <2>2 DEF TypeOK
    <3>2. \A g \in Handlers :
            IF pc'[g] = "idle" THEN request'[g] = None /\ updated'[g] = None /\ handle'[g] = None
            ELSE /\ request'[g] \in Updates /\ updated'[g] \in Configs
                 /\ Apply(request'[g], updated'[g]) = updated'[g]
                 /\ (handle'[g] = None) <=> (pc'[g] = "loaded")
      BY <1>1, <2>1, <2>2, <2>3 DEF TypeOK
    <3> QED BY <1>1, <2>1, <3>1, <3>2 DEF TypeOK
  <2>5. SavesApart'
    BY <1>1, <2>1, <2>3 DEF SavesApart, FileWhole, Saving, Alone, Owns, TypeOK
  <2>6. InTurn'
    <3> SUFFICES ASSUME ~overtaken PROVE InTurn'
      BY <1>1 DEF InTurn
    <3>1. \A g \in Handlers : Alone(g)' => Alone(g)
      BY <1>1, <2>3 DEF Alone, Saving
    <3> QED BY <1>1, <1>2, <2>1, <2>3, <3>1 DEF InTurn, Owns
  <2> QED BY <2>4, <2>5, <2>6 DEF IInv
<1> QED BY <1>3, <1>4, <1>5

LEMMA OpenKeeps ==
  ASSUME IInv, NEW h \in Handlers, Open(h)
  PROVE  IInv'
<1>1. /\ TypeOK /\ SavesApart /\ InTurn /\ pc[h] = "loaded"
      /\ pc' = [pc EXCEPT ![h] = "open"] /\ handle' = [handle EXCEPT ![h] = "temp"]
      /\ temp' = Truncated
      /\ collided' = (collided \/ \E g \in Handlers \ {h} : Saving(g))
      /\ UNCHANGED <<file, request, updated, answered, crashes, intended, overtaken>>
  BY DEF Open, IInv, Saving
<1>2. /\ pc'[h] = "open" /\ handle'[h] = "temp" /\ handle[h] = None
      /\ \A g \in Handlers \ {h} : pc'[g] = pc[g] /\ handle'[g] = handle[g]
  BY <1>1 DEF TypeOK
<1>3. TypeOK'
  BY <1>1, <1>2 DEF TypeOK, Contents
<1>4. SavesApart'
  BY <1>1, <1>2 DEF SavesApart, FileWhole, Saving, Alone, Owns
<1>5. InTurn'
  <2> SUFFICES ASSUME ~overtaken PROVE InTurn'
    BY <1>1 DEF InTurn
  <2>1. \A g \in Handlers : Alone(g)' => g = h
    BY <1>2 DEF Alone, Saving
  <2> QED BY <1>1, <1>2, <2>1 DEF InTurn, Owns, Loaded
<1> QED BY <1>3, <1>4, <1>5 DEF IInv

LEMMA WriteKeeps ==
  ASSUME IInv, NEW h \in Handlers, Write(h)
  PROVE  IInv'
<1>1. /\ TypeOK /\ SavesApart /\ InTurn /\ pc[h] = "open"
      /\ pc' = [pc EXCEPT ![h] = "written"]
      /\ IF handle[h] = "temp" THEN temp' \in Overwritten(temp, updated[h]) ELSE temp' = temp
      /\ IF handle[h] = "file" THEN file' \in Overwritten(file, updated[h]) ELSE file' = file
      /\ UNCHANGED <<request, updated, handle, answered, crashes, intended, overtaken, collided>>
  BY DEF Write, IInv, historyVars
<1>2. /\ pc'[h] = "written" /\ \A g \in Handlers \ {h} : pc'[g] = pc[g]
      /\ updated[h] \in Configs /\ handle[h] # None
  BY <1>1 DEF TypeOK
<1>3. TypeOK'
  BY <1>1, <1>2 DEF TypeOK, Contents, Overwritten
<1>4. SavesApart'
  <2> SUFFICES ASSUME ~collided PROVE SavesApart'
    BY <1>1 DEF SavesApart
  <2>1. FileWhole /\ Alone(h) /\ temp = Truncated /\ handle[h] = "temp"
    BY <1>1 DEF SavesApart, Saving, Owns
  <2>2. temp' = updated[h] /\ file' = file
    BY <1>1, <2>1 DEF Overwritten
  <2>3. \A g \in Handlers : Saving(g)' => g = h
    BY <1>2, <2>1 DEF Alone, Saving
  <2> QED BY <1>1, <1>2, <2>1, <2>2, <2>3 DEF SavesApart, FileWhole, Saving, Alone, Owns
<1>5. InTurn'
  <2> SUFFICES ASSUME ~overtaken PROVE InTurn'
    BY <1>1 DEF InTurn
  <2>1. handle[h] = "temp" /\ file' = file /\ temp' \in {updated[h], Garbled}
    BY <1>1, <1>2 DEF InTurn, Overwritten
  <2>2. \A g \in Handlers : Alone(g)' => g = h /\ Alone(h)
    BY <1>2 DEF Alone, Saving
  <2>3. Alone(h) => temp' = updated[h]
    BY <1>1, <2>1 DEF InTurn, Owns, Overwritten
  <2> QED BY <1>1, <1>2, <2>1, <2>2, <2>3 DEF InTurn, Owns, Loaded
<1> QED BY <1>3, <1>4, <1>5 DEF IInv

LEMMA ReplaceKeeps ==
  ASSUME IInv, NEW h \in Handlers, Replace(h)
  PROVE  IInv'
<1>1. /\ TypeOK /\ SavesApart /\ InTurn /\ pc[h] = "written"
      /\ request[h] \in Updates /\ updated[h] \in Configs /\ handle[h] # None
  BY DEF Replace, IInv, TypeOK
<1>2. /\ pc' = [pc EXCEPT ![h] = "idle"]
      /\ request' = [request EXCEPT ![h] = None]
      /\ updated' = [updated EXCEPT ![h] = None]
      /\ collided' = collided
  BY DEF Replace, Finish, historyVars
<1>3. /\ pc'[h] = "idle" /\ request'[h] = None /\ updated'[h] = None
      /\ \A g \in Handlers \ {h} : pc'[g] = pc[g] /\ request'[g] = request[g] /\ updated'[g] = updated[g]
  BY <1>1, <1>2 DEF TypeOK
<1>4. CASE temp = None
  <2>1. /\ handle' = [handle EXCEPT ![h] = None] /\ answered' = [answered EXCEPT ![h] = "error"]
        /\ UNCHANGED <<file, temp, intended, overtaken>>
    BY <1>4 DEF Replace, Finish, historyVars
  <2>2. collided /\ overtaken
    <3>1. temp \notin Configs \cup {Truncated, Garbled}
      BY <1>4 DEF Contents
    <3>2. temp # updated[h] /\ \A g \in Handlers : pc[g] # "idle" => temp # updated[g]
      BY <1>1, <3>1 DEF TypeOK
    <3> QED BY <1>1, <3>1, <3>2 DEF SavesApart, InTurn, Saving, Owns
  <2>3. TypeOK'
    <3>1. handle'[h] = None /\ \A g \in Handlers \ {h} : handle'[g] = handle[g]
      BY <1>1, <2>1 DEF TypeOK
    <3>2. /\ pc' \in [Handlers -> {"idle", "loaded", "open", "written"}]
          /\ request' \in [Handlers -> Updates \cup {None}] /\ updated' \in [Handlers -> Configs \cup {None}]
          /\ handle' \in [Handlers -> {"temp", "file", "nowhere", None}]
          /\ answered' \in [Handlers -> {"done", "error", None}]
      BY <1>1, <1>2, <2>1 DEF TypeOK
    <3> QED BY <1>1, <1>3, <2>1, <3>1, <3>2 DEF TypeOK
  <2> QED BY <1>1, <1>2, <2>1, <2>2, <2>3 DEF IInv, SavesApart, InTurn
<1>5. CASE temp # None
  <2>1. /\ file' = temp /\ temp' = None
        /\ handle' = [Renamed EXCEPT ![h] = None]
        /\ answered' = [answered EXCEPT ![h] = "done"]
        /\ overtaken' = (overtaken \/ \E g \in Handlers \ {h} : pc[g] # "idle")
        /\ intended' = IF overtaken' THEN Blank ELSE Apply(request[h], intended)
    BY <1>5 DEF Replace, Intend
  <2>2. /\ handle' \in [Handlers -> {"temp", "file", "nowhere", None}] /\ handle'[h] = None
        /\ \A g \in Handlers \ {h} : /\ handle'[g] = None <=> handle[g] = None
                                     /\ handle'[g] # "temp"
    BY <1>1, <2>1 DEF Renamed, TypeOK
  <2>3. TypeOK'
    <3>1. intended' \in Configs /\ file' \in Contents
      BY <1>1, <1>5, <2>1, BlankConfig, ApplyProperties DEF TypeOK
    <3>2. /\ pc' \in [Handlers -> {"idle", "loaded", "open", "written"}]
          /\ request' \in [Handlers -> Updates \cup {None}] /\ updated' \in [Handlers -> Configs \cup {None}]
          /\ answered' \in [Handlers -> {"done", "error", None}]
      BY <1>1, <1>2, <2>1 DEF TypeOK
    <3> QED BY <1>1, <1>3, <2>1, <2>2, <3>1, <3>2 DEF TypeOK
  <2>4. SavesApart'
    <3> SUFFICES ASSUME ~collided PROVE SavesApart'
      BY <1>2 DEF SavesApart
    <3>1. FileWhole /\ Alone(h) /\ temp = updated[h]
      BY <1>1 DEF SavesApart, Saving, Owns
    <3>2. \A g \in Handlers : ~Saving(g)'
      BY <1>3, <3>1 DEF Alone, Saving
    <3>3. \A g \in Handlers : answered'[g] # "error"
      BY <1>1, <2>1, <3>1 DEF FileWhole, TypeOK
    <3> QED BY <1>1, <2>1, <3>1, <3>2, <3>3 DEF SavesApart, FileWhole
  <2>5. InTurn'
    <3> SUFFICES ASSUME ~overtaken' PROVE InTurn'
      BY DEF InTurn
    <3>1. ~overtaken /\ \A g \in Handlers \ {h} : pc[g] = "idle"
      BY <2>1
    <3>2. Alone(h)
      BY <3>1 DEF Alone, Saving
    <3>3. temp = updated[h] /\ updated[h] = Apply(request[h], intended)
      BY <1>1, <3>1, <3>2 DEF InTurn, Owns
    <3>4. file' = intended' /\ file' \in Configs
      BY <1>1, <2>1, <3>3
    <3>5. Loaded' = intended'
      BY <3>4 DEF Loaded, Contents
    <3>6. \A g \in Handlers : pc'[g] = "idle" /\ handle'[g] = None
      BY <1>1, <1>3, <2>2, <3>1 DEF TypeOK
    <3> QED BY <3>4, <3>5, <3>6 DEF InTurn, Owns
  <2> QED BY <2>3, <2>4, <2>5 DEF IInv
<1> QED BY <1>4, <1>5

LEMMA CrashKeeps ==
  ASSUME IInv, Crash
  PROVE  IInv'
<1>1. /\ TypeOK /\ SavesApart /\ InTurn
      /\ pc' = [h \in Handlers |-> "idle"] /\ request' = [h \in Handlers |-> None]
      /\ updated' = [h \in Handlers |-> None] /\ handle' = [h \in Handlers |-> None]
      /\ answered' = [h \in Handlers |-> None]
      /\ UNCHANGED <<file, temp, intended, overtaken, collided>>
  BY DEF Crash, IInv, historyVars
<1>2. TypeOK'
  BY <1>1 DEF TypeOK
<1>3. SavesApart'
  BY <1>1 DEF SavesApart, FileWhole, Saving
<1>4. InTurn'
  BY <1>1 DEF InTurn, Owns, Loaded
<1> QED BY <1>2, <1>3, <1>4 DEF IInv

LEMMA StepKeeps == IInv /\ [Next]_vars => IInv'
<1> SUFFICES ASSUME IInv, [Next]_vars PROVE IInv'
  OBVIOUS
<1>1. ASSUME NEW h \in Handlers, Save(h) PROVE IInv'
  BY <1>1, OpenKeeps, WriteKeeps, ReplaceKeeps DEF Save
<1>2. ASSUME NEW h \in Handlers, NEW update \in Updates, Load(h, update) PROVE IInv'
  BY <1>2, LoadKeeps
<1>3. CASE Crash
  BY <1>3, CrashKeeps
<1>4. CASE UNCHANGED vars
  BY <1>4 DEF vars, handlerVars, historyVars, IInv, TypeOK, SavesApart, InTurn, FileWhole, Saving, Alone,
              Owns, Loaded
<1> QED BY <1>1, <1>2, <1>3, <1>4 DEF Next

-----------------------------------------------------------------------------
(* The theorems.                                                           *)

\* The inductive invariant of the configuration store.
THEOREM Invariance == Spec => []IInv
<1>1. Init => IInv
  <2> SUFFICES ASSUME Init PROVE IInv
    OBVIOUS
  <2>1. Loaded = intended /\ intended \in Configs
    BY BlankConfig DEF Init, Loaded, Contents
  <2>2. TypeOK
    BY <2>1 DEF Init, TypeOK, Contents
  <2>3. SavesApart /\ InTurn
    BY <2>1 DEF Init, SavesApart, InTurn, FileWhole, Saving, Owns
  <2> QED BY <2>2, <2>3 DEF IInv
<1> QED BY <1>1, StepKeeps, PTL DEF Spec

\* Type correctness; every update that is going to be saved is in what will be saved.
THEOREM TypeCorrectness == Spec => []TypeOK
<1>1. IInv => TypeOK
  BY DEF IInv
<1> QED BY <1>1, Invariance, PTL

\* For any number of threads, any configuration and any number of crashes: unless two updates
\* had the temporary file open at once, the file is whole and no update fails.
THEOREM SavingIsAtomic == Spec => []FileWhole
<1>1. IInv => FileWhole
  BY DEF IInv, SavesApart, FileWhole
<1> QED BY <1>1, Invariance, PTL

\* For any number of threads, any configuration and any number of crashes: unless one update
\* was saved while another was under way, the file is what all updates answered make of it.
THEOREM UpdatesKept == Spec => []NoUpdateLost
<1>1. IInv => NoUpdateLost
  BY DEF IInv, InTurn, NoUpdateLost
<1> QED BY <1>1, Invariance, PTL

\* No step takes an endpoint's key away, unless an update has overtaken another before: not
\* even the step in which that happens for the first time.
THEOREM KeysStay == Spec => KeysKept
<1> DEFINE Kept == ~overtaken /\ file \in Configs /\ file' \in Configs =>
                     \A name \in DOMAIN file.endpoints \cap DOMAIN file'.endpoints :
                       file.endpoints[name] # None => file'.endpoints[name] # None
<1>1. IInv /\ [Next]_vars => [Kept]_vars
  <2> SUFFICES ASSUME IInv, [Next]_vars, ~overtaken, file \in Configs, file' \in Configs, file' # file
               PROVE  \A name \in DOMAIN file.endpoints \cap DOMAIN file'.endpoints :
                        file.endpoints[name] # None => file'.endpoints[name] # None
    OBVIOUS
  <2>1. PICK h \in Handlers : Write(h) \/ Replace(h)
    BY DEF Next, Save, Load, Open, Crash, vars
  <2>2. pc[h] = "written" /\ file' = temp
    <3>1. handle[h] # "file"
      BY DEF IInv, InTurn
    <3>2. ~Write(h)
      BY <3>1 DEF Write
    <3> QED BY <2>1, <3>2 DEF Replace
  <2>3. PICK g \in Handlers : pc[g] # "idle" /\ temp = updated[g]
    BY <2>2 DEF IInv, InTurn
  <2>4. intended = file
    BY DEF IInv, InTurn, Loaded, Contents
  <2>5. request[g] \in Updates /\ temp = Apply(request[g], file)
    BY <2>3, <2>4 DEF IInv, InTurn, TypeOK
  <2> QED BY <2>2, <2>5, ApplyProperties
<1> QED BY <1>1, Invariance, PTL DEF Spec, KeysKept

USE TracesAssumption, LimitAssumption, MaxTearsAssumption

-----------------------------------------------------------------------------
(* The inductive invariant of the ledger.                                  *)

\* The entry that begins an unended line was not written in full.
TornUnrecorded == torn => lines[Len(lines)].of \notin recorded

\* A line that is torn is a loss to come.
LossAhead == Cardinality(Unreadable) + (IF torn THEN 1 ELSE 0) <= tears

\* What a client has yet to see is shown behind the offset it has reached.
Behind(t, offset) == \E i \in Shown : lines[i].of = t /\ Newer(i, Shown) >= offset

PagerOK ==
  /\ pager.phase = "idle" => pager.offset = 0 /\ pager.seen = {}
  /\ pager.phase = "paging" /\ ~vanished =>
       \A t \in pager.start \ pager.seen : Behind(t, pager.offset)

LedgerInv == LedgerTypeOK /\ TornUnrecorded /\ LossAhead /\ PagerOK /\ PagesMissNothing

LEMMA LedgerInitEstablishes == LedgerInit => LedgerInv
<1> SUFFICES ASSUME LedgerInit PROVE LedgerInv
  OBVIOUS
<1>1. LedgerTypeOK
  <2>1. pager \in Pager
    BY DEF LedgerInit, Pager
  <2>2. lines \in Seq(Line)
    BY DEF LedgerInit
  <2>3. torn \in BOOLEAN /\ ~torn /\ vanished \in BOOLEAN
    BY DEF LedgerInit
  <2>4. mangled \in 0..writes /\ writes \in Nat /\ tears \in 0..MaxTears
    BY DEF LedgerInit
  <2>5. pending \subseteq Traces /\ recorded \subseteq Traces \ pending
    BY DEF LedgerInit
  <2> QED BY <2>1, <2>2, <2>3, <2>4, <2>5 DEF LedgerTypeOK
<1>2. Unreadable = {}
  BY DEF LedgerInit, Unreadable
<1>3. LossAhead
  BY <1>2, FS_EmptySet DEF LedgerInit, LossAhead
<1> QED BY <1>1, <1>3 DEF LedgerInv, LedgerInit, TornUnrecorded, PagerOK, PagesMissNothing

-----------------------------------------------------------------------------
(* Text at the end of the file.                                            *)

\* The file after Extend, line by line.
Extended(t, sound) ==
  /\ lines' \in Seq(Line) /\ lines' # <<>>
  /\ torn => Len(lines') = Len(lines)
  /\ ~torn => Len(lines') = Len(lines) + 1
  /\ \A i \in 1..Len(lines) : lines'[i].of = lines[i].of
  /\ \A i \in 1..Len(lines) : ~torn \/ i # Len(lines) => lines'[i] = lines[i]
  /\ torn => ~lines'[Len(lines)].sound
  /\ ~torn => lines'[Len(lines) + 1].of = t /\ (lines'[Len(lines) + 1].sound <=> sound)

LEMMA ExtendedFile ==
  ASSUME LedgerTypeOK, NEW t \in Traces, NEW sound \in BOOLEAN, Extend(t, sound)
  PROVE  Extended(t, sound)
<1>1. CASE torn
  <2> DEFINE n == Len(lines)
  <2>1. lines \in Seq(Line) /\ n \in Nat /\ n \in 1..n /\ DOMAIN lines = 1..n
    BY <1>1 DEF LedgerTypeOK
  <2>2. lines[n] \in Line
    BY <2>1
  <2>3. lines' = [lines EXCEPT ![n].sound = FALSE]
    BY <1>1 DEF Extend
  <2> HIDE DEF n
  <2>4. [lines[n] EXCEPT !.sound = FALSE] \in Line
    BY <2>2 DEF Line
  <2>5. lines' = [lines EXCEPT ![n] = [lines[n] EXCEPT !.sound = FALSE]]
    BY <2>3
  <2>6. lines' \in Seq(Line) /\ Len(lines') = n
    BY <2>1, <2>4, <2>5 DEF n
  <2>7. /\ \A i \in 1..n : i # n => lines'[i] = lines[i]
        /\ lines'[n] = [lines[n] EXCEPT !.sound = FALSE]
    BY <2>1, <2>5
  <2>8. lines'[n].of = lines[n].of /\ ~lines'[n].sound
    BY <2>2, <2>7 DEF Line
  <2>9. lines' # <<>> /\ Len(lines') = Len(lines)
    BY <1>1, <2>1, <2>6 DEF n
  <2>10. \A i \in 1..Len(lines) : lines'[i].of = lines[i].of
    BY <2>7, <2>8 DEF n
  <2>11. \A i \in 1..Len(lines) : ~torn \/ i # Len(lines) => lines'[i] = lines[i]
    BY <1>1, <2>7 DEF n
  <2>12. torn => ~lines'[Len(lines)].sound
    BY <2>8 DEF n
  <2> QED BY <1>1, <2>6, <2>9, <2>10, <2>11, <2>12 DEF Extended
<1>2. CASE ~torn
  <2>1. lines \in Seq(Line) /\ [of |-> t, sound |-> sound] \in Line
    BY DEF LedgerTypeOK, Line
  <2>2. lines' = Append(lines, [of |-> t, sound |-> sound])
    BY <1>2 DEF Extend
  <2>3. lines' \in Seq(Line) /\ lines' # <<>> /\ Len(lines') = Len(lines) + 1
    BY <2>1, <2>2
  <2>4. \A i \in 1..Len(lines) : lines'[i] = lines[i]
    BY <2>1, <2>2
  <2>5. lines'[Len(lines) + 1] = [of |-> t, sound |-> sound]
    BY <2>1, <2>2
  <2>6. lines'[Len(lines) + 1].of = t /\ (lines'[Len(lines) + 1].sound <=> sound)
    BY <2>5
  <2> QED BY <1>2, <2>3, <2>4, <2>6 DEF Extended
<1> QED BY <1>1, <1>2

\* What was listed still is, but for what begins the line that had no end.
LEMMA ExtendedListed ==
  ASSUME LedgerTypeOK, NEW t \in Traces, NEW sound \in BOOLEAN, Extended(t, sound)
  PROVE  /\ \A u \in Listed : u \in Listed' \/ (torn /\ u = lines[Len(lines)].of)
         /\ ~torn /\ sound => t \in Listed'
<1>1. lines \in Seq(Line) /\ Len(lines) \in Nat /\ DOMAIN lines = 1..Len(lines)
  BY DEF LedgerTypeOK
<1>2. lines' \in Seq(Line) /\ DOMAIN lines' = 1..Len(lines') /\ Len(lines') \in Nat
  BY DEF Extended
<1>0. /\ Len(lines') = Len(lines) \/ Len(lines') = Len(lines) + 1
      /\ ~torn => Len(lines') = Len(lines) + 1
  BY Zenon DEF Extended
<1>3. ASSUME NEW u \in Listed PROVE u \in Listed' \/ (torn /\ u = lines[Len(lines)].of)
  <2>1. PICK i \in 1..Len(lines) : lines[i].sound /\ lines[i].of = u
    BY <1>1 DEF Listed
  <2>2. CASE torn /\ i = Len(lines)
    BY <2>1, <2>2
  <2>3. CASE ~torn \/ i # Len(lines)
    <3>1. lines'[i] = lines[i]
      BY <2>3, Zenon DEF Extended
    <3>2. i \in DOMAIN lines'
      <4>1. Len(lines) \in Nat /\ Len(lines') \in Nat /\ i \in 1..Len(lines)
        BY <1>1, <1>2, <2>1
      <4>2. Len(lines') = Len(lines) \/ Len(lines') = Len(lines) + 1
        BY <1>0
      <4>3. i \in 1..Len(lines')
        BY <4>1, <4>2
      <4> QED BY <1>2, <4>3
    <3> QED BY <2>1, <3>1, <3>2 DEF Listed
  <2> QED BY <2>2, <2>3
<1>4. ASSUME ~torn, sound PROVE t \in Listed'
  <2>0. Len(lines') = Len(lines) + 1
    BY <1>0, <1>4
  <2>1. Len(lines) + 1 \in DOMAIN lines'
    BY <1>1, <1>2, <2>0
  <2>2. lines'[Len(lines) + 1].of = t /\ lines'[Len(lines) + 1].sound
    BY <1>4, Zenon DEF Extended
  <2> QED BY <2>1, <2>2 DEF Listed
<1> QED BY <1>3, <1>4

-----------------------------------------------------------------------------
(* Losses.                                                                 *)

UnreadableCounted ==
  /\ Unreadable \in SUBSET Traces
  /\ IsFiniteSet(Unreadable) /\ Cardinality(Unreadable) \in Nat

LEMMA UnreadableFinite == LedgerTypeOK => UnreadableCounted
<1> SUFFICES ASSUME LedgerTypeOK PROVE UnreadableCounted
  OBVIOUS
<1>1. Unreadable \in SUBSET Traces
  BY DEF LedgerTypeOK, Unreadable
<1> QED BY <1>1, FS_Subset, FS_CardinalityType DEF UnreadableCounted

\* One write can make no other entry unreadable than its own.
LEMMA UnreadableGrows ==
  ASSUME LedgerTypeOK, TornUnrecorded, NEW t \in Traces, NEW sound \in BOOLEAN,
         Extended(t, sound), recorded' \subseteq recorded \cup {t}
  PROVE  /\ Unreadable' \subseteq Unreadable \cup {t}
         /\ ~torn /\ (sound \/ t \in Odd) => Unreadable' \subseteq Unreadable
         /\ t \notin recorded' => Unreadable' \subseteq Unreadable
<1>1. ASSUME NEW u \in Unreadable', u # t PROVE u \in Unreadable
  <2>1. u \in recorded /\ u \notin Odd /\ u \notin Listed'
    BY <1>1 DEF Unreadable
  <2>2. ~(torn /\ u = lines[Len(lines)].of)
    BY <2>1 DEF TornUnrecorded
  <2>3. u \notin Listed
    BY <2>1, <2>2, ExtendedListed
  <2> QED BY <2>1, <2>3 DEF Unreadable
<1>2. ASSUME ~torn, sound \/ t \in Odd PROVE t \notin Unreadable'
  BY <1>2, ExtendedListed DEF Unreadable
<1>3. t \notin recorded' => t \notin Unreadable'
  BY DEF Unreadable
<1> QED BY <1>1, <1>2, <1>3

LEMMA RecordKeepsLosses ==
  ASSUME LedgerTypeOK, TornUnrecorded, LossAhead, NEW t \in Traces, Record(t), LedgerTypeOK'
  PROVE  LossAhead' /\ TornUnrecorded'
<1> DEFINE sound == t \notin Odd
<1>1. Extended(t, sound)
  BY ExtendedFile DEF Record
<1>2. recorded' = recorded \cup {t} /\ ~torn' /\ tears' = tears
  BY DEF Record
<1>3. Cardinality(Unreadable) \in Nat /\ Cardinality(Unreadable') \in Nat /\ tears \in Nat
  <2>1. UnreadableCounted /\ UnreadableCounted'
    BY UnreadableFinite, PTL
  <2> QED BY <2>1 DEF UnreadableCounted, LedgerTypeOK
<1>4. CASE torn
  <2>1. Unreadable' \subseteq Unreadable \cup {t}
    BY <1>1, <1>2, UnreadableGrows
  <2>2. Cardinality(Unreadable') <= Cardinality(Unreadable) + 1
    <3> DEFINE Old == Unreadable
               New == Unreadable'
    <3>1. IsFiniteSet(Old) /\ New \in SUBSET (Old \cup {t})
      BY <2>1, UnreadableFinite DEF UnreadableCounted
    <3> HIDE DEF Old, New
    <3>2. /\ IsFiniteSet(Old \cup {t})
          /\ Cardinality(Old \cup {t}) = IF t \in Old THEN Cardinality(Old) ELSE Cardinality(Old) + 1
      BY <3>1, FS_AddElement
    <3>3. Cardinality(New) <= Cardinality(Old \cup {t})
      BY <3>1, <3>2, FS_Subset
    <3>4. Cardinality(Old) \in Nat /\ Cardinality(New) \in Nat
      BY <1>3 DEF Old, New
    <3>5. Cardinality(New) <= Cardinality(Old) + 1
      BY <3>2, <3>3, <3>4
    <3> QED BY <3>5 DEF Old, New
  <2>3. Cardinality(Unreadable) + 1 <= tears
    BY <1>4 DEF LossAhead
  <2>4. Cardinality(Unreadable') + 0 <= tears
    BY <1>3, <2>2, <2>3
  <2> QED BY <1>2, <2>4 DEF LossAhead, TornUnrecorded
<1>5. CASE ~torn
  <2>1. Unreadable' \subseteq Unreadable
    BY <1>1, <1>2, <1>5, UnreadableGrows
  <2>2. Cardinality(Unreadable') <= Cardinality(Unreadable)
    BY <2>1, UnreadableFinite, FS_Subset DEF UnreadableCounted
  <2>3. Cardinality(Unreadable) + 0 <= tears
    BY <1>5 DEF LossAhead
  <2>4. Cardinality(Unreadable') + 0 <= tears
    BY <1>3, <2>2, <2>3
  <2> QED BY <1>2, <2>4 DEF LossAhead, TornUnrecorded
<1> QED BY <1>4, <1>5

LEMMA TearKeepsLosses ==
  ASSUME LedgerTypeOK, TornUnrecorded, LossAhead, NEW t \in Traces,
         NEW place \in {"entry", "character", "newline"}, Tear(t, place), LedgerTypeOK'
  PROVE  LossAhead' /\ TornUnrecorded'
<1> DEFINE sound == place = "newline" /\ t \notin Odd
<1>1. Extended(t, sound)
  BY ExtendedFile DEF Tear
<1>2. recorded' = recorded /\ torn' /\ tears' = tears + 1 /\ t \notin recorded
  BY DEF Tear, LedgerTypeOK
<1>3. Cardinality(Unreadable) \in Nat /\ Cardinality(Unreadable') \in Nat /\ tears \in Nat
  <2>1. UnreadableCounted /\ UnreadableCounted'
    BY UnreadableFinite, PTL
  <2> QED BY <2>1 DEF UnreadableCounted, LedgerTypeOK
<1>4. Unreadable' \subseteq Unreadable
  BY <1>1, <1>2, UnreadableGrows
<1>5. Cardinality(Unreadable') <= Cardinality(Unreadable)
  BY <1>4, UnreadableFinite, FS_Subset DEF UnreadableCounted
<1>6. Cardinality(Unreadable) <= tears
  BY <1>3 DEF LossAhead
<1>7. Cardinality(Unreadable') + 1 <= tears + 1
  BY <1>3, <1>5, <1>6
<1>8. LossAhead'
  BY <1>2, <1>7 DEF LossAhead
<1>9. lines'[Len(lines')].of \notin recorded'
  <2>1. CASE torn
    <3>1. Len(lines') = Len(lines) /\ lines[Len(lines)].of \notin recorded
      BY <1>1, <2>1 DEF Extended, TornUnrecorded
    <3>2. Len(lines) \in 1..Len(lines)
      BY <2>1 DEF LedgerTypeOK
    <3>3. lines'[Len(lines)].of = lines[Len(lines)].of
      BY <1>1, <3>2, Zenon DEF Extended
    <3> QED BY <1>2, <3>1, <3>3
  <2>2. CASE ~torn
    <3>1. Len(lines') = Len(lines) + 1 /\ lines'[Len(lines) + 1].of = t
      BY <1>1, <2>2 DEF Extended
    <3> QED BY <1>2, <3>1
  <2> QED BY <2>1, <2>2
<1> QED BY <1>8, <1>9 DEF TornUnrecorded

-----------------------------------------------------------------------------
(* Pages.                                                                  *)

\* The lines of a listing have different ranks, and every rank below their number is taken.
LEMMA Ranks ==
  ASSUME NEW S \in SUBSET Nat, IsFiniteSet(S)
  PROVE  /\ Cardinality(S) \in Nat
         /\ \A i \in S : Newer(i, S) \in 0..(Cardinality(S) - 1)
         /\ \A i, j \in S : i # j => Newer(i, S) # Newer(j, S)
         /\ \A k \in 0..(Cardinality(S) - 1) : \E i \in S : Newer(i, S) = k
<1> DEFINE n == Cardinality(S)
           Above(i) == {j \in S : j > i}
<1>1. n \in Nat
  BY FS_CardinalityType
<1>2. ASSUME NEW i \in S
      PROVE  IsFiniteSet(Above(i)) /\ Newer(i, S) = Cardinality(Above(i)) /\ Newer(i, S) \in Nat
  <2>1. Above(i) \in SUBSET S
    OBVIOUS
  <2>2. IsFiniteSet(Above(i))
    BY <2>1, FS_Subset
  <2> QED BY <2>2, FS_CardinalityType DEF Newer
<1>3. ASSUME NEW i \in S, NEW T, IsFiniteSet(T), Above(i) \cup {i} \subseteq T
      PROVE  Newer(i, S) + 1 <= Cardinality(T)
  <2>1. Above(i) \in SUBSET (T \ {i})
    BY <1>3
  <2>2. IsFiniteSet(T \ {i}) /\ Cardinality(T \ {i}) = Cardinality(T) - 1
    BY <1>3, FS_RemoveElement
  <2>3. Cardinality(Above(i)) <= Cardinality(T \ {i})
    BY <2>1, <2>2, FS_Subset
  <2>4. Cardinality(T) \in Nat
    BY <1>3, FS_CardinalityType
  <2> HIDE DEF Above
  <2> QED BY <1>2, <2>2, <2>3, <2>4
<1>4. ASSUME NEW i \in S PROVE Newer(i, S) \in 0..(n - 1)
  <2>1. Above(i) \cup {i} \subseteq S
    OBVIOUS
  <2>2. Newer(i, S) + 1 <= n
    BY <1>3, <2>1
  <2>3. Newer(i, S) \in Nat
    BY <1>2
  <2> HIDE DEF n
  <2> QED BY <1>1, <2>2, <2>3
<1>5. ASSUME NEW i \in S, NEW j \in S, i > j PROVE Newer(i, S) < Newer(j, S)
  <2>1. Above(i) \cup {i} \subseteq Above(j)
    <3>1. \A x \in S : x \in Nat
      OBVIOUS
    <3>2. \A x \in S : x > i => x > j
      BY <1>5, <3>1
    <3> QED BY <1>5, <3>2
  <2>2. Newer(i, S) + 1 <= Newer(j, S)
    <3>1. IsFiniteSet(Above(j)) /\ Newer(j, S) = Cardinality(Above(j))
      BY <1>2
    <3> QED BY <1>3, <2>1, <3>1
  <2>3. Newer(i, S) \in Nat /\ Newer(j, S) \in Nat
    BY <1>2
  <2> QED BY <2>2, <2>3
<1>6. \A i, j \in S : i # j => Newer(i, S) # Newer(j, S)
  <2> SUFFICES ASSUME NEW i \in S, NEW j \in S, i # j PROVE Newer(i, S) # Newer(j, S)
    OBVIOUS
  <2>1. i > j \/ j > i
    OBVIOUS
  <2>2. Newer(i, S) \in Nat /\ Newer(j, S) \in Nat
    BY <1>2
  <2> QED BY <1>5, <2>1, <2>2
<1>7. \A k \in 0..(n - 1) : \E i \in S : Newer(i, S) = k
  <2> DEFINE f == [i \in S |-> Newer(i, S)]
             T == 0..(n - 1)
  <2>1. f \in [S -> T]
    BY <1>4
  <2>2. f \in Injection(S, T)
    BY <1>6, <2>1 DEF Injection, IsInjective
  <2> HIDE DEF n
  <2>3. IsFiniteSet(T) /\ Cardinality(T) = n
    <3>1. 0 \in Int /\ n - 1 \in Int /\ (IF 0 > n - 1 THEN 0 ELSE n - 1 - 0 + 1) = n
      BY <1>1
    <3> QED BY <3>1, FS_Interval
  <2> HIDE DEF f, T
  <2>4. f \in Surjection(S, T)
    BY <2>2, <2>3, FS_Injection DEF n
  <2>5. \A k \in T : \E i \in S : f[i] = k
    BY <2>4 DEF Surjection
  <2> QED BY <2>5 DEF f, T
<1> QED BY <1>1, <1>4, <1>6, <1>7

LEMMA ShownFinite ==
  ASSUME LedgerTypeOK
  PROVE  /\ Shown \in SUBSET Nat /\ IsFiniteSet(Shown)
         /\ \A i \in Shown : lines[i].of \in Traces
<1>1. lines \in Seq(Line) /\ Len(lines) \in Nat /\ DOMAIN lines = 1..Len(lines)
  BY DEF LedgerTypeOK
<1>2. Shown \in SUBSET (1..Len(lines))
  BY <1>1 DEF Shown
<1>3. IsFiniteSet(1..Len(lines))
  BY <1>1, FS_Interval
<1>4. \A i \in 1..Len(lines) : lines[i].of \in Traces
  <2>1. \A i \in 1..Len(lines) : lines[i] \in Line
    BY <1>1
  <2> QED BY <2>1 DEF Line
<1>5. IsFiniteSet(Shown)
  BY <1>2, <1>3, FS_Subset
<1>6. 1..Len(lines) \subseteq Nat
  BY <1>1
<1> QED BY <1>2, <1>4, <1>5, <1>6

LEMMA PageFinite ==
  ASSUME LedgerTypeOK, NEW offset \in Nat
  PROVE  Page(offset) \in SUBSET Shown /\ Cardinality(Page(offset)) \in Nat
<1>1. Page(offset) \in SUBSET Shown
  BY DEF Page
<1>2. IsFiniteSet(Page(offset))
  BY <1>1, ShownFinite, FS_Subset
<1> QED BY <1>1, <1>2, FS_CardinalityType

\* A page behind which there is more is full.
LEMMA FullPage ==
  ASSUME LedgerTypeOK, NEW offset \in Nat, NEW i \in Shown, Newer(i, Shown) >= offset + Limit
  PROVE  Cardinality(Page(offset)) = Limit
<1> DEFINE S == Shown
           P == Page(offset)
           T == offset..(offset + Limit - 1)
           f == [j \in P |-> Newer(j, S)]
<1>1. S \in SUBSET Nat /\ IsFiniteSet(S)
  BY ShownFinite
<1>2. P = {j \in S : Newer(j, S) \in T}
  BY DEF Page
<1>3. IsFiniteSet(T) /\ Cardinality(T) = Limit
  BY FS_Interval
<1>4. \A k \in T : k \in 0..(Cardinality(S) - 1)
  <2>1. Newer(i, S) \in 0..(Cardinality(S) - 1) /\ Cardinality(S) \in Nat
    BY <1>1, Ranks
  <2> HIDE DEF S
  <2> QED BY <2>1 DEF S
<1> HIDE DEF S, P, T
<1>5. f \in Injection(P, T)
  <2>1. \A j, k \in P : j # k => Newer(j, S) # Newer(k, S)
    BY <1>1, <1>2, Ranks
  <2> QED BY <1>2, <2>1 DEF Injection, IsInjective
<1>6. f \in Surjection(P, T)
  <2>1. \A k \in T : \E j \in P : Newer(j, S) = k
    BY <1>1, <1>2, <1>4, Ranks
  <2> QED BY <1>5, <2>1 DEF Surjection, Injection
<1> HIDE DEF f
<1>7. Cardinality(P) = Cardinality(T)
  BY <1>3, <1>5, <1>6, FS_Injection
<1> QED BY <1>3, <1>7 DEF P

\* While no entry vanishes, what is shown stays so, and gets no newer.
LEMMA StaysShown ==
  ASSUME LedgerTypeOK, LedgerTypeOK', NEW t \in Traces, NEW sound \in BOOLEAN, Extended(t, sound),
         ~(torn /\ lines[Len(lines)].sound), NEW i \in Shown
  PROVE  /\ i \in Shown' /\ lines'[i].of = lines[i].of
         /\ Newer(i, Shown) \in Nat /\ Newer(i, Shown') \in Nat
         /\ Newer(i, Shown') >= Newer(i, Shown)
<1>1. lines \in Seq(Line) /\ Len(lines) \in Nat /\ DOMAIN lines = 1..Len(lines)
  BY DEF LedgerTypeOK
<1>2. DOMAIN lines' = 1..Len(lines') /\ Len(lines') \in Nat
  BY DEF Extended
<1>3. Len(lines') = Len(lines) \/ Len(lines') = Len(lines) + 1
  BY Zenon DEF Extended
<1>4. ASSUME NEW j \in Shown PROVE j \in Shown' /\ lines'[j] = lines[j]
  <2>1. j \in 1..Len(lines) /\ lines[j].sound /\ lines[j].of \in Wanted
    BY <1>1 DEF Shown
  <2>2. ~torn \/ j # Len(lines)
    BY <2>1
  <2>3. lines'[j] = lines[j]
    BY <2>1, <2>2, Zenon DEF Extended
  <2>4. j \in DOMAIN lines'
    <3>1. Len(lines) \in Nat /\ Len(lines') \in Nat /\ j \in 1..Len(lines)
      BY <1>1, <1>2, <2>1
    <3>2. j \in 1..Len(lines')
      BY <1>3, <3>1
    <3> QED BY <1>2, <3>2
  <2> QED BY <2>1, <2>3, <2>4 DEF Shown
<1>5. {j \in Shown : j > i} \in SUBSET {j \in Shown' : j > i}
  BY <1>4
<1>6. IsFiniteSet({j \in Shown' : j > i}) /\ IsFiniteSet({j \in Shown : j > i})
  <2>1. Shown' \in SUBSET DOMAIN lines'
    BY DEF Shown
  <2>2. IsFiniteSet(DOMAIN lines')
    BY <1>2, FS_Interval
  <2>3. IsFiniteSet(Shown')
    BY <2>1, <2>2, FS_Subset
  <2> QED BY <2>3, ShownFinite, FS_Subset
<1>7. Newer(i, Shown) <= Newer(i, Shown')
  BY <1>5, <1>6, FS_Subset DEF Newer
<1>8. Newer(i, Shown) \in Nat /\ Newer(i, Shown') \in Nat
  BY <1>6, FS_CardinalityType DEF Newer
<1> QED BY <1>4, <1>7, <1>8

LEMMA ExtendKeepsPager ==
  ASSUME LedgerTypeOK, LedgerTypeOK', PagerOK, PagesMissNothing,
         NEW t \in Traces, NEW sound \in BOOLEAN, Extend(t, sound)
  PROVE  PagerOK' /\ PagesMissNothing'
<1>1. Extended(t, sound) /\ UNCHANGED pager
  BY ExtendedFile DEF Extend
<1>2. ~vanished' => ~vanished /\ ~(torn /\ lines[Len(lines)].sound)
  BY DEF Extend
<1>3. ASSUME pager.phase = "paging", ~vanished', NEW u \in pager.start \ pager.seen
      PROVE  Behind(u, pager.offset)'
  <2>1. PICK i \in Shown : lines[i].of = u /\ Newer(i, Shown) >= pager.offset
    BY <1>2, <1>3 DEF PagerOK, Behind
  <2>2. /\ i \in Shown' /\ lines'[i].of = lines[i].of /\ Newer(i, Shown') >= Newer(i, Shown)
        /\ Newer(i, Shown) \in Nat /\ Newer(i, Shown') \in Nat
    BY <1>1, <1>2, <1>3, StaysShown
  <2>3. pager.offset \in Nat
    BY DEF LedgerTypeOK, Pager
  <2>4. Newer(i, Shown') >= pager.offset
    BY <2>1, <2>2, <2>3
  <2> QED BY <1>1, <2>1, <2>2, <2>4 DEF Behind
<1>4. PagerOK'
  BY <1>1, <1>3 DEF PagerOK, Behind
<1> QED BY <1>1, <1>2, <1>4 DEF PagesMissNothing

LEMMA TurnKeeps ==
  ASSUME LedgerInv, Turn
  PROVE  LedgerInv'
<1> DEFINE o == pager.offset
           started == IF pager.phase = "idle" THEN Listed \cap Wanted ELSE pager.start
           seen == pager.seen \cup {lines[i].of : i \in Page(o)}
           n == Cardinality(Page(o))
<1>1. /\ UNCHANGED fileVars /\ pager \in Pager /\ o \in Nat /\ LedgerTypeOK
      /\ pager.phase \in {"idle", "paging"}
  BY DEF LedgerInv, LedgerTypeOK, Turn, Pager
<1>2. n \in Nat /\ Page(o) \in SUBSET Shown
  BY <1>1, PageFinite
<1>3. seen \in SUBSET Traces /\ started \in SUBSET Traces
  <2>1. Listed \in SUBSET Traces
    <3>1. \A i \in DOMAIN lines : lines[i] \in Line
      BY <1>1 DEF LedgerTypeOK
    <3> QED BY <3>1 DEF Listed, Line
  <2>2. pager.seen \in SUBSET Traces /\ pager.start \in SUBSET Traces
    BY <1>1 DEF Pager
  <2> QED BY <1>1, <1>2, <2>1, <2>2, ShownFinite
<1>4. pager' = IF mangled # 0 THEN [pager EXCEPT !.phase = "failed"]
               ELSE [phase  |-> IF n < Limit THEN "over" ELSE "paging",
                     offset |-> o + n, start |-> started, seen |-> seen]
  BY DEF Turn
<1>5. ASSUME ~vanished, NEW t \in started PROVE t \in pager.seen \/ Behind(t, o)
  <2>1. CASE pager.phase = "idle"
    <3>1. t \in Listed \cap Wanted /\ o = 0
      BY <1>5, <2>1 DEF LedgerInv, PagerOK
    <3>2. PICK i \in DOMAIN lines : lines[i].sound /\ lines[i].of = t
      BY <3>1 DEF Listed
    <3>3. i \in Shown
      BY <3>1, <3>2 DEF Shown
    <3>4. Newer(i, Shown) \in Nat
      BY <1>1, <3>3, ShownFinite, Ranks
    <3> QED BY <3>1, <3>2, <3>3, <3>4 DEF Behind
  <2>2. CASE pager.phase = "paging"
    BY <1>5, <2>2 DEF LedgerInv, PagerOK
  <2> QED BY <1>1, <2>1, <2>2
<1>6. ASSUME ~vanished, NEW t \in started \ seen PROVE n = Limit /\ Behind(t, o + Limit)
  <2>1. PICK i \in Shown : lines[i].of = t /\ Newer(i, Shown) >= o
    BY <1>5, <1>6 DEF Behind
  <2>2. Newer(i, Shown) \in Nat
    BY <1>1, ShownFinite, Ranks
  <2>3. i \notin Page(o)
    BY <1>6, <2>1
  <2>4. Newer(i, Shown) \notin o..(o + Limit - 1)
    BY <2>3 DEF Page
  <2>5. Newer(i, Shown) >= o + Limit
    <3> DEFINE rank == Newer(i, Shown)
    <3>1. rank \in Nat /\ rank >= o /\ rank \notin o..(o + Limit - 1)
      BY <2>1, <2>2, <2>4
    <3> HIDE DEF rank, o
    <3>2. rank >= o + Limit
      BY <1>1, <3>1
    <3> QED BY <3>2 DEF rank
  <2>6. n = Limit
    BY <1>1, <2>5, FullPage
  <2> QED BY <2>1, <2>5, <2>6 DEF Behind
<1> HIDE DEF o, started, seen, n
<1>7. LedgerTypeOK' /\ TornUnrecorded' /\ LossAhead'
  <2>1. pager' \in Pager
    BY <1>1, <1>2, <1>3, <1>4 DEF Pager
  <2> QED BY <1>1, <2>1 DEF LedgerInv, LedgerTypeOK, TornUnrecorded, LossAhead, fileVars,
                            Unreadable, Listed
<1>8. PagerOK' /\ PagesMissNothing'
  <2>1. CASE mangled # 0
    <3>1. pager'.phase = "failed"
      BY <1>1, <1>4, <2>1 DEF Pager
    <3> QED BY <3>1 DEF PagerOK, PagesMissNothing
  <2>2. CASE mangled = 0
    <3>1. /\ pager'.phase = IF n < Limit THEN "over" ELSE "paging"
          /\ pager'.offset = o + n /\ pager'.start = started /\ pager'.seen = seen
      BY <1>4, <2>2
    <3>2. Shown' = Shown /\ lines' = lines /\ vanished' = vanished
      BY <1>1 DEF Shown, fileVars
    <3>3. CASE n = Limit
      <4>1. pager'.phase = "paging" /\ pager'.offset = o + Limit
        BY <3>1, <3>3
      <4>2. ~vanished => \A t \in pager'.start \ pager'.seen : Behind(t, pager'.offset)
        BY <1>6, <3>1, <4>1
      <4>3. PagerOK'
        BY <3>2, <4>1, <4>2 DEF PagerOK, Behind
      <4> QED BY <4>1, <4>3 DEF PagesMissNothing
    <3>4. CASE n # Limit
      <4>1. pager'.phase \in {"over", "paging"} /\ (~vanished' => pager'.start \subseteq pager'.seen)
        BY <1>1, <1>6, <3>1, <3>4 DEF fileVars
      <4> QED BY <4>1 DEF PagerOK, PagesMissNothing
    <3> QED BY <3>3, <3>4
  <2> QED BY <2>1, <2>2
<1> QED BY <1>7, <1>8 DEF LedgerInv

-----------------------------------------------------------------------------
(* The steps together.                                                     *)

LEMMA PassKeeps ==
  ASSUME LedgerInv, pending' \subseteq pending,
         UNCHANGED <<lines, torn, mangled, writes, recorded, tears, vanished, pager>>
  PROVE  LedgerInv'
<1>1. UNCHANGED <<lines, torn, mangled, writes, recorded, tears, vanished, pager>>
  OBVIOUS
<1>2. LedgerTypeOK'
  BY <1>1 DEF LedgerInv, LedgerTypeOK
<1>3. Shown' = Shown /\ Unreadable' = Unreadable
  BY <1>1 DEF Shown, Unreadable, Listed
<1>4. TornUnrecorded' /\ LossAhead' /\ PagesMissNothing'
  BY <1>1, <1>3 DEF LedgerInv, TornUnrecorded, LossAhead, PagesMissNothing
<1>5. PagerOK'
  BY <1>1, <1>3 DEF LedgerInv, PagerOK, Behind
<1> QED BY <1>2, <1>4, <1>5 DEF LedgerInv

LEMMA RecordKeeps ==
  ASSUME LedgerInv, NEW t \in Traces, Record(t)
  PROVE  LedgerInv'
<1> DEFINE sound == t \notin Odd
<1>1. Extend(t, sound) /\ sound \in BOOLEAN /\ t \in pending
  BY DEF Record
<1>2. Extended(t, sound)
  BY <1>1, ExtendedFile DEF LedgerInv
<1>3. LedgerTypeOK'
  <2>1. lines' \in Seq(Line)
    BY <1>2 DEF Extended
  <2>2. torn' \in BOOLEAN /\ ~torn'
    BY DEF Record
  <2>3. pending' \subseteq Traces /\ recorded' \subseteq Traces \ pending'
    BY <1>1 DEF LedgerInv, LedgerTypeOK, Record, Extend
  <2>4. mangled' \in 0..writes' /\ writes' \in Nat /\ tears' \in 0..MaxTears
    BY <1>1 DEF LedgerInv, LedgerTypeOK, Record, Extend
  <2>5. vanished' \in BOOLEAN /\ pager' \in Pager
    BY <1>1 DEF LedgerInv, LedgerTypeOK, Record, Extend
  <2> QED BY <2>1, <2>2, <2>3, <2>4, <2>5 DEF LedgerTypeOK
<1>4. LossAhead' /\ TornUnrecorded'
  BY <1>3, RecordKeepsLosses DEF LedgerInv
<1>5. PagerOK' /\ PagesMissNothing'
  BY <1>1, <1>3, ExtendKeepsPager DEF LedgerInv
<1> QED BY <1>3, <1>4, <1>5 DEF LedgerInv

LEMMA TearKeeps ==
  ASSUME LedgerInv, NEW t \in Traces, NEW place \in {"entry", "character", "newline"},
         Tear(t, place)
  PROVE  LedgerInv'
<1> DEFINE sound == place = "newline" /\ t \notin Odd
<1>1. Extend(t, sound) /\ sound \in BOOLEAN /\ t \in pending
  BY DEF Tear
<1>2. Extended(t, sound)
  BY <1>1, ExtendedFile DEF LedgerInv
<1>3. LedgerTypeOK'
  <2>1. lines' \in Seq(Line) /\ lines' # <<>>
    BY <1>2 DEF Extended
  <2>2. torn' \in BOOLEAN
    BY DEF Tear
  <2>3. pending' \subseteq Traces /\ recorded' \subseteq Traces \ pending'
    BY <1>1 DEF LedgerInv, LedgerTypeOK, Tear, Extend
  <2>4. mangled' \in 0..writes' /\ writes' \in Nat /\ tears' \in 0..MaxTears
    <3>1. writes' = writes + 1 /\ mangled' \in {mangled, writes + 1}
      BY <1>1 DEF Tear, Extend
    <3>2. tears < MaxTears /\ tears' = tears + 1
      BY DEF Tear
    <3> QED BY <3>1, <3>2 DEF LedgerInv, LedgerTypeOK
  <2>5. vanished' \in BOOLEAN /\ pager' \in Pager
    BY <1>1 DEF LedgerInv, LedgerTypeOK, Tear, Extend
  <2> QED BY <2>1, <2>2, <2>3, <2>4, <2>5 DEF LedgerTypeOK
<1>4. LossAhead' /\ TornUnrecorded'
  BY <1>3, TearKeepsLosses DEF LedgerInv
<1>5. PagerOK' /\ PagesMissNothing'
  BY <1>1, <1>3, ExtendKeepsPager DEF LedgerInv
<1> QED BY <1>3, <1>4, <1>5 DEF LedgerInv

LEMMA LedgerNextKeeps == LedgerInv /\ [LedgerNext]_ledgerVars => LedgerInv'
<1> SUFFICES ASSUME LedgerInv, [LedgerNext]_ledgerVars PROVE LedgerInv'
  OBVIOUS
<1>1. ASSUME NEW t \in Traces, Pass(t) PROVE LedgerInv'
  BY <1>1, PassKeeps DEF Pass
<1>2. ASSUME NEW t \in Traces, Record(t) PROVE LedgerInv'
  BY <1>2, RecordKeeps
<1>3. ASSUME NEW t \in Traces, NEW place \in {"entry", "character", "newline"}, Tear(t, place)
      PROVE  LedgerInv'
  BY <1>3, TearKeeps
<1>4. CASE Turn
  BY <1>4, TurnKeeps
<1>5. CASE UNCHANGED ledgerVars
  BY <1>5, PassKeeps DEF ledgerVars, fileVars
<1> QED BY <1>1, <1>2, <1>3, <1>4, <1>5 DEF LedgerNext, Validate

-----------------------------------------------------------------------------
(* The theorems.                                                           *)

\* The ledger, whoever looks at its page, is only written to and read from as Ledger says.
LEMMA PageLeavesLedger == ViewSpec => LedgerSpec
<1>1. ViewInit => LedgerInit
  BY DEF ViewInit
<1>2. [ViewNext]_viewVars => [LedgerNext]_ledgerVars
  <2> SUFFICES ASSUME [ViewNext]_viewVars PROVE [LedgerNext]_ledgerVars
    OBVIOUS
  <2>1. CASE Validate \/ Turn
    BY <2>1 DEF LedgerNext
  <2>2. CASE UNCHANGED ledgerVars
    BY <2>2
  <2>3. ASSUME ViewNext PROVE Validate \/ Turn \/ UNCHANGED ledgerVars
    BY <2>3 DEF ViewNext, Ask, Focus, IndexingBegins, IndexingEnds, PollAnswered, PollLost,
                LoadAnswered, LoadFails
  <2>4. UNCHANGED viewVars => UNCHANGED ledgerVars
    BY DEF viewVars
  <2> QED BY <2>1, <2>2, <2>3, <2>4
<1> QED BY <1>1, <1>2, PTL DEF ViewSpec, LedgerSpec

LEMMA LedgerInvariance == ViewSpec => []LedgerInv
<1>1. LedgerSpec => []LedgerInv
  BY LedgerInitEstablishes, LedgerNextKeeps, PTL DEF LedgerSpec
<1> QED BY <1>1, PageLeavesLedger, PTL

\* However many writes fail half way, and wherever: of the entries written in full there are
\* never more that cannot be read than writes that failed (FSLedgerRepository).
THEOREM LossesAreBounded == ViewSpec => []LossBounded
<1>1. LedgerInv => LossBounded
  <2> SUFFICES ASSUME LedgerInv PROVE LossBounded
    OBVIOUS
  <2>1. Cardinality(Unreadable) \in Nat /\ tears \in Nat
    BY UnreadableFinite DEF UnreadableCounted, LedgerInv, LedgerTypeOK
  <2>2. Cardinality(Unreadable) <= tears
    BY <2>1 DEF LedgerInv, LossAhead
  <2> QED BY <2>2 DEF LossBounded
<1> QED BY <1>1, LedgerInvariance, PTL

\* For pages of any size, and any number of entries written between two of them, a listing that
\* is read to its end has shown all that was there when it began (list_entries).
THEOREM PagesAreComplete == ViewSpec => []PagesMissNothing
<1>1. LedgerInv => PagesMissNothing
  BY DEF LedgerInv
<1> QED BY <1>1, LedgerInvariance, PTL

THEOREM LedgerTypeCorrectness == ViewSpec => []ViewTypeOK
<1> DEFINE LiveOK ==
             /\ indexing \in BOOLEAN /\ editing \in BOOLEAN /\ turns \in 0..MaxTurns
             /\ polls \subseteq Poll /\ loads \subseteq Nat
             /\ known \in Nat \cup {Never} /\ shown \in Nat \cup {Never}
             /\ wasIndexing \in BOOLEAN /\ slipped \in BOOLEAN
             /\ opened \in BOOLEAN
<1>1. ViewInit => LiveOK
  <2> SUFFICES ASSUME ViewInit PROVE LiveOK
    OBVIOUS
  <2>1. opened \in BOOLEAN /\ indexing \in {FALSE, opened}
    BY DEF ViewInit
  <2>2. indexing \in BOOLEAN /\ editing \in BOOLEAN /\ wasIndexing \in BOOLEAN /\ slipped \in BOOLEAN
    BY <2>1 DEF ViewInit
  <2>3. turns \in 0..MaxTurns /\ polls \subseteq Poll /\ loads \subseteq Nat
    BY TurnsAssumption DEF ViewInit
  <2>4. known \in Nat \cup {Never} /\ shown \in Nat \cup {Never}
    BY DEF ViewInit
  <2> QED BY <2>1, <2>2, <2>3, <2>4
<1>2. LedgerInv /\ LiveOK /\ [ViewNext]_viewVars => LiveOK'
  <2> SUFFICES ASSUME LedgerInv, LiveOK, [ViewNext]_viewVars PROVE LiveOK'
    OBVIOUS
  <2>1. writes \in Nat /\ MaxTurns \in Nat
    BY TurnsAssumption DEF LedgerInv, LedgerTypeOK
  <2>2. CASE UNCHANGED <<serverVars, pageVars>>
    BY <2>2 DEF serverVars, pageVars
  <2>3. CASE Ask
    <3>1. [token |-> writes, indexing |-> indexing] \in Poll
      BY <2>1 DEF Poll
    <3> QED BY <2>3, <3>1 DEF Ask, serverVars
  <2>4. CASE Focus
    BY <2>1, <2>4 DEF Focus
  <2>5. CASE IndexingBegins \/ IndexingEnds
    <3>1. indexing' \in BOOLEAN /\ UNCHANGED <<opened, pageVars>>
      BY <2>5 DEF IndexingBegins, IndexingEnds
    <3>2. turns' \in 0..MaxTurns
      BY <2>1, <2>5 DEF IndexingBegins, IndexingEnds
    <3> QED BY <3>1, <3>2 DEF pageVars
  <2>6. ASSUME NEW p \in polls, PollAnswered(p) PROVE LiveOK'
    <3>1. p.token \in Nat /\ p.indexing \in BOOLEAN
      BY DEF Poll
    <3>2. known' \in Nat /\ polls' \subseteq polls /\ loads' \subseteq loads \cup {writes}
      BY <2>6, <3>1 DEF PollAnswered
    <3>3. wasIndexing' \in BOOLEAN
      BY <2>6, <3>1 DEF PollAnswered
    <3>4. slipped' \in BOOLEAN
      BY <2>6 DEF PollAnswered
    <3>5. UNCHANGED <<opened, indexing, turns, editing, shown>>
      BY <2>6 DEF PollAnswered, serverVars
    <3> QED BY <2>1, <3>2, <3>3, <3>4, <3>5
  <2>7. ASSUME NEW p \in polls, PollLost(p) PROVE LiveOK'
    BY <2>7 DEF PollLost, serverVars
  <2>8. ASSUME NEW l \in loads, LoadAnswered(l) PROVE LiveOK'
    BY <2>8 DEF LoadAnswered, serverVars
  <2>9. ASSUME NEW l \in loads, LoadFails(l) PROVE LiveOK'
    BY <2>9 DEF LoadFails, serverVars
  <2>10. CASE UNCHANGED viewVars
    BY <2>10 DEF viewVars, serverVars, pageVars
  <2> QED BY <2>2, <2>3, <2>4, <2>5, <2>6, <2>7, <2>8, <2>9, <2>10 DEF ViewNext
<1>3. LedgerInv /\ LiveOK => ViewTypeOK
  BY DEF LedgerInv, ViewTypeOK
<1> QED BY <1>1, <1>2, <1>3, LedgerInvariance, PTL DEF ViewSpec

\* Of a chat that was streamed the ledger says what it says of the same chat as a body
\* (validate_trace and what it reads of a stream's log), in whatever order the pieces of its calls
\* came, but for calls without arguments and for the calls, the text and the finish_reason of which
\* a line was lost where a delivery of the network ends.  (A /messages that was translated is
\* excluded: of its answer nothing is said when it is streamed.)
THEOREM AnswersAreAlike == ViewSpec => []IssuesAlike
<1>1. LedgerInv => IssuesAlike
  <2> SUFFICES ASSUME LedgerInv, NEW t \in recorded PROVE AnswerOf[t] \in Alike
    BY DEF IssuesAlike
  <2>1. t \in Traces
    BY DEF LedgerInv, LedgerTypeOK
  <2>2. AnswerOf[t] \in Answers
    BY <2>1, AnswerOfAssumption
  <2> QED BY <2>2, EveryAnswerAlike
<1> QED BY <1>1, LedgerInvariance, PTL
=============================================================================
