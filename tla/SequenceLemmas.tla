--------------------------- MODULE SequenceLemmas ---------------------------
(***************************************************************************)
(* Lemmas about sequences: what removing from and appending to one without *)
(* repetition does; induction over them, with a set in place of a          *)
(* predicate; and what flattening sequences of sequences, and replacing    *)
(* each element by a sequence, give.                                       *)
(***************************************************************************)
EXTENDS DistinctSequences, TLAPS, SequenceTheorems, WellFoundedInduction

\* Whatever fails for some number fails for a least one.
LEMMA LeastElement ==
  ASSUME NEW T \in SUBSET Nat, T # {}
  PROVE  \E n \in T : \A m \in T : n <= m
<1> DEFINE R == {ss \in Nat \X Nat : ss[1] < ss[2]}
<1>1. IsWellFoundedOn(R, Nat)
  BY NatLessThanWellFounded DEF OpToRel
<1>2. PICK n \in T : \A m \in T : <<m, n>> \notin R
  <2> HIDE DEF R
  <2> QED BY <1>1, WFMin
<1>3. \A m \in T : ~(m < n)
  <2> SUFFICES ASSUME NEW m \in T, m < n PROVE <<m, n>> \in R
    BY <1>2
  <2> QED OBVIOUS
<1> QED BY <1>3

\* What RemoveAt returns: one element less, the later ones moved down.
LEMMA RemoveAtProperties ==
  ASSUME NEW S, NEW q \in Seq(S), NEW k \in 1..Len(q)
  PROVE  /\ RemoveAt(q, k) \in Seq(S)
         /\ Len(RemoveAt(q, k)) = Len(q) - 1
         /\ \A j \in 1..(Len(q) - 1) :
              RemoveAt(q, k)[j] = IF j < k THEN q[j] ELSE q[j + 1]
<1> DEFINE a == SubSeq(q, 1, k - 1)
           b == SubSeq(q, k + 1, Len(q))
<1>1. Len(q) \in Nat /\ \A j \in 1..Len(q) : q[j] \in S
  BY LenProperties, ElementOfSeq
<1>2. /\ a \in Seq(S) /\ Len(a) = k - 1
      /\ \A j \in 1..(k - 1) : a[j] = q[j]
  BY <1>1, SubSeqProperties
<1>3. /\ b \in Seq(S) /\ Len(b) = Len(q) - k
      /\ \A j \in 1..(Len(q) - k) : b[j] = q[k + j]
  <2>1. /\ b \in Seq(S)
        /\ Len(b) = IF k + 1 <= Len(q) THEN Len(q) - (k + 1) + 1 ELSE 0
        /\ \A j \in 1..(Len(q) - (k + 1) + 1) : b[j] = q[k + 1 + j - 1]
    BY <1>1, SubSeqProperties
  <2> QED BY <1>1, <2>1
<1>4. RemoveAt(q, k) = a \o b
  BY DEF RemoveAt
<1> HIDE DEF a, b
<1>5. /\ a \o b \in Seq(S)
      /\ Len(a \o b) = Len(a) + Len(b)
      /\ \A j \in 1..(Len(a) + Len(b)) :
           (a \o b)[j] = IF j <= Len(a) THEN a[j] ELSE b[j - Len(a)]
  BY <1>2, <1>3, ConcatProperties
<1> QED BY <1>1, <1>2, <1>3, <1>4, <1>5

LEMMA RemoveAtMembers ==
  ASSUME NEW S, NEW q \in Seq(S), NEW k \in 1..Len(q), Distinct(q)
  PROVE  /\ Distinct(RemoveAt(q, k))
         /\ \A x : Contains(RemoveAt(q, k), x) <=> Contains(q, x) /\ x # q[k]
<1> DEFINE u == RemoveAt(q, k)
<1>1. /\ Len(q) \in Nat /\ Len(u) = Len(q) - 1
      /\ \A j \in 1..(Len(q) - 1) : u[j] = IF j < k THEN q[j] ELSE q[j + 1]
  BY RemoveAtProperties, LenProperties
<1> HIDE DEF u
<1>2. Distinct(u)
  <2> SUFFICES ASSUME NEW i \in 1..(Len(q) - 1), NEW j \in 1..(Len(q) - 1), u[i] = u[j]
               PROVE  i = j
    BY <1>1 DEF Distinct
  <2> DEFINE at(n) == IF n < k THEN n ELSE n + 1
  <2>1. /\ at(i) \in 1..Len(q) /\ u[i] = q[at(i)]
        /\ at(j) \in 1..Len(q) /\ u[j] = q[at(j)]
    BY <1>1
  <2>2. at(i) = at(j)
    <3> HIDE DEF at
    <3> QED BY <2>1 DEF Distinct
  <2> QED BY <1>1, <2>2
<1>3. ASSUME NEW x, Contains(u, x) PROVE Contains(q, x) /\ x # q[k]
  <2>1. PICK j \in 1..(Len(q) - 1) : u[j] = x
    BY <1>1, <1>3 DEF Contains
  <2>2. \E i \in 1..Len(q) : q[i] = x /\ i # k
    <3>1. CASE j < k
      BY <1>1, <2>1, <3>1
    <3>2. CASE j >= k
      <4>1. j + 1 \in 1..Len(q) /\ j + 1 # k /\ q[j + 1] = x
        BY <1>1, <2>1, <3>2
      <4> QED BY <4>1
    <3> QED BY <2>1, <3>1, <3>2
  <2> QED BY <2>2 DEF Contains, Distinct
<1>4. ASSUME NEW x, Contains(q, x), x # q[k] PROVE Contains(u, x)
  <2>1. PICK i \in 1..Len(q) : q[i] = x
    BY <1>4 DEF Contains
  <2>2. CASE i < k
    <3>1. i \in 1..(Len(q) - 1) /\ u[i] = x
      BY <1>1, <2>1, <2>2
    <3> QED BY <1>1, <3>1 DEF Contains
  <2>3. CASE i > k
    <3>1. i - 1 \in 1..(Len(q) - 1) /\ u[i - 1] = x
      BY <1>1, <2>1, <2>3
    <3> QED BY <1>1, <3>1 DEF Contains
  <2> QED BY <1>4, <2>1, <2>2, <2>3
<1> QED BY <1>2, <1>3, <1>4 DEF u

LEMMA AppendMembers ==
  ASSUME NEW S, NEW q \in Seq(S), NEW e \in S, Distinct(q), ~Contains(q, e)
  PROVE  /\ Append(q, e) \in Seq(S)
         /\ Len(Append(q, e)) = Len(q) + 1
         /\ Distinct(Append(q, e))
         /\ \A x : Contains(Append(q, e), x) <=> Contains(q, x) \/ x = e
<1> DEFINE u == Append(q, e)
<1>1. /\ u \in Seq(S) /\ Len(q) \in Nat /\ Len(u) = Len(q) + 1
      /\ \A i \in 1..Len(q) : u[i] = q[i]
      /\ u[Len(q) + 1] = e
  BY AppendProperties, LenProperties
<1> HIDE DEF u
<1>2. Distinct(u)
  BY <1>1 DEF Distinct, Contains
<1>3. ASSUME NEW x PROVE Contains(u, x) <=> Contains(q, x) \/ x = e
  <2>1. ASSUME Contains(u, x) PROVE Contains(q, x) \/ x = e
    BY <1>1, <2>1 DEF Contains
  <2>2. ASSUME Contains(q, x) PROVE Contains(u, x)
    BY <1>1, <2>2 DEF Contains
  <2>3. Contains(u, e)
    BY <1>1 DEF Contains
  <2> QED BY <2>1, <2>2, <2>3
<1> QED BY <1>1, <1>2, <1>3 DEF u

LEMMA TailMembers ==
  ASSUME NEW S, NEW q \in Seq(S), q # <<>>, Distinct(q)
  PROVE  /\ Tail(q) \in Seq(S) /\ Len(Tail(q)) = Len(q) - 1
         /\ Head(q) \in S /\ Contains(q, Head(q)) /\ Head(q) = q[1]
         /\ Distinct(Tail(q))
         /\ \A x : Contains(Tail(q), x) <=> Contains(q, x) /\ x # Head(q)
<1> DEFINE u == Tail(q)
<1>1. /\ u \in Seq(S) /\ Len(q) \in Nat /\ Len(q) # 0 /\ Len(u) = Len(q) - 1
      /\ \A i \in 1..(Len(q) - 1) : u[i] = q[i + 1]
  BY HeadTailProperties, LenProperties, EmptySeq
<1>2. Head(q) = q[1] /\ q[1] \in S
  BY <1>1, HeadTailProperties
<1> HIDE DEF u
<1>3. Distinct(u)
  BY <1>1 DEF Distinct
<1>4. Contains(q, q[1])
  BY <1>1 DEF Contains
<1>5. ASSUME NEW x, Contains(u, x) PROVE Contains(q, x) /\ x # q[1]
  <2>1. PICK j \in 1..(Len(q) - 1) : u[j] = x
    BY <1>1, <1>5 DEF Contains
  <2>2. j + 1 \in 1..Len(q) /\ q[j + 1] = x /\ j + 1 # 1 /\ 1 \in 1..Len(q)
    BY <1>1, <2>1
  <2> QED BY <2>2 DEF Contains, Distinct
<1>6. ASSUME NEW x, Contains(q, x), x # q[1] PROVE Contains(u, x)
  <2>1. PICK i \in 1..Len(q) : q[i] = x
    BY <1>6 DEF Contains
  <2>2. i - 1 \in 1..(Len(q) - 1) /\ u[i - 1] = x
    BY <1>1, <1>6, <2>1
  <2> QED BY <1>1, <2>2 DEF Contains
<1> QED BY <1>1, <1>2, <1>3, <1>4, <1>5, <1>6 DEF u

LEMMA WithoutMembers ==
  ASSUME NEW S, NEW q \in Seq(S), NEW x, Distinct(q)
  PROVE  /\ Without(q, x) \in Seq(S)
         /\ Distinct(Without(q, x))
         /\ \A y : Contains(Without(q, x), y) <=> Contains(q, y) /\ y # x
         /\ Len(Without(q, x)) = IF Contains(q, x) THEN Len(q) - 1 ELSE Len(q)
<1>1. CASE Contains(q, x)
  <2> DEFINE k == CHOOSE i \in 1..Len(q) : q[i] = x
  <2>1. k \in 1..Len(q) /\ q[k] = x
    BY <1>1 DEF Contains
  <2>2. Without(q, x) = RemoveAt(q, k)
    BY <1>1 DEF Without
  <2> HIDE DEF k
  <2>3. RemoveAt(q, k) \in Seq(S) /\ Len(RemoveAt(q, k)) = Len(q) - 1
    BY <2>1, RemoveAtProperties
  <2>4. /\ Distinct(RemoveAt(q, k))
        /\ \A y : Contains(RemoveAt(q, k), y) <=> Contains(q, y) /\ y # x
    BY <2>1, RemoveAtMembers
  <2> QED BY <1>1, <2>2, <2>3, <2>4
<1>2. CASE ~Contains(q, x)
  BY <1>2 DEF Without
<1> QED BY <1>1, <1>2

LEMMA MovedToEndMembers ==
  ASSUME NEW S, NEW q \in Seq(S), NEW x \in S, Distinct(q)
  PROVE  /\ MovedToEnd(q, x) \in Seq(S)
         /\ Distinct(MovedToEnd(q, x))
         /\ \A y : Contains(MovedToEnd(q, x), y) <=> Contains(q, y) \/ y = x
         /\ Len(MovedToEnd(q, x)) = IF Contains(q, x) THEN Len(q) ELSE Len(q) + 1
<1> DEFINE u == Without(q, x)
<1>1. /\ u \in Seq(S) /\ Distinct(u) /\ Len(q) \in Nat
      /\ \A y : Contains(u, y) <=> Contains(q, y) /\ y # x
      /\ Len(u) = IF Contains(q, x) THEN Len(q) - 1 ELSE Len(q)
  BY WithoutMembers, LenProperties
<1> HIDE DEF u
<1>2. /\ Append(u, x) \in Seq(S) /\ Distinct(Append(u, x)) /\ Len(Append(u, x)) = Len(u) + 1
      /\ \A y : Contains(Append(u, x), y) <=> Contains(u, y) \/ y = x
  BY <1>1, AppendMembers
<1>3. MovedToEnd(q, x) = Append(u, x)
  BY DEF MovedToEnd, u
<1> QED BY <1>1, <1>2, <1>3

\* Appending to nothing, and to one element.
LEMMA AppendEmpty ==
  ASSUME NEW x, NEW y PROVE Append(<<>>, x) = <<x>> /\ Append(<<x>>, y) = <<x, y>>
<1> DEFINE T == {x, y}
<1>1. <<>> \in Seq(T) /\ <<x>> \in Seq(T) /\ <<x, y>> \in Seq(T) /\ x \in T /\ y \in T
  OBVIOUS
<1>2. /\ Len(<<>>) = 0 /\ Len(<<x>>) = 1 /\ Len(<<x, y>>) = 2
      /\ <<x>>[1] = x /\ <<x, y>>[1] = x /\ <<x, y>>[2] = y
  OBVIOUS
<1>3. Append(<<>>, x) = <<x>>
  <2> DEFINE a == Append(<<>>, x)
             b == <<x>>
  <2>1. a \in Seq(T) /\ Len(a) = 1 /\ a[1] = x
    BY <1>1, <1>2, AppendProperties
  <2> HIDE DEF a
  <2>2. b \in Seq(T) /\ Len(b) = 1 /\ b[1] = x
    BY <1>1, <1>2
  <2> HIDE DEF b, T
  <2> QED BY <2>1, <2>2, SeqEqual DEF a, b
<1>4. Append(<<x>>, y) = <<x, y>>
  <2> DEFINE a == Append(<<x>>, y)
             b == <<x, y>>
  <2>1. a \in Seq(T) /\ Len(a) = 2 /\ a[1] = x /\ a[2] = y
    BY <1>1, <1>2, AppendProperties
  <2> HIDE DEF a
  <2>2. b \in Seq(T) /\ Len(b) = 2 /\ b[1] = x /\ b[2] = y
    BY <1>1, <1>2
  <2> HIDE DEF b, T
  <2>3. \A i \in 1..2 : a[i] = b[i]
    BY <2>1, <2>2
  <2>4. a = b
    BY <2>1, <2>2, <2>3, SeqEqual
  <2> QED BY <2>4 DEF a, b
<1> QED BY <1>3, <1>4

-----------------------------------------------------------------------------
(* Sequences flattened, and the sequences a function spreads one into.      *)

\* Induction over numbers and over sequences, where the property is a set.
LEMMA NatInduct ==
  ASSUME NEW P, 0 \in P, \A n \in Nat : n \in P => n + 1 \in P
  PROVE  Nat \subseteq P
<1> DEFINE Failing == Nat \ P
<1> SUFFICES ASSUME Failing # {} PROVE FALSE
  OBVIOUS
<1>1. PICK n \in Failing : \A m \in Failing : n <= m
  BY LeastElement
<1>2. n - 1 \in Nat /\ n - 1 \in P
  BY <1>1
<1>3. n \in P
  <2>1. (n - 1) + 1 \in P
    BY <1>2
  <2> QED BY <1>1, <2>1
<1> QED BY <1>1, <1>3

LEMMA SeqInduct ==
  ASSUME NEW T, NEW P, <<>> \in P, \A s \in Seq(T), x \in T : s \in P => Append(s, x) \in P
  PROVE  Seq(T) \subseteq P
<1> DEFINE Lengths == {n \in Nat : \A s \in Seq(T) : Len(s) = n => s \in P}
<1>1. 0 \in Lengths
  BY EmptySeq
<1>2. ASSUME NEW n \in Nat, n \in Lengths PROVE n + 1 \in Lengths
  <2> SUFFICES ASSUME NEW s \in Seq(T), Len(s) = n + 1 PROVE s \in P
    OBVIOUS
  <2> DEFINE r == SubSeq(s, 1, n)
  <2>1. \A i \in 1..n : s[i] \in T
    BY ElementOfSeq
  <2>2. r \in Seq(T) /\ Len(r) = n /\ \A i \in 1..n : r[i] = s[i]
    BY <2>1, SubSeqProperties
  <2>3. s[n + 1] \in T
    BY ElementOfSeq
  <2> HIDE DEF r
  <2>4. Append(r, s[n + 1]) \in P
    BY <1>2, <2>2, <2>3
  <2>5. s = Append(r, s[n + 1])
    <3>1. /\ Append(r, s[n + 1]) \in Seq(T) /\ Len(Append(r, s[n + 1])) = n + 1
          /\ \A i \in 1..(n + 1) : Append(r, s[n + 1])[i] = s[i]
      BY <2>2, <2>3, AppendProperties
    <3> QED BY <3>1, SeqEqual
  <2> QED BY <2>4, <2>5
<1> HIDE DEF Lengths
<1>3. Nat \subseteq Lengths
  BY <1>1, <1>2, NatInduct
<1> QED BY <1>3, LenProperties DEF Lengths

-----------------------------------------------------------------------------
(* FlattenSeq.                                                             *)

Flattening(f, s, n) == \A i \in 1..n : f[i] = IF i = 1 THEN s[1] ELSE f[i - 1] \o s[i]

LEMMA FlatteningExists ==
  ASSUME NEW T, NEW s \in Seq(Seq(T)), NEW n \in Nat, n <= Len(s)
  PROVE  \E f \in [1..n -> Seq(T)] : Flattening(f, s, n)
<1> DEFINE P == {k \in Nat : k <= Len(s) => \E f \in [1..k -> Seq(T)] : Flattening(f, s, k)}
<1>0. Len(s) \in Nat /\ \A i \in 1..Len(s) : s[i] \in Seq(T)
  BY LenProperties, ElementOfSeq
<1>1. 0 \in P
  <2> DEFINE none == [i \in 1..0 |-> <<>>]
  <2>1. none \in [1..0 -> Seq(T)] /\ Flattening(none, s, 0)
    BY DEF Flattening
  <2> HIDE DEF none
  <2>2. \E f \in [1..0 -> Seq(T)] : Flattening(f, s, 0)
    BY <2>1
  <2> QED BY <2>2
<1>2. ASSUME NEW k \in Nat, k \in P PROVE k + 1 \in P
  <2> SUFFICES ASSUME k + 1 <= Len(s) PROVE \E f \in [1..(k + 1) -> Seq(T)] : Flattening(f, s, k + 1)
    OBVIOUS
  <2>1. PICK f \in [1..k -> Seq(T)] : Flattening(f, s, k)
    BY <1>0, <1>2
  <2> DEFINE more == IF k = 0 THEN s[1] ELSE f[k] \o s[k + 1]
             g == [i \in 1..(k + 1) |-> IF i = k + 1 THEN more ELSE f[i]]
  <2>2. more \in Seq(T)
    <3>1. CASE k = 0
      BY <1>0, <3>1
    <3>2. CASE k # 0
      <4>1. f[k] \in Seq(T) /\ s[k + 1] \in Seq(T)
        BY <1>0, <3>2
      <4> QED BY <3>2, <4>1, ConcatProperties
    <3> QED BY <3>1, <3>2
  <2>3. g \in [1..(k + 1) -> Seq(T)]
    <3> HIDE DEF more
    <3> QED BY <2>2
  <2>4. ASSUME NEW i \in 1..(k + 1) PROVE g[i] = IF i = 1 THEN s[1] ELSE g[i - 1] \o s[i]
    <3>1. CASE i = k + 1
      <4>1. g[i] = more
        BY <3>1
      <4>2. i # 1 => g[i - 1] = f[k]
        BY <3>1
      <4> QED BY <3>1, <4>1, <4>2
    <3>2. CASE i # k + 1
      <4>1. i \in 1..k /\ g[i] = f[i] /\ (i # 1 => g[i - 1] = f[i - 1])
        BY <3>2
      <4> HIDE DEF g
      <4> QED BY <2>1, <4>1 DEF Flattening
    <3> QED BY <3>1, <3>2
  <2> HIDE DEF g
  <2> QED BY <2>3, <2>4 DEF Flattening
<1> HIDE DEF P
<1>3. Nat \subseteq P
  BY <1>1, <1>2, NatInduct
<1> QED BY <1>3 DEF P

LEMMA FlatteningUnique ==
  ASSUME NEW s, NEW f, NEW g, NEW n \in Nat, Flattening(f, s, n), Flattening(g, s, n)
  PROVE  \A i \in 1..n : f[i] = g[i]
<1> DEFINE P == {k \in Nat : k \in 1..n => f[k] = g[k]}
<1>1. 0 \in P
  OBVIOUS
<1>2. ASSUME NEW k \in Nat, k \in P PROVE k + 1 \in P
  <2> SUFFICES ASSUME k + 1 \in 1..n PROVE f[k + 1] = g[k + 1]
    OBVIOUS
  <2>1. CASE k = 0
    BY <2>1 DEF Flattening
  <2>2. CASE k # 0
    <3>1. f[k] = g[k]
      BY <1>2, <2>2
    <3>2. f[k + 1] = f[k] \o s[k + 1] /\ g[k + 1] = g[k] \o s[k + 1]
      <4>1. (k + 1) - 1 = k /\ k + 1 # 1
        BY <2>2
      <4> QED BY <4>1 DEF Flattening
    <3> QED BY <3>1, <3>2
  <2> QED BY <2>1, <2>2
<1> HIDE DEF P
<1>3. Nat \subseteq P
  BY <1>1, <1>2, NatInduct
<1> QED BY <1>3 DEF P

LEMMA FlattenIs ==
  ASSUME NEW T, NEW s \in Seq(Seq(T)), s # <<>>
  PROVE  \E f \in [1..Len(s) -> Seq(T)] : Flattening(f, s, Len(s)) /\ FlattenSeq(s) = f[Len(s)]
<1> DEFINE Eq(f) == [i \in 1..Len(s) |-> IF i = 1 THEN s[i] ELSE f[i - 1] \o s[i]]
           f == CHOOSE f : f = Eq(f)
<1>1. Len(s) \in Nat /\ Len(s) # 0
  BY LenProperties, EmptySeq
<1>2. PICK g \in [1..Len(s) -> Seq(T)] : Flattening(g, s, Len(s))
  <2> DEFINE n == Len(s)
  <2>1. n \in Nat /\ n <= Len(s)
    BY <1>1
  <2>2. \A k \in Nat : k <= Len(s) => \E g \in [1..k -> Seq(T)] : Flattening(g, s, k)
    BY FlatteningExists
  <2>3. \E g \in [1..n -> Seq(T)] : Flattening(g, s, n)
    <3> HIDE DEF n
    <3> QED BY <2>1, <2>2
  <2> QED BY <2>3
<1>3. g = Eq(g)
  BY <1>2 DEF Flattening
<1>4. f = Eq(f)
  BY <1>3
<1>5. FlattenSeq(s) = f[Len(s)]
  BY <1>1 DEF FlattenSeq
<1> HIDE DEF f
<1>6. Flattening(f, s, Len(s))
  <2>1. \A i \in 1..Len(s) : f[i] = IF i = 1 THEN s[i] ELSE f[i - 1] \o s[i]
    BY <1>4
  <2> QED BY <2>1 DEF Flattening
<1>7. f \in [1..Len(s) -> Seq(T)]
  <2>1. \A i \in 1..Len(s) : f[i] = g[i]
    BY <1>1, <1>2, <1>6, FlatteningUnique
  <2>2. f = [i \in 1..Len(s) |-> f[i]]
    BY <1>4
  <2> QED BY <2>1, <2>2
<1> QED BY <1>5, <1>6, <1>7

LEMMA FlattenEmpty == FlattenSeq(<<>>) = <<>>
BY DEF FlattenSeq

LEMMA FlattenType ==
  ASSUME NEW T, NEW s \in Seq(Seq(T)) PROVE FlattenSeq(s) \in Seq(T)
<1>1. CASE s = <<>>
  BY <1>1, FlattenEmpty, EmptySeq
<1>2. CASE s # <<>>
  <2>1. Len(s) \in 1..Len(s)
    BY <1>2, LenProperties, EmptySeq
  <2>2. PICK f \in [1..Len(s) -> Seq(T)] : FlattenSeq(s) = f[Len(s)]
    BY <1>2, FlattenIs
  <2> QED BY <2>1, <2>2
<1> QED BY <1>1, <1>2

LEMMA FlattenAppend ==
  ASSUME NEW T, NEW s \in Seq(Seq(T)), NEW x \in Seq(T)
  PROVE  FlattenSeq(Append(s, x)) = FlattenSeq(s) \o x
<1> DEFINE t == Append(s, x)
           n == Len(s)
<1>1. t \in Seq(Seq(T)) /\ t # <<>> /\ Len(t) = n + 1 /\ t[n + 1] = x /\ n \in Nat /\ \A i \in 1..n : t[i] = s[i]
  BY AppendProperties, LenProperties
<1> HIDE DEF t
<1>2. PICK g \in [1..(n + 1) -> Seq(T)] : Flattening(g, t, n + 1) /\ FlattenSeq(t) = g[n + 1]
  BY <1>1, FlattenIs
<1>3. CASE s = <<>>
  <2>1. n = 0
    BY <1>3
  <2>2. FlattenSeq(t) = x
    BY <1>1, <1>2, <2>1 DEF Flattening
  <2>3. FlattenSeq(s) \o x = x
    BY <1>3, FlattenEmpty, ConcatEmptySeq
  <2> QED BY <2>2, <2>3 DEF t
<1>4. CASE s # <<>>
  <2>1. n # 0
    BY <1>1, <1>4, EmptySeq
  <2>2. PICK f \in [1..n -> Seq(T)] : Flattening(f, s, n) /\ FlattenSeq(s) = f[n]
    BY <1>4, FlattenIs
  <2>3. Flattening(g, s, n)
    <3> SUFFICES ASSUME NEW i \in 1..n PROVE g[i] = IF i = 1 THEN s[1] ELSE g[i - 1] \o s[i]
      BY DEF Flattening
    <3>1. i \in 1..(n + 1) /\ 1 \in 1..n /\ t[i] = s[i] /\ t[1] = s[1]
      BY <1>1
    <3> HIDE DEF n
    <3> QED BY <1>2, <3>1 DEF Flattening
  <2>4. g[n] = f[n]
    <3>1. n \in Nat /\ n \in 1..n
      BY <1>1, <2>1
    <3> HIDE DEF n
    <3>2. Flattening(f, s, n) /\ Flattening(g, s, n)
      BY <2>2, <2>3
    <3>3. \A h : Flattening(h, s, n) => \A i \in 1..n : h[i] = f[i]
      BY <3>1, <3>2, FlatteningUnique
    <3>4. \A i \in 1..n : g[i] = f[i]
      BY <3>2, <3>3
    <3> QED BY <3>1, <3>4
  <2>5. g[n + 1] = g[n] \o t[n + 1]
    <3>1. n + 1 \in 1..(n + 1) /\ n + 1 # 1 /\ (n + 1) - 1 = n
      BY <1>1, <2>1
    <3> HIDE DEF n
    <3> QED BY <1>2, <3>1 DEF Flattening
  <2> QED BY <1>1, <1>2, <2>2, <2>4, <2>5 DEF t
<1> QED BY <1>3, <1>4

LEMMA FlattenOne ==
  ASSUME NEW T, NEW x \in Seq(T) PROVE FlattenSeq(<<x>>) = x
<1>1. <<>> \in Seq(Seq(T)) /\ <<x>> = Append(<<>>, x)
  BY EmptySeq
<1>2. FlattenSeq(<<x>>) = <<>> \o x
  BY <1>1, FlattenAppend, FlattenEmpty
<1> QED BY <1>2, ConcatEmptySeq

LEMMA AppendConcat ==
  ASSUME NEW T, NEW s \in Seq(T), NEW t \in Seq(T), NEW x \in T
  PROVE  s \o Append(t, x) = Append(s \o t, x)
<1>1. Append(t, x) = t \o <<x>> /\ s \o t \in Seq(T) /\ <<x>> \in Seq(T)
  BY AppendIsConcat, ConcatProperties
<1>2. Append(s \o t, x) = (s \o t) \o <<x>>
  BY <1>1, AppendIsConcat
<1> QED BY <1>1, <1>2, ConcatAssociative

\* Sequences can be put together in any order. The equation has a name, as it leads provers astray.
Associate(q, r, v) == (q \o r) \o v = q \o (r \o v)

LEMMA Associates ==
  ASSUME NEW T, NEW q \in Seq(T), NEW r \in Seq(T), NEW v \in Seq(T) PROVE Associate(q, r, v)
BY ConcatAssociative DEF Associate

LEMMA FlattenConcat ==
  ASSUME NEW T, NEW s \in Seq(Seq(T)), NEW t \in Seq(Seq(T))
  PROVE  FlattenSeq(s \o t) = FlattenSeq(s) \o FlattenSeq(t)
<1> DEFINE P == {r \in Seq(Seq(T)) : FlattenSeq(s \o r) = FlattenSeq(s) \o FlattenSeq(r)}
<1>0. FlattenSeq(s) \in Seq(T)
  BY FlattenType
<1>1. <<>> \in P
  BY <1>0, EmptySeq, ConcatEmptySeq, FlattenEmpty
<1>2. ASSUME NEW r \in Seq(Seq(T)), NEW x \in Seq(T), r \in P PROVE Append(r, x) \in P
  <2>1. s \o Append(r, x) = Append(s \o r, x) /\ s \o r \in Seq(Seq(T)) /\ Append(r, x) \in Seq(Seq(T))
    BY AppendConcat, ConcatProperties, AppendProperties
  <2>2. FlattenSeq(Append(s \o r, x)) = FlattenSeq(s \o r) \o x
    BY <2>1, FlattenAppend
  <2>3. FlattenSeq(s \o r) = FlattenSeq(s) \o FlattenSeq(r) /\ FlattenSeq(r) \in Seq(T)
    BY <1>2, FlattenType
  <2>4. FlattenSeq(Append(r, x)) = FlattenSeq(r) \o x
    BY FlattenAppend
  <2>5. (FlattenSeq(s) \o FlattenSeq(r)) \o x = FlattenSeq(s) \o (FlattenSeq(r) \o x)
    <3> DEFINE a == FlattenSeq(s)
               b == FlattenSeq(r)
    <3>1. a \in Seq(T) /\ b \in Seq(T)
      BY <1>0, <2>3
    <3> HIDE DEF a, b
    <3>2. Associate(a, b, x)
      BY <3>1, Associates
    <3> QED BY <3>2 DEF a, b, Associate
  <2> QED BY <2>1, <2>2, <2>3, <2>4, <2>5
<1> HIDE DEF P
<1>3. Seq(Seq(T)) \subseteq P
  BY <1>1, <1>2, SeqInduct
<1> QED BY <1>3 DEF P

-----------------------------------------------------------------------------
(* What a function makes of each element, and its results one after the    *)
(* other.                                                                  *)

MapSeq(s, f) == [i \in DOMAIN s |-> f[s[i]]]
Spread(s, f) == FlattenSeq(MapSeq(s, f))

LEMMA MappedEach ==
  ASSUME NEW T, NEW f, NEW s \in Seq(T)
  PROVE  /\ Len(MapSeq(s, f)) = Len(s)
         /\ \A i \in 1..Len(s) : MapSeq(s, f)[i] = f[s[i]]
<1>1. Len(s) \in Nat /\ DOMAIN s = 1..Len(s)
  BY LenProperties
<1> DEFINE U == {f[s[i]] : i \in 1..Len(s)}
           m == MapSeq(s, f)
<1>2. m = [i \in 1..Len(s) |-> f[s[i]]]
  BY <1>1 DEF MapSeq
<1>3. m \in [1..Len(s) -> U]
  BY <1>2
<1> HIDE DEF U, m
<1>4. m \in Seq(U) /\ DOMAIN m = 1..Len(s)
  BY <1>1, <1>3
<1>5. Len(m) = Len(s)
  BY <1>1, <1>4, LenProperties
<1> QED BY <1>2, <1>5 DEF m

LEMMA MappedType ==
  ASSUME NEW T, NEW U, NEW f \in [T -> U], NEW s \in Seq(T)
  PROVE  MapSeq(s, f) \in Seq(U)
<1>1. Len(s) \in Nat /\ DOMAIN s = 1..Len(s) /\ \A i \in 1..Len(s) : f[s[i]] \in U
  BY LenProperties, ElementOfSeq
<1>2. MapSeq(s, f) \in [1..Len(s) -> U]
  BY <1>1 DEF MapSeq
<1>3. [1..Len(s) -> U] \subseteq Seq(U)
  BY <1>1
<1> QED BY <1>2, <1>3

LEMMA MappedEmpty == ASSUME NEW f PROVE MapSeq(<<>>, f) = <<>>
BY DEF MapSeq

LEMMA MappedOne == ASSUME NEW f, NEW x PROVE MapSeq(<<x>>, f) = <<f[x]>>
BY DEF MapSeq

LEMMA MappedConcat ==
  ASSUME NEW T, NEW f, NEW s \in Seq(T), NEW t \in Seq(T)
  PROVE  MapSeq(s \o t, f) = MapSeq(s, f) \o MapSeq(t, f)
<1> DEFINE st == s \o t
           a == MapSeq(st, f)
           u == MapSeq(s, f)
           v == MapSeq(t, f)
           b == u \o v
           U == {f[x] : x \in T}
<1>0. \A r \in Seq(T) : /\ MapSeq(r, f) \in Seq(U) /\ Len(MapSeq(r, f)) = Len(r)
                         /\ \A i \in 1..Len(r) : MapSeq(r, f)[i] = f[r[i]]
  <2> SUFFICES ASSUME NEW r \in Seq(T)
               PROVE  /\ MapSeq(r, f) \in Seq(U) /\ Len(MapSeq(r, f)) = Len(r)
                      /\ \A i \in 1..Len(r) : MapSeq(r, f)[i] = f[r[i]]
    OBVIOUS
  <2>1. Len(r) \in Nat /\ DOMAIN r = 1..Len(r) /\ \A i \in 1..Len(r) : f[r[i]] \in U
    BY LenProperties, ElementOfSeq
  <2> HIDE DEF U
  <2>2. MapSeq(r, f) \in [1..Len(r) -> U]
    BY <2>1 DEF MapSeq
  <2>3. [1..Len(r) -> U] \subseteq Seq(U)
    BY <2>1
  <2> QED BY <2>2, <2>3, MappedEach
<1> HIDE DEF U
<1>1. /\ st \in Seq(T) /\ Len(st) = Len(s) + Len(t) /\ Len(s) \in Nat /\ Len(t) \in Nat
      /\ \A i \in 1..(Len(s) + Len(t)) : st[i] = IF i <= Len(s) THEN s[i] ELSE t[i - Len(s)]
  BY ConcatProperties, LenProperties
<1>3. /\ u \in Seq(U) /\ Len(u) = Len(s) /\ \A i \in 1..Len(s) : u[i] = f[s[i]]
      /\ v \in Seq(U) /\ Len(v) = Len(t) /\ \A i \in 1..Len(t) : v[i] = f[t[i]]
  BY <1>0
<1> HIDE DEF st, u, v
<1>2. a \in Seq(U) /\ Len(a) = Len(s) + Len(t) /\ \A i \in 1..(Len(s) + Len(t)) : a[i] = f[st[i]]
  <2>1. st \in Seq(T)
    BY <1>1
  <2>2. MapSeq(st, f) \in Seq(U) /\ Len(MapSeq(st, f)) = Len(st)
    BY <1>0, <2>1
  <2>3. \A i \in 1..Len(st) : MapSeq(st, f)[i] = f[st[i]]
    BY <1>0, <2>1
  <2> QED BY <1>1, <2>2, <2>3
<1>4. /\ b \in Seq(U) /\ Len(b) = Len(s) + Len(t)
      /\ \A i \in 1..(Len(s) + Len(t)) : b[i] = IF i <= Len(s) THEN u[i] ELSE v[i - Len(s)]
  <2>1. u \in Seq(U) /\ v \in Seq(U)
    BY <1>3
  <2>2. /\ b \in Seq(U) /\ Len(b) = Len(u) + Len(v)
        /\ \A i \in 1..(Len(u) + Len(v)) : b[i] = IF i <= Len(u) THEN u[i] ELSE v[i - Len(u)]
    BY <2>1, ConcatProperties
  <2> HIDE DEF b
  <2>3. Len(u) = Len(s) /\ Len(v) = Len(t)
    BY <1>3
  <2> QED BY <2>2, <2>3
<1> HIDE DEF a, b
<1>5. ASSUME NEW i \in 1..(Len(s) + Len(t)) PROVE a[i] = b[i]
  <2>1. CASE i <= Len(s)
    <3>1. i \in 1..Len(s)
      BY <1>1, <2>1
    <3>2. a[i] = f[st[i]] /\ st[i] = s[i]
      BY <1>1, <1>2, <2>1
    <3>3. b[i] = u[i] /\ u[i] = f[s[i]]
      BY <1>3, <1>4, <2>1, <3>1
    <3> QED BY <3>2, <3>3
  <2>2. CASE ~(i <= Len(s))
    <3>1. i - Len(s) \in 1..Len(t)
      BY <1>1, <2>2
    <3> QED BY <1>1, <1>2, <1>3, <1>4, <2>2, <3>1
  <2> QED BY <2>1, <2>2
<1>6. a = b
  BY <1>2, <1>4, <1>5, SeqEqual
<1> QED BY <1>6 DEF a, b, u, v, st

LEMMA SpreadEmpty == ASSUME NEW f PROVE Spread(<<>>, f) = <<>>
BY MappedEmpty, FlattenEmpty DEF Spread

LEMMA SpreadType ==
  ASSUME NEW T, NEW U, NEW f \in [T -> Seq(U)], NEW s \in Seq(T) PROVE Spread(s, f) \in Seq(U)
BY MappedEach, MappedType, FlattenType DEF Spread

LEMMA SpreadConcat ==
  ASSUME NEW T, NEW U, NEW f \in [T -> Seq(U)], NEW s \in Seq(T), NEW t \in Seq(T)
  PROVE  Spread(s \o t, f) = Spread(s, f) \o Spread(t, f)
<1>1. MapSeq(s, f) \in Seq(Seq(U)) /\ MapSeq(t, f) \in Seq(Seq(U))
  BY MappedEach, MappedType
<1>2. FlattenSeq(MapSeq(s, f) \o MapSeq(t, f)) = FlattenSeq(MapSeq(s, f)) \o FlattenSeq(MapSeq(t, f))
  BY <1>1, FlattenConcat
<1> QED BY <1>2, MappedConcat DEF Spread

LEMMA SpreadOne ==
  ASSUME NEW T, NEW U, NEW f \in [T -> Seq(U)], NEW x \in T PROVE Spread(<<x>>, f) = f[x]
<1>1. MapSeq(<<x>>, f) = <<f[x]>>
  BY DEF MapSeq
<1> QED BY <1>1, FlattenOne DEF Spread

LEMMA SpreadAppend ==
  ASSUME NEW T, NEW U, NEW f \in [T -> Seq(U)], NEW s \in Seq(T), NEW x \in T
  PROVE  Spread(Append(s, x), f) = Spread(s, f) \o f[x]
<1>1. Append(s, x) = s \o <<x>> /\ <<x>> \in Seq(T)
  BY AppendIsConcat
<1>2. Spread(s \o <<x>>, f) = Spread(s, f) \o Spread(<<x>>, f)
  BY <1>1, SpreadConcat
<1>3. Spread(<<x>>, f) = f[x]
  BY SpreadOne
<1> QED BY <1>1, <1>2, <1>3

\* Two functions that agree on a sequence's elements make the same of it.
LEMMA SpreadSame ==
  ASSUME NEW T, NEW f, NEW g, NEW s \in Seq(T), \A i \in 1..Len(s) : f[s[i]] = g[s[i]]
  PROVE  Spread(s, f) = Spread(s, g)
<1>1. DOMAIN s = 1..Len(s)
  BY LenProperties
<1>2. MapSeq(s, f) = MapSeq(s, g)
  BY <1>1 DEF MapSeq
<1> QED BY <1>2 DEF Spread

\* Spreading what was spread.
Spreads(f, T, U) == f \in [T -> Seq(U)]

LEMMA SpreadsConcat ==
  ASSUME NEW T, NEW U, NEW f, Spreads(f, T, U), NEW s \in Seq(T), NEW t \in Seq(T)
  PROVE  Spread(s \o t, f) = Spread(s, f) \o Spread(t, f)
BY SpreadConcat DEF Spreads
Twice(s, f, g, h) == \A i \in 1..Len(s) : h[s[i]] = Spread(f[s[i]], g)

LEMMA SpreadSpread ==
  ASSUME NEW T, NEW U, NEW V, NEW f, NEW g, NEW s \in Seq(T),
         Spreads(f, T, U), Spreads(g, U, V)
  PROVE  Spread(Spread(s, f), g) = Spread(s, [x \in T |-> Spread(f[x], g)])
<1> DEFINE h == [x \in T |-> Spread(f[x], g)]
<1>f. f \in [T -> Seq(U)] /\ g \in [U -> Seq(V)]
  BY DEF Spreads
<1>g. \A r \in Seq(U) : Spread(r, g) \in Seq(V)
  BY <1>f, SpreadType
<1>h. h \in [T -> Seq(V)] /\ \A x \in T : h[x] = Spread(f[x], g)
  BY <1>f, <1>g
<1> HIDE DEF h
<1> DEFINE P == {r \in Seq(T) : Spread(Spread(r, f), g) = Spread(r, h)}
<1>2. <<>> \in P
  BY EmptySeq, SpreadEmpty
<1>3. ASSUME NEW r \in Seq(T), NEW x \in T, r \in P PROVE Append(r, x) \in P
  <2>1. Append(r, x) \in Seq(T)
    BY AppendProperties
  <2>2. Spread(Append(r, x), f) = Spread(r, f) \o f[x]
    BY <1>f, SpreadAppend
  <2>3. Spread(r, f) \in Seq(U) /\ f[x] \in Seq(U)
    BY <1>f, SpreadType
  <2>4. Spread(Spread(r, f) \o f[x], g) = Spread(Spread(r, f), g) \o Spread(f[x], g)
    <3>1. \A q, v \in Seq(U) : Spread(q \o v, g) = Spread(q, g) \o Spread(v, g)
      BY <1>f, SpreadConcat
    <3> QED BY <2>3, <3>1
  <2>5. Spread(Append(r, x), h) = Spread(r, h) \o h[x]
    <3>1. h \in [T -> Seq(V)]
      BY <1>h
    <3> QED BY <3>1, SpreadAppend
  <2> QED BY <1>h, <1>3, <2>1, <2>2, <2>4, <2>5
<1> HIDE DEF P
<1>4. Seq(T) \subseteq P
  BY <1>2, <1>3, SeqInduct
<1> QED BY <1>4 DEF P, h

Singles(g) == [x \in DOMAIN g |-> <<g[x]>>]

\* Spreading to one each is mapping.
LEMMA SpreadSingle ==
  ASSUME NEW T, NEW U, NEW g \in [T -> U], NEW s \in Seq(T)
  PROVE  Spread(s, Singles(g)) = MapSeq(s, g)
<1> DEFINE h == Singles(g)
           P == {r \in Seq(T) : Spread(r, h) = MapSeq(r, g)}
<1>1. h \in [T -> Seq(U)] /\ \A x \in T : h[x] = <<g[x]>>
  BY DEF Singles
<1> HIDE DEF h
<1>2. <<>> \in P
  BY EmptySeq, SpreadEmpty, MappedEmpty
<1>3. ASSUME NEW r \in Seq(T), NEW x \in T, r \in P PROVE Append(r, x) \in P
  <2>1. Append(r, x) \in Seq(T) /\ Append(r, x) = r \o <<x>> /\ <<x>> \in Seq(T)
    BY AppendProperties, AppendIsConcat
  <2>2. Spread(Append(r, x), h) = Spread(r, h) \o h[x]
    BY <1>1, SpreadAppend
  <2>3. MapSeq(r \o <<x>>, g) = MapSeq(r, g) \o MapSeq(<<x>>, g)
    BY <2>1, MappedConcat
  <2>4. MapSeq(<<x>>, g) = <<g[x]>>
    BY DEF MapSeq
  <2> QED BY <1>1, <1>3, <2>1, <2>2, <2>3, <2>4
<1> HIDE DEF P
<1>4. Seq(T) \subseteq P
  BY <1>2, <1>3, SeqInduct
<1> QED BY <1>4 DEF P, h

\* Spreading over sequences by two functions that agree everywhere.
LEMMA SpreadAgree ==
  ASSUME NEW T, NEW f, NEW g, NEW s \in Seq(T), \A x \in T : f[x] = g[x]
  PROVE  Spread(s, f) = Spread(s, g)
<1>1. \A i \in 1..Len(s) : s[i] \in T
  BY ElementOfSeq
<1> QED BY <1>1, SpreadSame

LEMMA SpreadTwice ==
  ASSUME NEW T, NEW U, NEW V, NEW f, NEW g, NEW s \in Seq(T), NEW k,
         Spreads(f, T, U), Spreads(g, U, V), Twice(s, f, g, k)
  PROVE  Spread(Spread(s, f), g) = Spread(s, k)
<1> DEFINE h == [x \in T |-> Spread(f[x], g)]
<1>1. Spread(Spread(s, f), g) = Spread(s, h)
  BY SpreadSpread
<1>2. \A x \in T : h[x] = Spread(f[x], g)
  OBVIOUS
<1> HIDE DEF h
<1>4. \A i \in 1..Len(s) : h[s[i]] = k[s[i]]
  <2> TAKE i \in 1..Len(s)
  <2>1. s[i] \in T
    BY ElementOfSeq
  <2>2. h[s[i]] = Spread(f[s[i]], g)
    BY <1>2, <2>1
  <2>3. k[s[i]] = Spread(f[s[i]], g)
    BY DEF Twice
  <2> QED BY <2>2, <2>3
<1>5. Spread(s, h) = Spread(s, k)
  BY <1>4, SpreadSame
<1> QED BY <1>1, <1>5

LEMMA SpreadNothing ==
  ASSUME NEW T, NEW f \in [T -> {<<>>}], NEW s \in Seq(T)
  PROVE  Spread(s, f) = <<>>
<1> DEFINE P == {r \in Seq(T) : Spread(r, f) = <<>>}
<1>0. f \in [T -> Seq({})]
  BY EmptySeq
<1>1. <<>> \in P
  BY EmptySeq, SpreadEmpty
<1>2. ASSUME NEW r \in Seq(T), NEW x \in T, r \in P PROVE Append(r, x) \in P
  <2>1. Append(r, x) \in Seq(T)
    BY AppendProperties
  <2>2. Spread(Append(r, x), f) = Spread(r, f) \o f[x]
    BY <1>0, SpreadAppend
  <2>3. f[x] = <<>> /\ <<>> \o <<>> = <<>>
    BY EmptySeq, ConcatEmptySeq
  <2> QED BY <1>2, <2>1, <2>2, <2>3
<1> HIDE DEF P
<1>3. Seq(T) \subseteq P
  BY <1>1, <1>2, SeqInduct
<1> QED BY <1>3 DEF P

\* If a function makes something of two elements only, its results are those of the two.
LEMMA SpreadPair ==
  ASSUME NEW T, NEW U, NEW f \in [T -> Seq(U)], NEW s \in Seq(T),
         NEW a \in 1..Len(s), NEW b \in 1..Len(s), a < b,
         \A j \in 1..Len(s) : j # a /\ j # b => f[s[j]] = <<>>
  PROVE  Spread(s, f) = f[s[a]] \o f[s[b]]
<1> DEFINE U1 == f[s[a]]
           U2 == f[s[b]]
           W == U1 \o U2
           At(m) == IF m < a THEN <<>> ELSE IF m < b THEN U1 ELSE W
           P == {m \in Nat : m <= Len(s) => Spread(SubSeq(s, 1, m), f) = At(m)}
<1>1. Len(s) \in Nat /\ \A j \in 1..Len(s) : s[j] \in T
  BY LenProperties, ElementOfSeq
<1>2. U1 \in Seq(U) /\ U2 \in Seq(U)
  BY <1>1
<1>9. W \in Seq(U) /\ U1 \o U2 = W
  BY <1>2, ConcatProperties
<1> HIDE DEF W
<1>3. 0 \in P
  <2>1. SubSeq(s, 1, 0) = <<>>
    BY <1>1, SubSeqProperties, EmptySeq
  <2>2. Spread(SubSeq(s, 1, 0), f) = <<>>
    BY <2>1, SpreadEmpty
  <2>3. At(0) = <<>>
    BY <1>1
  <2> QED BY <2>2, <2>3
<1>4. ASSUME NEW m \in Nat, m \in P PROVE m + 1 \in P
  <2> SUFFICES ASSUME m + 1 <= Len(s) PROVE Spread(SubSeq(s, 1, m + 1), f) = At(m + 1)
    OBVIOUS
  <2> DEFINE p == SubSeq(s, 1, m)
             x == s[m + 1]
  <2>1. p \in Seq(T) /\ x \in T /\ Spread(p, f) = At(m)
    BY <1>1, <1>4, SubSeqProperties
  <2>2. SubSeq(s, 1, m + 1) = Append(p, x)
    BY <1>1
  <2>3. Spread(Append(p, x), f) = Spread(p, f) \o f[x]
    <3> HIDE DEF p, x
    <3> QED BY <2>1, SpreadAppend
  <2>4. f[x] \in Seq(U)
    BY <2>1
  <2>5. <<>> \o f[x] = f[x] /\ U1 \o <<>> = U1
    BY <1>2, <2>4, ConcatEmptySeq
  <2>6. CASE m + 1 < a
    <3>1. f[x] = <<>> /\ At(m) = <<>> /\ At(m + 1) = <<>>
      BY <1>1, <2>6
    <3> QED BY <2>1, <2>2, <2>3, <2>5, <3>1
  <2>7. CASE m + 1 = a
    <3>1. f[x] = U1 /\ At(m) = <<>> /\ At(m + 1) = U1
      BY <1>1, <2>7
    <3> QED BY <2>1, <2>2, <2>3, <2>5, <3>1
  <2>8. CASE m + 1 > a /\ m + 1 < b
    <3>1. f[x] = <<>> /\ At(m) = U1 /\ At(m + 1) = U1
      BY <1>1, <2>8
    <3> QED BY <2>1, <2>2, <2>3, <2>5, <3>1
  <2>9. CASE m + 1 = b
    <3>1. f[x] = U2 /\ At(m) = U1 /\ At(m + 1) = W
      BY <1>1, <2>9
    <3> QED BY <1>9, <2>1, <2>2, <2>3, <3>1
  <2>10. CASE m + 1 > b
    <3>1. f[x] = <<>> /\ At(m) = W /\ At(m + 1) = W
      BY <1>1, <2>10
    <3>3. W \o <<>> = W
      BY <1>9, ConcatEmptySeq
    <3>4. Spread(Append(p, x), f) = W
      <4> HIDE DEF p, x
      <4> QED BY <2>1, <2>3, <3>1, <3>3
    <3> QED BY <2>2, <3>1, <3>4
  <2> QED BY <1>1, <2>6, <2>7, <2>8, <2>9, <2>10
<1>5. Nat \subseteq P
  <2> HIDE DEF P
  <2> QED BY <1>3, <1>4, NatInduct
<1>6. Len(s) \in P
  BY <1>1, <1>5
<1>7. SubSeq(s, 1, Len(s)) = s
  BY <1>1
<1>8. At(Len(s)) = W
  BY <1>1
<1>10. Spread(SubSeq(s, 1, Len(s)), f) = At(Len(s))
  BY <1>1, <1>6
<1> QED BY <1>7, <1>8, <1>9, <1>10
=============================================================================
