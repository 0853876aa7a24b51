------------------------- MODULE TranslationProofs -------------------------
(***************************************************************************)
(* Proofs about the translation between Anthropic's messages and chat      *)
(* completions.                                                            *)
(*                                                                         *)
(* Streams (AnthropicStream): for any number of chunks, of tools and of    *)
(* events under way, the events of the one translator are in order, and    *)
(* what the other makes of them is what the server sent.                   *)
(*                                                                         *)
(* Conversations (Conversation): for any number of messages and calls, a   *)
(* client of either API sees every call it is to answer, and the server of *)
(* the other gets a well-formed request that says what the client said.    *)
(***************************************************************************)
EXTENDS AnthropicStream, Conversation, SequenceLemmas, FiniteSetTheorems

Kinds == {"thinking", "text", "tool_use"}
Texts == {"thinking", "text"}

Events ==
  [type  : {"message_start", "block_start", "block_delta", "block_stop", "message_delta", "message_stop", "error"},
   index : Int \cup {None},
   kind  : Kinds \cup DOMAIN StopToFinish \cup {None},
   piece : Nat \cup BOOLEAN \cup {None}]

Messages == [thinking : Seq(Nat), text : Seq(Nat), tools : Seq(Seq(Nat))]

Clients ==
  [message : Messages, finish : {None, "stop", "length", "tool_calls", "content_filter"},
   usage : BOOLEAN, error : BOOLEAN, done : BOOLEAN]

-----------------------------------------------------------------------------
(* Messages that grow.                                                     *)

Before(s, t) == Len(s) <= Len(t) /\ \A i \in 1..Len(s) : s[i] = t[i]

LEMMA PrefixIs ==
  ASSUME NEW T, NEW s \in Seq(T), NEW t \in Seq(T) PROVE IsPrefix(s, t) <=> Before(s, t)
<1>1. Len(s) \in Nat /\ Len(t) \in Nat
  BY LenProperties
<1>2. CASE Len(s) <= Len(t)
  <2> DEFINE a == SubSeq(s, 1, Len(s))
             b == SubSeq(t, 1, Len(s))
  <2>1. \A i \in 1..Len(s) : s[i] \in T /\ t[i] \in T
    BY <1>1, <1>2, ElementOfSeq
  <2>2. /\ a \in Seq(T) /\ Len(a) = Len(s) /\ \A i \in 1..Len(s) : a[i] = s[i]
        /\ b \in Seq(T) /\ Len(b) = Len(s) /\ \A i \in 1..Len(s) : b[i] = t[i]
    BY <1>1, <2>1, SubSeqProperties
  <2>3. a = b <=> \A i \in 1..Len(s) : s[i] = t[i]
    <3> HIDE DEF a, b
    <3>1. ASSUME a = b PROVE \A i \in 1..Len(s) : s[i] = t[i]
      BY <2>2, <3>1
    <3>2. ASSUME \A i \in 1..Len(s) : s[i] = t[i] PROVE a = b
      BY <2>2, <3>2, SeqEqual
    <3> QED BY <3>1, <3>2
  <2> QED BY <1>2, <2>3 DEF IsPrefix, Before
<1>3. CASE ~(Len(s) <= Len(t))
  BY <1>3 DEF IsPrefix, Before
<1> QED BY <1>2, <1>3

\* c is the beginning of m.
Under(c, m) ==
  /\ c \in Messages /\ m \in Messages
  /\ Before(c.thinking, m.thinking) /\ Before(c.text, m.text)
  /\ Len(c.tools) <= Len(m.tools)
  /\ \A k \in 1..Len(c.tools) : Before(c.tools[k], m.tools[k])

LEMMA UnderIs ==
  ASSUME NEW c \in Messages, NEW m \in Messages PROVE Piecewise(IsPrefix, c, m) <=> Under(c, m)
<1>1. /\ c.thinking \in Seq(Nat) /\ c.text \in Seq(Nat) /\ c.tools \in Seq(Seq(Nat))
      /\ m.thinking \in Seq(Nat) /\ m.text \in Seq(Nat) /\ m.tools \in Seq(Seq(Nat))
  BY DEF Messages
<1>2. /\ IsPrefix(c.thinking, m.thinking) <=> Before(c.thinking, m.thinking)
      /\ IsPrefix(c.text, m.text) <=> Before(c.text, m.text)
  BY <1>1, PrefixIs
<1>3. DOMAIN c.tools = 1..Len(c.tools) /\ Len(c.tools) \in Nat /\ Len(m.tools) \in Nat
  BY <1>1, LenProperties
<1>4. ASSUME Len(c.tools) <= Len(m.tools), NEW k \in 1..Len(c.tools)
      PROVE  IsPrefix(c.tools[k], m.tools[k]) <=> Before(c.tools[k], m.tools[k])
  <2>1. c.tools[k] \in Seq(Nat) /\ m.tools[k] \in Seq(Nat)
    BY <1>1, <1>3, <1>4, ElementOfSeq
  <2> QED BY <2>1, PrefixIs
<1> QED BY <1>2, <1>3, <1>4 DEF Piecewise, Under

LEMMA BeforeTransitive ==
  ASSUME NEW s \in Seq(Nat), NEW t \in Seq(Nat), NEW u \in Seq(Nat), Before(s, t), Before(t, u)
  PROVE  Before(s, u)
<1>1. Len(s) \in Nat /\ Len(t) \in Nat /\ Len(u) \in Nat
  BY LenProperties
<1> QED BY <1>1 DEF Before

LEMMA BeforeAppend ==
  ASSUME NEW s \in Seq(Nat), NEW x \in Nat PROVE Append(s, x) \in Seq(Nat) /\ Before(s, Append(s, x)) /\ Before(s, s)
<1>1. Len(s) \in Nat
  BY LenProperties
<1> QED BY <1>1, AppendProperties DEF Before

LEMMA MessageFields ==
  ASSUME NEW c \in Messages
  PROVE  /\ c.thinking \in Seq(Nat) /\ c.text \in Seq(Nat) /\ c.tools \in Seq(Seq(Nat))
         /\ Len(c.tools) \in Nat /\ DOMAIN c.tools = 1..Len(c.tools)
         /\ \A k \in 1..Len(c.tools) : c.tools[k] \in Seq(Nat)
<1>1. c.thinking \in Seq(Nat) /\ c.text \in Seq(Nat) /\ c.tools \in Seq(Seq(Nat))
  BY DEF Messages
<1> QED BY <1>1, LenProperties, ElementOfSeq

LEMMA UnderTransitive ==
  ASSUME NEW a, NEW b, NEW c, Under(a, b), Under(b, c) PROVE Under(a, c)
<1>1. a \in Messages /\ b \in Messages /\ c \in Messages
  BY DEF Under
<1>2. Before(a.thinking, c.thinking) /\ Before(a.text, c.text)
  BY <1>1, MessageFields, BeforeTransitive DEF Under
<1>3. Len(a.tools) <= Len(c.tools) /\ Len(a.tools) <= Len(b.tools)
  BY <1>1, MessageFields DEF Under
<1>4. ASSUME NEW k \in 1..Len(a.tools) PROVE Before(a.tools[k], c.tools[k])
  <2>1. k \in 1..Len(b.tools) /\ k \in 1..Len(c.tools)
    <3>1. Len(a.tools) \in Nat /\ Len(b.tools) \in Nat /\ Len(c.tools) \in Nat
      BY <1>1, MessageFields
    <3> QED BY <1>3, <3>1
  <2>2. a.tools[k] \in Seq(Nat) /\ b.tools[k] \in Seq(Nat) /\ c.tools[k] \in Seq(Nat)
    BY <1>1, <2>1, MessageFields
  <2>3. Before(a.tools[k], b.tools[k]) /\ Before(b.tools[k], c.tools[k])
    BY <2>1 DEF Under
  <2> QED BY <2>2, <2>3, BeforeTransitive
<1> QED BY <1>1, <1>2, <1>3, <1>4 DEF Under

LEMMA UnderSelf == ASSUME NEW m \in Messages PROVE Under(m, m)
<1>1. \A s \in Seq(Nat) : Before(s, s)
  BY LenProperties DEF Before
<1> QED BY <1>1, MessageFields DEF Under

LEMMA MessageWith ==
  ASSUME NEW m \in Messages, NEW x
  PROVE  /\ [m EXCEPT !.thinking = x] = [thinking |-> x, text |-> m.text, tools |-> m.tools]
         /\ [m EXCEPT !.text = x] = [thinking |-> m.thinking, text |-> x, tools |-> m.tools]
         /\ [m EXCEPT !.tools = x] = [thinking |-> m.thinking, text |-> m.text, tools |-> x]
<1> DEFINE Pieces == Seq(Nat)
           Tools == Seq(Seq(Nat))
<1>1. m \in [thinking : Pieces, text : Pieces, tools : Tools]
  BY DEF Messages
<1> HIDE DEF Pieces, Tools
<1> QED BY <1>1

\* A piece more of reasoning or of text, a tool more, a piece more of a tool.
LEMMA UnderPiece ==
  ASSUME NEW m \in Messages, NEW kind \in {"thinking", "text"}, NEW x \in Nat
  PROVE  /\ [m EXCEPT ![kind] = Append(@, x)] \in Messages
         /\ Under(m, [m EXCEPT ![kind] = Append(@, x)])
         /\ [m EXCEPT ![kind] = Append(@, x)].tools = m.tools
<1> DEFINE n == [m EXCEPT ![kind] = Append(@, x)]
<1>1. CASE kind = "thinking"
  <2>1. n = [thinking |-> Append(m.thinking, x), text |-> m.text, tools |-> m.tools]
    BY <1>1, MessageWith
  <2> HIDE DEF n
  <2>2. n \in Messages
    BY <2>1, MessageFields, BeforeAppend DEF Messages
  <2>3. n.thinking = Append(m.thinking, x) /\ n.text = m.text /\ n.tools = m.tools
    BY <2>1
  <2>4. Under(m, n)
    BY <2>2, <2>3, UnderSelf, MessageFields, BeforeAppend DEF Under
  <2> QED BY <2>2, <2>3, <2>4 DEF n
<1>2. CASE kind = "text"
  <2>1. n = [thinking |-> m.thinking, text |-> Append(m.text, x), tools |-> m.tools]
    BY <1>2, MessageWith
  <2> HIDE DEF n
  <2>2. n \in Messages
    BY <2>1, MessageFields, BeforeAppend DEF Messages
  <2>3. n.text = Append(m.text, x) /\ n.thinking = m.thinking /\ n.tools = m.tools
    BY <2>1
  <2>4. Under(m, n)
    BY <2>2, <2>3, UnderSelf, MessageFields, BeforeAppend DEF Under
  <2> QED BY <2>2, <2>3, <2>4 DEF n
<1> QED BY <1>1, <1>2

LEMMA UnderTools ==
  ASSUME NEW m \in Messages, NEW tools \in Seq(Seq(Nat)), Len(m.tools) <= Len(tools),
         \A k \in 1..Len(m.tools) : Before(m.tools[k], tools[k])
  PROVE  /\ [m EXCEPT !.tools = tools] \in Messages
         /\ Under(m, [m EXCEPT !.tools = tools])
<1> DEFINE n == [m EXCEPT !.tools = tools]
<1>1. n = [thinking |-> m.thinking, text |-> m.text, tools |-> tools]
  BY MessageWith
<1> HIDE DEF n
<1>2. n \in Messages
  BY <1>1, MessageFields DEF Messages
<1>3. n.text = m.text /\ n.thinking = m.thinking /\ n.tools = tools
  BY <1>1
<1>4. Under(m, n)
  BY <1>2, <1>3, UnderSelf DEF Under
<1> QED BY <1>2, <1>4 DEF n

-----------------------------------------------------------------------------
(* Sequences.                                                              *)

-----------------------------------------------------------------------------
(* What the client hears in one go.                                        *)

LEMMA HearsIs ==
  ASSUME NEW c, NEW s, Len(s) \in 0..2
  PROVE  Hears(c, s) = IF Len(s) = 0 THEN c
                           ELSE IF Len(s) = 1 THEN Receives(c, s[1]) ELSE Receives(Receives(c, s[1]), s[2])
<1> DEFINE HearingOf(f) == [n \in 0..Len(s) |-> IF n = 0 THEN c ELSE Receives(f[n - 1], s[n])]
           heard == CHOOSE f : f = HearingOf(f)
           Nth(n) == IF n = 0 THEN c ELSE IF n = 1 THEN Receives(c, s[1]) ELSE Receives(Receives(c, s[1]), s[2])
           g == [n \in 0..Len(s) |-> Nth(n)]
<1>1. ASSUME NEW f, f[0] = c, 1 \in 0..Len(s) => f[1] = Receives(f[0], s[1]), 2 \in 0..Len(s) => f[2] = Receives(f[1], s[2])
      PROVE  \A n \in 0..Len(s) : f[n] = Nth(n)
  <2> SUFFICES ASSUME NEW n \in 0..Len(s) PROVE f[n] = Nth(n)
    OBVIOUS
  <2>1. n = 0 \/ n = 1 \/ n = 2
    OBVIOUS
  <2>2. CASE n = 0
    BY <1>1, <2>2
  <2>3. CASE n = 1
    BY <1>1, <2>3
  <2>4. CASE n = 2
    <3>1. 1 \in 0..Len(s) /\ 2 \in 0..Len(s)
      BY <2>4
    <3>2. f[2] = Receives(Receives(c, s[1]), s[2])
      BY <1>1, <3>1
    <3> QED BY <2>4, <3>2
  <2> QED BY <2>1, <2>2, <2>3, <2>4
<1>2. g = HearingOf(g)
  <2>1. ASSUME NEW n \in 0..Len(s) PROVE g[n] = IF n = 0 THEN c ELSE Receives(g[n - 1], s[n])
    <3>1. n = 0 \/ n = 1 \/ n = 2
      OBVIOUS
    <3>2. CASE n = 0
      BY <3>2
    <3>3. CASE n = 1
      <4>1. g[0] = c /\ g[1] = Receives(c, s[1])
        BY <3>3
      <4> HIDE DEF g
      <4> QED BY <3>3, <4>1
    <3>4. CASE n = 2
      <4>1. g[1] = Receives(c, s[1]) /\ g[2] = Receives(Receives(c, s[1]), s[2])
        BY <3>4
      <4> HIDE DEF g
      <4> QED BY <3>4, <4>1
    <3> QED BY <3>1, <3>2, <3>3, <3>4
  <2> QED BY <2>1
<1>3. heard = HearingOf(heard)
  BY <1>2
<1>4. Hears(c, s) = heard[Len(s)]
  BY DEF Hears
<1> HIDE DEF heard, g
<1>5. /\ heard[0] = c /\ (1 \in 0..Len(s) => heard[1] = Receives(heard[0], s[1]))
      /\ (2 \in 0..Len(s) => heard[2] = Receives(heard[1], s[2]))
  <2>1. \A n \in 0..Len(s) : heard[n] = IF n = 0 THEN c ELSE Receives(heard[n - 1], s[n])
    BY <1>3
  <2>2. 0 \in 0..Len(s) /\ 1 - 1 = 0 /\ 2 - 1 = 1
    OBVIOUS
  <2> HIDE DEF HearingOf
  <2> QED BY <2>1, <2>2
<1>6. \A n \in 0..Len(s) : heard[n] = Nth(n)
  BY <1>1, <1>5
<1>7. Len(s) \in 0..Len(s)
  OBVIOUS
<1> QED BY <1>4, <1>6, <1>7

LEMMA HearsNone == ASSUME NEW c PROVE Hears(c, <<>>) = c
BY HearsIs

LEMMA HearsOne == ASSUME NEW c, NEW x PROVE Hears(c, <<x>>) = Receives(c, x)
<1>1. Len(<<x>>) = 1 /\ <<x>>[1] = x
  OBVIOUS
<1> QED BY <1>1, HearsIs

LEMMA HearsTwo == ASSUME NEW c, NEW x, NEW y PROVE Hears(c, <<x, y>>) = Receives(Receives(c, x), y)
<1>1. Len(<<x, y>>) = 2 /\ <<x, y>>[1] = x /\ <<x, y>>[2] = y
  OBVIOUS
<1> QED BY <1>1, HearsIs

-----------------------------------------------------------------------------
(* What becomes of the two that consume events, the Anthropic client and   *)
(* the other translator with the chat client behind it, on the way through *)
(* the events under way.                                                   *)

Consumer(r, d, c) == [reader |-> r, down |-> d, client |-> c]

Consume(E, event) ==
  LET next == ProcessEvent(E.down, event)
  IN  Consumer(Reads(E.reader, event), [next EXCEPT !.out = <<>>], Hears(E.client, next.out))

Quiet(d) == "out" \in DOMAIN d /\ d.out = <<>>

\* Nothing is left to be sent, and the client has nothing the server did not say.
Sound(E, m) == Quiet(E.down) /\ E.client \in Clients /\ Under(E.client.message, m)

\* From A through the events w, each of which is acceptable, to E, and not past the end.
Path(path, A, w, E, m) ==
  /\ path[0] = A /\ path[Len(w)] = E
  /\ \A i \in 0..Len(w) : Sound(path[i], m)
  /\ \A i \in 1..Len(w) : /\ Acceptable(path[i - 1].reader, w[i])
                          /\ ~path[i - 1].client.done
                          /\ path[i] = Consume(path[i - 1], w[i])

Leads(A, w, E, m) == w \in Seq(Events) /\ \E path : Path(path, A, w, E, m)

LEMMA LeadsNowhere ==
  ASSUME NEW A, NEW m, Sound(A, m) PROVE Leads(A, <<>>, A, m)
<1> DEFINE path == [i \in 0..0 |-> A]
<1>1. Path(path, A, <<>>, A, m)
  BY EmptySeq DEF Path
<1> QED BY <1>1, EmptySeq DEF Leads

LEMMA LeadsFrom ==
  ASSUME NEW A, NEW w, NEW E, NEW m, Leads(A, w, E, m)
  PROVE  /\ Sound(A, m) /\ Sound(E, m) /\ w \in Seq(Events)
         /\ A.client.done \/ w = <<>> => w = <<>> /\ A = E
<1>1. PICK path : Path(path, A, w, E, m)
  BY DEF Leads
<1>2. w \in Seq(Events) /\ Len(w) \in Nat /\ (w # <<>> <=> Len(w) # 0)
  BY LenProperties, EmptySeq DEF Leads
<1>3. Sound(A, m) /\ Sound(E, m)
  BY <1>1, <1>2 DEF Path
<1>4. ASSUME w # <<>> PROVE ~A.client.done
  BY <1>1, <1>2, <1>4 DEF Path
<1>5. ASSUME w = <<>> PROVE A = E
  BY <1>1, <1>2, <1>5 DEF Path
<1> QED BY <1>2, <1>3, <1>4, <1>5

LEMMA SoundMore ==
  ASSUME NEW E, NEW m, NEW n, Sound(E, m), Under(m, n) PROVE Sound(E, n)
BY UnderTransitive DEF Sound

\* One event more.
LEMMA LeadsOn ==
  ASSUME NEW A, NEW w, NEW E, NEW m, Leads(A, w, E, m), NEW event \in Events, NEW n, Under(m, n),
         Acceptable(E.reader, event), ~E.client.done, Sound(Consume(E, event), n)
  PROVE  Leads(A, Append(w, event), Consume(E, event), n)
<1>1. PICK path : Path(path, A, w, E, m)
  BY DEF Leads
<1> DEFINE L == Len(w)
           v == Append(w, event)
           way == [i \in 0..(L + 1) |-> IF i = L + 1 THEN Consume(E, event) ELSE path[i]]
<1>2. /\ w \in Seq(Events) /\ L \in Nat /\ v \in Seq(Events) /\ Len(v) = L + 1
      /\ \A i \in 1..L : v[i] = w[i]
      /\ v[L + 1] = event
  BY LenProperties, AppendProperties DEF Leads
<1>3. /\ path[0] = A /\ path[L] = E
      /\ \A i \in 0..L : Sound(path[i], m)
      /\ \A i \in 1..L : /\ Acceptable(path[i - 1].reader, w[i])
                          /\ ~path[i - 1].client.done
                          /\ path[i] = Consume(path[i - 1], w[i])
  BY <1>1 DEF Path
<1> HIDE DEF L, v
<1>4. way[0] = A /\ way[L] = E /\ way[L + 1] = Consume(E, event) /\ \A i \in 0..L : way[i] = path[i]
  BY <1>2, <1>3
<1> HIDE DEF way
<1>5. \A i \in 0..(L + 1) : i \in 0..L \/ i = L + 1
  BY <1>2
<1>6. \A i \in 0..(L + 1) : Sound(way[i], n)
  BY <1>3, <1>4, <1>5, SoundMore
<1>7. ASSUME NEW i \in 1..(L + 1)
      PROVE  /\ Acceptable(way[i - 1].reader, v[i])
             /\ ~way[i - 1].client.done
             /\ way[i] = Consume(way[i - 1], v[i])
  <2>1. CASE i \in 1..L
    <3>1. i - 1 \in 0..L /\ i \in 0..L
      BY <1>2, <2>1
    <3>2. way[i - 1] = path[i - 1] /\ way[i] = path[i] /\ v[i] = w[i]
      BY <1>2, <1>4, <2>1, <3>1
    <3> QED BY <1>3, <2>1, <3>2
  <2>2. CASE i = L + 1
    <3>1. i - 1 = L
      BY <1>2, <2>2
    <3>2. way[i - 1] = E /\ way[i] = Consume(E, event) /\ v[i] = event
      BY <1>2, <1>4, <2>2, <3>1
    <3> QED BY <3>2
  <2> QED BY <1>2, <2>1, <2>2
<1>8. Path(way, A, v, Consume(E, event), n)
  BY <1>2, <1>4, <1>6, <1>7 DEF Path
<1> QED BY <1>2, <1>8 DEF Leads, v

\* The first event is consumed.
LEMMA LeadsPast ==
  ASSUME NEW A, NEW w, NEW E, NEW m, Leads(A, w, E, m), w # <<>>
  PROVE  /\ Acceptable(A.reader, Head(w))
         /\ Leads(Consume(A, Head(w)), Tail(w), E, m)
<1>1. PICK path : Path(path, A, w, E, m)
  BY DEF Leads
<1> DEFINE L == Len(w)
           v == Tail(w)
           way == [i \in 0..(L - 1) |-> path[i + 1]]
<1>2. /\ w \in Seq(Events) /\ L \in Nat /\ L >= 1 /\ Head(w) = w[1]
      /\ v \in Seq(Events) /\ Len(v) = L - 1
      /\ \A i \in 1..(L - 1) : v[i] = w[i + 1]
  <2>1. w \in Seq(Events)
    BY DEF Leads
  <2>2. L \in Nat /\ L >= 1 /\ Head(w) = w[1]
    BY <2>1, EmptySeq, LenProperties
  <2>3. v \in Seq(Events) /\ Len(v) = L - 1 /\ \A i \in 1..Len(v) : v[i] = w[i + 1]
    BY <2>1, HeadTailProperties
  <2> QED BY <2>1, <2>2, <2>3
<1>3. /\ path[0] = A /\ path[L] = E
      /\ \A i \in 0..L : Sound(path[i], m)
      /\ \A i \in 1..L : /\ Acceptable(path[i - 1].reader, w[i])
                          /\ ~path[i - 1].client.done
                          /\ path[i] = Consume(path[i - 1], w[i])
  BY <1>1 DEF Path
<1> HIDE DEF L, v
<1>4. /\ Acceptable(A.reader, Head(w)) /\ path[1] = Consume(A, Head(w))
  <2>1. 1 \in 1..L /\ 1 - 1 = 0
    BY <1>2
  <2> QED BY <1>2, <1>3, <2>1
<1>5. way[0] = Consume(A, Head(w)) /\ way[L - 1] = E /\ \A i \in 0..(L - 1) : way[i] = path[i + 1]
  BY <1>2, <1>3, <1>4
<1> HIDE DEF way
<1>6. \A i \in 0..(L - 1) : Sound(way[i], m)
  <2>1. \A i \in 0..(L - 1) : i + 1 \in 0..L
    BY <1>2
  <2> QED BY <1>3, <1>5, <2>1
<1>7. ASSUME NEW i \in 1..(L - 1)
      PROVE  /\ Acceptable(way[i - 1].reader, v[i])
             /\ ~way[i - 1].client.done
             /\ way[i] = Consume(way[i - 1], v[i])
  <2>1. i + 1 \in 1..L /\ i - 1 \in 0..(L - 1) /\ i \in 0..(L - 1) /\ (i + 1) - 1 = i /\ (i - 1) + 1 = i
    BY <1>2
  <2>2. way[i - 1] = path[i] /\ way[i] = path[i + 1] /\ v[i] = w[i + 1]
    BY <1>2, <1>5, <2>1
  <2>3. /\ Acceptable(path[i].reader, w[i + 1])
        /\ ~path[i].client.done
        /\ path[i + 1] = Consume(path[i], w[i + 1])
    BY <1>3, <2>1
  <2> QED BY <2>2, <2>3
<1>8. Path(way, Consume(A, Head(w)), v, E, m)
  BY <1>2, <1>5, <1>6, <1>7 DEF Path
<1> QED BY <1>2, <1>4, <1>8 DEF Leads, v

-----------------------------------------------------------------------------
(* How those who consumed all that the first translator has put out agree  *)
(* with it.                                                                *)

Tables == UNION {[D -> Nat] : D \in SUBSET Int}

LEMMA TableIs ==
  ASSUME NEW T \in Tables
  PROVE  DOMAIN T \subseteq Int /\ \A x \in DOMAIN T : T[x] \in Nat
BY DEF Tables

With(T, b, n) == [x \in DOMAIN T \cup {b} |-> IF x = b THEN n ELSE T[x]]

LEMMA TableGrown ==
  ASSUME NEW T \in Tables, NEW b \in Int, NEW n \in Nat
  PROVE  /\ With(T, b, n) \in Tables /\ DOMAIN With(T, b, n) = DOMAIN T \cup {b} /\ With(T, b, n)[b] = n
         /\ \A x \in DOMAIN T : x # b => With(T, b, n)[x] = T[x]
<1>1. DOMAIN T \cup {b} \in SUBSET Int /\ With(T, b, n) \in [DOMAIN T \cup {b} -> Nat]
  BY TableIs DEF With
<1> QED BY <1>1 DEF Tables, With

LEMMA NoTable == <<>> \in Tables /\ DOMAIN <<>> = {}
<1>1. <<>> \in [{} -> Nat]
  OBVIOUS
<1> QED BY <1>1 DEF Tables

Translators ==
  [started : BOOLEAN, block : Int, kind : Kinds \cup {None}, toolBlock : Tables,
   finish : DOMAIN FinishToStop \cup {None}, usage : BOOLEAN, finalized : BOOLEAN, out : Seq(Events)]

Readers == [phase : {"none", "content", "ending", "over"}, blocks : Seq(Kinds), open : Int \cup {None}]

Downs ==
  [role : BOOLEAN, tools : Tables, next : Nat,
   finish : {None, "stop", "length", "tool_calls", "content_filter"}, usage : BOOLEAN, done : BOOLEAN,
   out : {<<>>}]

\* The Anthropic client has the blocks that were opened, the open one among them.
ReaderFits(r, t) ==
  /\ r \in Readers
  /\ r.phase = IF t.started THEN "content" ELSE "none"
  /\ Len(r.blocks) = t.block + 1
  /\ r.open = IF t.kind = None THEN None ELSE t.block
  /\ t.kind # None => t.started /\ t.block >= 0 /\ r.blocks[t.block + 1] = t.kind
  /\ \A i \in DOMAIN t.toolBlock : t.toolBlock[i] \in 0..t.block /\ r.blocks[t.toolBlock[i] + 1] = "tool_use"

\* The other translator has the tools under their blocks, numbered in their order.
DownFits(d, t, order) ==
  /\ d \in Downs /\ d.role = t.started
  /\ d.finish = None /\ d.usage = FALSE /\ d.done = FALSE
  /\ d.next = Len(order)
  /\ \A k \in 1..Len(order) :
       t.toolBlock[order[k]] \in DOMAIN d.tools /\ d.tools[t.toolBlock[order[k]]] = k - 1

\* The client has the message.
ClientFits(c, order, m) ==
  /\ c \in Clients /\ c.message = m /\ Len(m.tools) = Len(order)
  /\ c.finish = None /\ c.usage = FALSE /\ c.error = FALSE /\ c.done = FALSE

Live(E, t, order, m) ==
  /\ t \in Translators /\ order \in Seq(ToolIndices) /\ m \in Messages
  /\ DOMAIN t.toolBlock = ToSet(order)
  /\ ReaderFits(E.reader, t) /\ DownFits(E.down, t, order) /\ ClientFits(E.client, order, m)

Follows(A, v, t, order, m) ==
  v \in Seq(Events) /\ \E E : Leads(A, v \o t.out, E, m) /\ Live(E, t, order, m)

LEMMA LiveSound ==
  ASSUME NEW E, NEW t, NEW order, NEW m, Live(E, t, order, m)
  PROVE  Sound(E, m)
<1>1. m \in Messages /\ E.down \in Downs /\ E.client \in Clients /\ E.client.message = m
  BY DEF Live, DownFits, ClientFits
<1>2. Quiet(E.down)
  BY <1>1 DEF Quiet, Downs
<1> QED BY <1>1, <1>2, UnderSelf DEF Sound

LEMMA ConsumeIs ==
  ASSUME NEW E, NEW event
  PROVE  /\ Consume(E, event).reader = Reads(E.reader, event)
         /\ Consume(E, event).down = [ProcessEvent(E.down, event) EXCEPT !.out = <<>>]
         /\ Consume(E, event).client = Hears(E.client, ProcessEvent(E.down, event).out)
BY DEF Consume, Consumer

\* One event more, and how it changes the agreement.
LEMMA Emits ==
  ASSUME NEW A, NEW v \in Seq(Events), NEW E, NEW t, NEW order, NEW m,
         Leads(A, v \o t.out, E, m), Live(E, t, order, m),
         NEW event \in Events, Acceptable(E.reader, event), NEW u, NEW others, NEW n, Under(m, n),
         Live(Consume(E, event), u, others, n), u.out = Append(t.out, event)
  PROVE  Follows(A, v, u, others, n)
<1>1. t.out \in Seq(Events)
  BY DEF Live, Translators
<1>2. v \o u.out = Append(v \o t.out, event)
  BY <1>1, AppendConcat
<1>3. ~E.client.done
  BY DEF Live, ClientFits
<1>4. Sound(Consume(E, event), n)
  BY LiveSound
<1>5. Leads(A, Append(v \o t.out, event), Consume(E, event), n)
  BY <1>3, <1>4, LeadsOn
<1> QED BY <1>2, <1>5 DEF Follows

-----------------------------------------------------------------------------
(* What each event does to the Anthropic client,                           *)

BlockStart(b, kind) == Event("block_start", b, kind, None)

BlockDelta(b, kind, piece) == Event("block_delta", b, kind, piece)

BlockStop(b) == Event("block_stop", b, None, None)

LEMMA ReadsStart == ASSUME NEW r PROVE Reads(r, MessageStart) = [r EXCEPT !.phase = "content"]
BY DEF Reads, MessageStart, Event

Opens(r, b, kind) == [r EXCEPT !.blocks = Append(@, kind), !.open = b]

LEMMA ReadsOpening == ASSUME NEW r, NEW b, NEW kind PROVE Reads(r, BlockStart(b, kind)) = Opens(r, b, kind)
<1> DEFINE x == BlockStart(b, kind)
<1>1. x.type = "block_start" /\ x.kind = kind /\ x.index = b
  BY DEF BlockStart, Event
<1> HIDE DEF x
<1>2. Reads(r, x) = [r EXCEPT !.blocks = Append(@, x.kind), !.open = x.index]
  BY <1>1 DEF Reads
<1> QED BY <1>1, <1>2 DEF x, Opens

LEMMA ReadsDelta == ASSUME NEW r, NEW b, NEW kind, NEW piece PROVE Reads(r, BlockDelta(b, kind, piece)) = r
BY DEF Reads, BlockDelta, Event

LEMMA ReadsStop == ASSUME NEW r, NEW b PROVE Reads(r, BlockStop(b)) = [r EXCEPT !.open = None]
BY DEF Reads, BlockStop, Event

\* to the other translator (what it puts out, and what it is afterwards)
DownAfter(d, event) == [ProcessEvent(d, event) EXCEPT !.out = <<>>]

DownSays(d, event) == ProcessEvent(d, event).out

SameDown(d, e) == e \in Downs /\ e.finish = d.finish /\ e.usage = d.usage /\ e.done = d.done

LEMMA DownIntroduces ==
  ASSUME NEW d \in Downs, d.role = FALSE
  PROVE  /\ DownSays(d, MessageStart) = <<RoleSaid>>
         /\ SameDown(d, DownAfter(d, MessageStart))
         /\ DownAfter(d, MessageStart).role = TRUE
         /\ DownAfter(d, MessageStart).tools = d.tools /\ DownAfter(d, MessageStart).next = d.next
<1> DEFINE e == ProcessEvent(d, MessageStart)
<1>1. e = [[d EXCEPT !.out = Append(@, RoleSaid)] EXCEPT !.role = TRUE]
  BY DEF ProcessEvent, MessageStart, Event, Introduced, Say
<1> HIDE DEF e
<1>2. e.out = Append(<<>>, RoleSaid)
  BY <1>1 DEF Downs
<1>3. LET a == [e EXCEPT !.out = <<>>]
      IN  /\ a \in Downs /\ a.role = TRUE /\ a.tools = d.tools /\ a.next = d.next
          /\ a.finish = d.finish /\ a.usage = d.usage /\ a.done = d.done
  BY <1>1 DEF Downs
<1> QED BY <1>2, <1>3, AppendEmpty DEF e, DownSays, DownAfter, SameDown

LEMMA DownStops ==
  ASSUME NEW d \in Downs, NEW b
  PROVE  DownSays(d, BlockStop(b)) = <<>> /\ DownAfter(d, BlockStop(b)) = d
<1>1. ProcessEvent(d, BlockStop(b)) = d
  BY DEF ProcessEvent, BlockStop, Event
<1>2. d.out = <<>> /\ [d EXCEPT !.out = <<>>] = d
  BY DEF Downs
<1> QED BY <1>1, <1>2 DEF DownSays, DownAfter

LEMMA DownOpens ==
  ASSUME NEW d \in Downs, d.role = TRUE, NEW b, NEW kind \in Texts
  PROVE  DownSays(d, BlockStart(b, kind)) = <<>> /\ DownAfter(d, BlockStart(b, kind)) = d
<1>1. ProcessEvent(d, BlockStart(b, kind)) = d
  BY DEF ProcessEvent, BlockStart, Event, BlockStarts, Introduced, Texts
<1>2. d.out = <<>> /\ [d EXCEPT !.out = <<>>] = d
  BY DEF Downs
<1> QED BY <1>1, <1>2 DEF DownSays, DownAfter

LEMMA DownCalls ==
  ASSUME NEW d \in Downs, d.role = TRUE, NEW b \in Int
  PROVE  /\ DownSays(d, BlockStart(b, "tool_use")) = <<Said("tool", None, d.next)>>
         /\ SameDown(d, DownAfter(d, BlockStart(b, "tool_use")))
         /\ DownAfter(d, BlockStart(b, "tool_use")).role = TRUE
         /\ DownAfter(d, BlockStart(b, "tool_use")).next = d.next + 1
         /\ DownAfter(d, BlockStart(b, "tool_use")).tools = With(d.tools, b, d.next)
<1> DEFINE e == ProcessEvent(d, BlockStart(b, "tool_use"))
           spoken == Said("tool", None, d.next)
           tools == With(d.tools, b, d.next)
<1>1. e = [[d EXCEPT !.out = Append(@, spoken)] EXCEPT !.next = d.next + 1, !.tools = tools]
  <2> DEFINE x == BlockStart(b, "tool_use")
  <2>1. x.type = "block_start" /\ x.kind = "tool_use" /\ x.index = b
    BY DEF BlockStart, Event
  <2> HIDE DEF x
  <2>2. e = BlockStarts(d, x)
    BY <2>1 DEF ProcessEvent, x
  <2>3. BlockStarts(d, x) = [[d EXCEPT !.out = Append(@, spoken)] EXCEPT !.next = d.next + 1, !.tools = tools]
    <3> DEFINE o == [d EXCEPT !.out = Append(@, spoken)]
    <3>1. o.tools = d.tools
      BY DEF Downs
    <3>2. BlockStarts(d, x) = [o EXCEPT !.next = d.next + 1,
            !.tools = [y \in DOMAIN o.tools \cup {b} |-> IF y = b THEN d.next ELSE o.tools[y]]]
      BY <2>1 DEF BlockStarts, Introduced, Say
    <3> QED BY <3>1, <3>2 DEF With
  <2> QED BY <2>2, <2>3
<1>2. tools \in Tables /\ d.next + 1 \in Nat
  <2>1. d.tools \in Tables /\ d.next \in Nat
    BY DEF Downs
  <2> HIDE DEF e, spoken
  <2>2. With(d.tools, b, d.next) \in Tables
    BY <2>1, TableGrown
  <2>3. d.next + 1 \in Nat
    BY <2>1
  <2> QED BY <2>2, <2>3
<1> HIDE DEF e, tools, spoken
<1>3. e.out = Append(<<>>, spoken)
  BY <1>1 DEF Downs
<1>4. LET a == [e EXCEPT !.out = <<>>]
      IN  /\ a \in Downs /\ a.role = TRUE /\ a.tools = tools /\ a.next = d.next + 1
          /\ a.finish = d.finish /\ a.usage = d.usage /\ a.done = d.done
  BY <1>1, <1>2 DEF Downs
<1> QED BY <1>3, <1>4, AppendEmpty DEF e, spoken, tools, DownSays, DownAfter, SameDown

LEMMA DownGrows ==
  ASSUME NEW d \in Downs, d.role = TRUE, NEW x, x.type = "block_delta"
  PROVE  /\ DownSays(d, x) = <<Said(x.kind, x.piece, IF x.kind = "tool_use" THEN ToolOf(d, x.index) ELSE None)>>
         /\ DownAfter(d, x) = d
<1> DEFINE e == ProcessEvent(d, x)
           spoken == Said(x.kind, x.piece, IF x.kind = "tool_use" THEN ToolOf(d, x.index) ELSE None)
<1>1. e = [d EXCEPT !.out = Append(@, spoken)]
  BY DEF ProcessEvent, BlockGrows, Introduced, Say
<1> HIDE DEF e, spoken
<1>2. e.out = Append(<<>>, spoken) /\ [e EXCEPT !.out = <<>>] = d
  BY <1>1 DEF Downs
<1> QED BY <1>2, AppendEmpty DEF e, spoken, DownSays, DownAfter

LEMMA DownTells ==
  ASSUME NEW d \in Downs, d.role = TRUE, NEW b, NEW kind \in Texts, NEW piece
  PROVE  /\ DownSays(d, BlockDelta(b, kind, piece)) = <<Said(kind, piece, None)>>
         /\ DownAfter(d, BlockDelta(b, kind, piece)) = d
<1> DEFINE x == BlockDelta(b, kind, piece)
<1>1. x.type = "block_delta" /\ x.kind = kind /\ x.piece = piece /\ kind # "tool_use"
  BY DEF BlockDelta, Event, Texts
<1> HIDE DEF x
<1>2. DownSays(d, x) = <<Said(x.kind, x.piece, IF x.kind = "tool_use" THEN ToolOf(d, x.index) ELSE None)>>
  BY <1>1, DownGrows
<1>3. DownAfter(d, x) = d
  BY <1>1, DownGrows
<1> QED BY <1>1, <1>2, <1>3 DEF x

LEMMA DownArgues ==
  ASSUME NEW d \in Downs, d.role = TRUE, NEW b \in DOMAIN d.tools, NEW piece
  PROVE  /\ DownSays(d, BlockDelta(b, "tool_use", piece)) = <<Said("tool_use", piece, d.tools[b])>>
         /\ DownAfter(d, BlockDelta(b, "tool_use", piece)) = d
<1> DEFINE x == BlockDelta(b, "tool_use", piece)
<1>1. x.type = "block_delta" /\ x.kind = "tool_use" /\ x.piece = piece /\ x.index = b
  BY DEF BlockDelta, Event
<1> HIDE DEF x
<1>2. DownSays(d, x) = <<Said(x.kind, x.piece, IF x.kind = "tool_use" THEN ToolOf(d, x.index) ELSE None)>>
  BY <1>1, DownGrows
<1>3. DownAfter(d, x) = d
  BY <1>1, DownGrows
<1> QED BY <1>1, <1>2, <1>3 DEF x, ToolOf

\* and to the client.
LEMMA ReceivesRole == ASSUME NEW c PROVE Receives(c, RoleSaid) = c
BY DEF Receives, RoleSaid, Said

Told(c, kind, x) == [c EXCEPT !.message[kind] = Append(@, x)]

LEMMA ReceivesPiece ==
  ASSUME NEW c, c.done = FALSE, NEW kind \in Texts, NEW x
  PROVE  Receives(c, Said(kind, x, None)) = Told(c, kind, x)
<1> DEFINE y == Said(kind, x, None)
<1>1. y.type = kind /\ y.value = x
  BY DEF Said
<1> HIDE DEF y
<1>2. Receives(c, y) = [c EXCEPT !.message[y.type] = Append(@, y.value)]
  BY <1>1 DEF Receives, Texts
<1> QED BY <1>1, <1>2 DEF y, Told

LEMMA ReceivesTool ==
  ASSUME NEW c, c.done = FALSE, NEW k
  PROVE  Receives(c, Said("tool", None, k)) = [c EXCEPT !.message.tools = Append(@, <<>>)]
BY DEF Receives, Said

LEMMA ReceivesArguments ==
  ASSUME NEW c, c.done = FALSE, NEW x, NEW k
  PROVE  Receives(c, Said("tool_use", x, k)) = [c EXCEPT !.message.tools[k + 1] = Append(@, x)]
<1> DEFINE y == Said("tool_use", x, k)
<1>1. y.type = "tool_use" /\ y.value = x /\ y.tool = k
  BY DEF Said
<1> HIDE DEF y
<1>2. Receives(c, y) = [c EXCEPT !.message.tools[y.tool + 1] = Append(@, y.value)]
  BY <1>1 DEF Receives
<1> QED BY <1>1, <1>2 DEF y

-----------------------------------------------------------------------------
(* The translator's operations, each of which puts out what keeps the      *)
(* others in agreement with it.                                            *)

SameEnd(t, u) == u.finish = t.finish /\ u.usage = t.usage /\ u.finalized = t.finalized

LEMMA LiveTyped ==
  ASSUME NEW E, NEW t, NEW order, NEW m, Live(E, t, order, m)
  PROVE  /\ t \in Translators /\ order \in Seq(ToolIndices) /\ m \in Messages
         /\ E.reader \in Readers /\ E.down \in Downs /\ E.client \in Clients
         /\ t.block \in Int /\ t.block >= -1 /\ t.out \in Seq(Events)
<1>1. /\ t \in Translators /\ order \in Seq(ToolIndices) /\ m \in Messages
      /\ E.reader \in Readers /\ E.down \in Downs /\ E.client \in Clients
      /\ Len(E.reader.blocks) = t.block + 1
  BY DEF Live, ReaderFits, DownFits, ClientFits
<1>2. t.block \in Int /\ t.out \in Seq(Events)
  BY <1>1 DEF Translators
<1>3. Len(E.reader.blocks) \in Nat
  BY <1>1, LenProperties DEF Readers
<1> QED BY <1>1, <1>2, <1>3

\* An event that only the Anthropic client takes note of, or that only introduces the answer.
LEMMA QuietEvent ==
  ASSUME NEW E, NEW event,
         \/ DownSays(E.down, event) = <<>>
         \/ DownSays(E.down, event) = <<RoleSaid>>
  PROVE  /\ Consume(E, event).client = E.client
         /\ Consume(E, event).reader = Reads(E.reader, event)
         /\ Consume(E, event).down = DownAfter(E.down, event)
<1>1. Consume(E, event).client = Hears(E.client, DownSays(E.down, event))
  BY ConsumeIs DEF DownSays
<1>2. Hears(E.client, <<>>) = E.client
  BY HearsNone
<1>3. Hears(E.client, <<RoleSaid>>) = E.client
  BY HearsOne, ReceivesRole
<1> QED BY <1>1, <1>2, <1>3, ConsumeIs DEF DownAfter

LEMMA StartedFollows ==
  ASSUME NEW A, NEW v, NEW t, NEW order, NEW m, Follows(A, v, t, order, m)
  PROVE  /\ Follows(A, v, Started(t), order, m)
         /\ Started(t).started = TRUE /\ Started(t).toolBlock = t.toolBlock
         /\ Started(t).kind = t.kind /\ SameEnd(t, Started(t))
<1>1. PICK E : v \in Seq(Events) /\ Leads(A, v \o t.out, E, m) /\ Live(E, t, order, m)
  BY DEF Follows
<1>2. /\ t \in Translators /\ E.reader \in Readers /\ E.down \in Downs /\ m \in Messages
      /\ ReaderFits(E.reader, t) /\ DownFits(E.down, t, order) /\ ClientFits(E.client, order, m)
  BY <1>1, LiveTyped DEF Live
<1>3. CASE t.started = TRUE
  BY <1>3 DEF Started, SameEnd
<1>4. CASE t.started = FALSE
  <2> DEFINE u == Started(t)
             F == Consume(E, MessageStart)
  <2>1. MessageStart \in Events
    BY DEF MessageStart, Event, Events
  <2>2. u = [[t EXCEPT !.out = Append(@, MessageStart)] EXCEPT !.started = TRUE]
    BY <1>4 DEF Started, Emit
  <2> HIDE DEF u
  <2>3. /\ u \in Translators /\ u.started = TRUE /\ u.out = Append(t.out, MessageStart)
        /\ u.block = t.block /\ u.kind = t.kind /\ u.toolBlock = t.toolBlock
        /\ u.finish = t.finish /\ u.usage = t.usage /\ u.finalized = t.finalized
    <3>1. Append(t.out, MessageStart) \in Seq(Events)
      BY <1>2, <2>1, AppendProperties DEF Translators
    <3> QED BY <1>2, <2>2, <3>1 DEF Translators
  <2>4. Acceptable(E.reader, MessageStart)
    BY <1>2, <1>4 DEF ReaderFits, Acceptable, MessageStart, Event
  <2>5. F.client = E.client /\ F.reader = Reads(E.reader, MessageStart) /\ F.down = DownAfter(E.down, MessageStart)
    <3>1. E.down.role = FALSE
      BY <1>2, <1>4 DEF DownFits
    <3>2. DownSays(E.down, MessageStart) = <<RoleSaid>>
      BY <1>2, <3>1, DownIntroduces
    <3> QED BY <3>2, QuietEvent
  <2> HIDE DEF F
  <2>6. ReaderFits(F.reader, u)
    <3>1. F.reader = [E.reader EXCEPT !.phase = "content"]
      BY <2>5, ReadsStart
    <3>2. /\ F.reader \in Readers /\ F.reader.phase = "content"
          /\ F.reader.blocks = E.reader.blocks /\ F.reader.open = E.reader.open
      BY <1>2, <3>1 DEF Readers
    <3> QED BY <1>2, <2>3, <3>2 DEF ReaderFits
  <2>7. DownFits(F.down, u, order)
    <3>1. E.down.role = FALSE
      BY <1>2, <1>4 DEF DownFits
    <3>2. /\ F.down \in Downs /\ F.down.role = TRUE /\ F.down.tools = E.down.tools /\ F.down.next = E.down.next
          /\ F.down.finish = E.down.finish /\ F.down.usage = E.down.usage /\ F.down.done = E.down.done
      BY <1>2, <2>5, <3>1, DownIntroduces DEF SameDown
    <3> QED BY <1>2, <2>3, <3>2 DEF DownFits
  <2>8. Live(F, u, order, m)
    BY <1>1, <2>3, <2>5, <2>6, <2>7 DEF Live
  <2>9. Follows(A, v, u, order, m)
    BY <1>1, <1>2, <2>1, <2>3, <2>4, <2>8, UnderSelf, Emits DEF F
  <2> QED BY <2>3, <2>9 DEF u, SameEnd
<1> QED BY <1>2, <1>3, <1>4 DEF Translators

LEMMA CloseBlockFollows ==
  ASSUME NEW A, NEW v, NEW t, NEW order, NEW m, Follows(A, v, t, order, m), t.started = TRUE
  PROVE  /\ Follows(A, v, CloseBlock(t), order, m)
         /\ CloseBlock(t).started = TRUE /\ CloseBlock(t).kind = None
         /\ CloseBlock(t).block = t.block /\ CloseBlock(t).toolBlock = t.toolBlock
         /\ SameEnd(t, CloseBlock(t))
<1>1. PICK E : v \in Seq(Events) /\ Leads(A, v \o t.out, E, m) /\ Live(E, t, order, m)
  BY DEF Follows
<1>2. /\ t \in Translators /\ E.reader \in Readers /\ E.down \in Downs /\ m \in Messages
      /\ ReaderFits(E.reader, t) /\ DownFits(E.down, t, order) /\ ClientFits(E.client, order, m)
  BY <1>1, LiveTyped DEF Live
<1>3. CASE t.kind = None
  BY <1>3 DEF CloseBlock, SameEnd
<1>4. CASE t.kind # None
  <2> DEFINE u == CloseBlock(t)
             event == BlockStop(t.block)
             F == Consume(E, event)
  <2>1. event \in Events /\ event.type = "block_stop" /\ event.index = t.block
    BY <1>2 DEF BlockStop, Event, Events, Translators
  <2>2. u = [[t EXCEPT !.out = Append(@, event)] EXCEPT !.kind = None]
    BY <1>4 DEF CloseBlock, Emit, BlockStop
  <2>3. F.client = E.client /\ F.reader = [E.reader EXCEPT !.open = None] /\ F.down = E.down
    <3>1. DownSays(E.down, event) = <<>> /\ DownAfter(E.down, event) = E.down
      BY <1>2, DownStops
    <3>2. Reads(E.reader, event) = [E.reader EXCEPT !.open = None]
      BY ReadsStop
    <3> HIDE DEF event
    <3> QED BY <3>1, <3>2, QuietEvent
  <2> HIDE DEF u, F, event
  <2>4. /\ u \in Translators /\ u.started = TRUE /\ u.out = Append(t.out, event)
        /\ u.block = t.block /\ u.kind = None /\ u.toolBlock = t.toolBlock
        /\ u.finish = t.finish /\ u.usage = t.usage /\ u.finalized = t.finalized
    <3>1. Append(t.out, event) \in Seq(Events)
      BY <1>2, <2>1, AppendProperties DEF Translators
    <3> QED BY <1>2, <2>2, <3>1 DEF Translators
  <2>5. Acceptable(E.reader, event)
    BY <1>2, <1>4, <2>1 DEF ReaderFits, Acceptable
  <2>6. ReaderFits(F.reader, u)
    <3>1. /\ F.reader \in Readers /\ F.reader.phase = E.reader.phase
          /\ F.reader.blocks = E.reader.blocks /\ F.reader.open = None
      BY <1>2, <2>3 DEF Readers
    <3> QED BY <1>2, <2>4, <3>1 DEF ReaderFits
  <2>7. DownFits(F.down, u, order)
    BY <1>2, <2>3, <2>4 DEF DownFits
  <2>8. Live(F, u, order, m)
    BY <1>1, <2>3, <2>4, <2>6, <2>7 DEF Live
  <2>9. Follows(A, v, u, order, m)
    BY <1>1, <1>2, <2>1, <2>4, <2>5, <2>8, UnderSelf, Emits DEF F
  <2> QED BY <2>4, <2>9 DEF u, SameEnd
<1> QED BY <1>3, <1>4

\* The Anthropic client's blocks, one more of them.
Opened(q, t, kind) ==
  /\ q \in Readers /\ q.phase = "content" /\ q.open = t.block + 1
  /\ t.block + 1 \in Nat /\ Len(q.blocks) = t.block + 2
  /\ q.blocks[t.block + 2] = kind
  /\ \A i \in DOMAIN t.toolBlock : t.toolBlock[i] \in 0..t.block /\ q.blocks[t.toolBlock[i] + 1] = "tool_use"

LEMMA ReaderOpens ==
  ASSUME NEW r, NEW t, ReaderFits(r, t), t \in Translators, t.kind = None, t.started = TRUE, NEW kind \in Kinds
  PROVE  Opened(Opens(r, t.block + 1, kind), t, kind)
<1> DEFINE q == Opens(r, t.block + 1, kind)
<1>1. /\ r \in Readers /\ r.blocks \in Seq(Kinds) /\ r.phase = "content" /\ Len(r.blocks) = t.block + 1
      /\ \A i \in DOMAIN t.toolBlock : t.toolBlock[i] \in 0..t.block /\ r.blocks[t.toolBlock[i] + 1] = "tool_use"
  BY DEF ReaderFits, Readers
<1>2. Len(r.blocks) \in Nat /\ t.block \in Int
  BY <1>1, LenProperties DEF Translators
<1> DEFINE b == Append(r.blocks, kind)
<1>3. /\ b \in Seq(Kinds) /\ Len(b) = Len(r.blocks) + 1 /\ b[Len(r.blocks) + 1] = kind
      /\ \A i \in 1..Len(r.blocks) : b[i] = r.blocks[i]
  BY <1>1, AppendProperties
<1> HIDE DEF b
<1>4. q \in Readers /\ q.phase = "content" /\ q.open = t.block + 1 /\ q.blocks = b
  <2>1. r \in Readers /\ r.phase = "content" /\ b \in Seq(Kinds) /\ t.block + 1 \in Int
    BY <1>1, <1>2, <1>3
  <2>2. q = [r EXCEPT !.blocks = b, !.open = t.block + 1]
    BY DEF b, Opens
  <2> HIDE DEF q
  <2> QED BY <2>1, <2>2 DEF Readers
<1> HIDE DEF q
<1>5. /\ t.block + 1 \in Nat /\ Len(b) = t.block + 2 /\ b[t.block + 2] = kind
  BY <1>1, <1>2, <1>3
<1>6. ASSUME NEW i \in DOMAIN t.toolBlock
      PROVE  t.toolBlock[i] \in 0..t.block /\ b[t.toolBlock[i] + 1] = "tool_use"
  <2>1. t.toolBlock[i] \in 0..t.block /\ r.blocks[t.toolBlock[i] + 1] = "tool_use"
    BY <1>1
  <2>2. t.toolBlock[i] + 1 \in 1..Len(r.blocks)
    BY <1>1, <1>2, <2>1
  <2> QED BY <1>3, <2>1, <2>2
<1>7. Opened(q, t, kind)
  BY <1>4, <1>5, <1>6 DEF Opened
<1> QED BY <1>7 DEF q

\* What opening a block makes of the translator, once no block is open.
Opening(c, b, kind) == [Emit(c, BlockStart(b, kind)) EXCEPT !.block = b, !.kind = kind]

LEMMA OpeningIs ==
  ASSUME NEW c \in Translators, NEW b \in Int, NEW kind \in Kinds
  PROVE  /\ Opening(c, b, kind) \in Translators /\ Opening(c, b, kind).out = Append(c.out, BlockStart(b, kind))
         /\ Opening(c, b, kind).started = c.started /\ Opening(c, b, kind).block = b
         /\ Opening(c, b, kind).kind = kind /\ Opening(c, b, kind).toolBlock = c.toolBlock
         /\ SameEnd(c, Opening(c, b, kind))
<1> DEFINE event == BlockStart(b, kind)
           u == Opening(c, b, kind)
<1>1. event \in Events
  BY DEF BlockStart, Event, Events
<1>2. u = [[c EXCEPT !.out = Append(@, event)] EXCEPT !.block = b, !.kind = kind]
  BY DEF Emit, Opening
<1> HIDE DEF event, u
<1>3. Append(c.out, event) \in Seq(Events)
  BY <1>1, AppendProperties DEF Translators
<1>4. /\ u \in Translators /\ u.out = Append(c.out, event)
      /\ u.started = c.started /\ u.block = b /\ u.kind = kind /\ u.toolBlock = c.toolBlock
      /\ u.finish = c.finish /\ u.usage = c.usage /\ u.finalized = c.finalized
  BY <1>2, <1>3 DEF Translators
<1> QED BY <1>4 DEF event, u, SameEnd

LEMMA OpenTextFollows ==
  ASSUME NEW A, NEW v, NEW t, NEW order, NEW m, Follows(A, v, t, order, m), t.started = TRUE,
         NEW kind \in Texts
  PROVE  /\ Follows(A, v, OpenBlock(t, kind), order, m)
         /\ OpenBlock(t, kind).started = TRUE /\ OpenBlock(t, kind).kind = kind
         /\ SameEnd(t, OpenBlock(t, kind))
<1> DEFINE c == CloseBlock(t)
           b == t.block + 1
           event == BlockStart(b, kind)
           u == OpenBlock(t, kind)
<1>1. /\ Follows(A, v, c, order, m) /\ c.started = TRUE /\ c.kind = None /\ c.block = t.block
      /\ SameEnd(t, c)
  BY CloseBlockFollows
<1>2. u = Opening(c, b, kind)
  BY DEF OpenBlock, Opening, BlockStart
<1> HIDE DEF c, u
<1>3. PICK E : v \in Seq(Events) /\ Leads(A, v \o c.out, E, m) /\ Live(E, c, order, m)
  BY <1>1 DEF Follows
<1>4. /\ c \in Translators /\ c.block \in Int /\ E.reader \in Readers /\ E.down \in Downs /\ m \in Messages
      /\ ReaderFits(E.reader, c) /\ DownFits(E.down, c, order) /\ ClientFits(E.client, order, m)
  BY <1>3, LiveTyped DEF Live
<1>5. b \in Int /\ kind \in Kinds /\ b = c.block + 1
  BY <1>1, <1>4 DEF Kinds, Texts
<1>6. event \in Events /\ event.type = "block_start" /\ event.index = b
  BY <1>5 DEF BlockStart, Event, Events
<1> DEFINE F == Consume(E, event)
<1>7. F.client = E.client /\ F.down = E.down /\ F.reader = Opens(E.reader, b, kind)
  <2>1. E.down.role = TRUE
    BY <1>1, <1>4 DEF DownFits
  <2>2. DownSays(E.down, event) = <<>> /\ DownAfter(E.down, event) = E.down
    BY <1>4, <2>1, DownOpens
  <2>3. Reads(E.reader, event) = Opens(E.reader, b, kind)
    BY ReadsOpening
  <2> HIDE DEF event
  <2> QED BY <2>2, <2>3, QuietEvent
<1>8. /\ u \in Translators /\ u.out = Append(c.out, event)
      /\ u.started = TRUE /\ u.block = b /\ u.kind = kind /\ u.toolBlock = c.toolBlock
      /\ SameEnd(c, u)
  BY <1>1, <1>2, <1>4, <1>5, OpeningIs
<1> HIDE DEF event, F
<1>9. Acceptable(E.reader, event)
  BY <1>1, <1>4, <1>5, <1>6 DEF ReaderFits, Acceptable
<1>10. /\ F.reader \in Readers /\ F.reader.phase = "content" /\ F.reader.open = b
       /\ b \in Nat /\ Len(F.reader.blocks) = b + 1 /\ F.reader.blocks[b + 1] = kind
       /\ \A i \in DOMAIN c.toolBlock :
            c.toolBlock[i] \in 0..c.block /\ F.reader.blocks[c.toolBlock[i] + 1] = "tool_use"
  <2>1. F.reader = Opens(E.reader, c.block + 1, kind)
    BY <1>5, <1>7
  <2>2. c.block + 2 = b + 1
    BY <1>4, <1>5
  <2> HIDE DEF b
  <2>3. Opened(F.reader, c, kind)
    BY <1>1, <1>4, <1>5, <2>1, ReaderOpens
  <2> QED BY <1>5, <2>2, <2>3 DEF Opened
<1> HIDE DEF b
<1>11. ReaderFits(F.reader, u)
  <2>1. kind # None
    BY NoneAssumption DEF Texts
  <2>2. \A i \in DOMAIN u.toolBlock :
          u.toolBlock[i] \in 0..u.block /\ F.reader.blocks[u.toolBlock[i] + 1] = "tool_use"
    <3>1. 0..c.block \subseteq 0..b
      BY <1>4, <1>5
    <3> QED BY <1>8, <1>10, <3>1
  <2>3. u.block >= 0 /\ F.reader.blocks[u.block + 1] = u.kind /\ Len(F.reader.blocks) = u.block + 1
    BY <1>8, <1>10
  <2> QED BY <1>8, <1>10, <2>1, <2>2, <2>3 DEF ReaderFits
<1>12. DownFits(F.down, u, order)
  BY <1>1, <1>4, <1>7, <1>8 DEF DownFits
<1>13. Live(F, u, order, m)
  BY <1>3, <1>7, <1>8, <1>11, <1>12 DEF Live
<1>14. Follows(A, v, u, order, m)
  BY <1>3, <1>4, <1>6, <1>8, <1>9, <1>13, UnderSelf, Emits DEF F
<1>15. SameEnd(t, u)
  BY <1>1, <1>8 DEF SameEnd
<1> QED BY <1>8, <1>14, <1>15 DEF u

\* A piece goes into the open block.
LEMMA DeltaFollows ==
  ASSUME NEW A, NEW v, NEW t, NEW order, NEW m, Follows(A, v, t, order, m), t.started = TRUE,
         NEW kind \in Texts, t.kind = kind, NEW x \in Nat
  PROVE  /\ Follows(A, v, Emit(t, BlockDelta(t.block, kind, x)), order, [m EXCEPT ![kind] = Append(@, x)])
         /\ Emit(t, BlockDelta(t.block, kind, x)).started = TRUE
         /\ SameEnd(t, Emit(t, BlockDelta(t.block, kind, x)))
<1> DEFINE event == BlockDelta(t.block, kind, x)
           u == Emit(t, event)
           n == [m EXCEPT ![kind] = Append(@, x)]
<1>1. PICK E : v \in Seq(Events) /\ Leads(A, v \o t.out, E, m) /\ Live(E, t, order, m)
  BY DEF Follows
<1>2. /\ t \in Translators /\ t.block \in Int /\ E.reader \in Readers /\ E.down \in Downs /\ m \in Messages
      /\ ReaderFits(E.reader, t) /\ DownFits(E.down, t, order) /\ ClientFits(E.client, order, m)
  BY <1>1, LiveTyped DEF Live
<1>3. kind \in Kinds /\ kind # None /\ kind # "tool_use"
  BY NoneAssumption DEF Kinds, Texts
<1>4. /\ event \in Events /\ event.type = "block_delta" /\ event.index = t.block /\ event.kind = kind
  BY <1>2, <1>3 DEF BlockDelta, Event, Events
<1> DEFINE F == Consume(E, event)
<1>5. F.reader = E.reader /\ F.down = E.down /\ F.client = Told(E.client, kind, x)
  <2>1. E.down \in Downs /\ E.down.role = TRUE /\ E.client.done = FALSE
    BY <1>2 DEF DownFits, ClientFits
  <2>2. DownSays(E.down, event) = <<Said(kind, x, None)>> /\ DownAfter(E.down, event) = E.down
    <3>1. \A p : DownSays(E.down, BlockDelta(t.block, kind, p)) = <<Said(kind, p, None)>>
                 /\ DownAfter(E.down, BlockDelta(t.block, kind, p)) = E.down
      BY <2>1, DownTells
    <3> QED BY <3>1
  <2>3. Reads(E.reader, event) = E.reader
    BY ReadsDelta
  <2>4. Hears(E.client, <<Said(kind, x, None)>>) = Told(E.client, kind, x)
    <3>1. Receives(E.client, Said(kind, x, None)) = Told(E.client, kind, x)
      BY <2>1, ReceivesPiece
    <3> QED BY <3>1, HearsOne
  <2> HIDE DEF event
  <2> QED BY <2>2, <2>3, <2>4, ConsumeIs DEF DownSays, DownAfter
<1> HIDE DEF event, F
<1>6. /\ u \in Translators /\ u.out = Append(t.out, event)
      /\ u.started = TRUE /\ u.block = t.block /\ u.kind = kind /\ u.toolBlock = t.toolBlock
      /\ u.finish = t.finish /\ u.usage = t.usage /\ u.finalized = t.finalized
  <2>1. Append(t.out, event) \in Seq(Events)
    BY <1>2, <1>4, AppendProperties DEF Translators
  <2> QED BY <1>2, <2>1 DEF Translators, Emit
<1>7. n \in Messages /\ Under(m, n) /\ n.tools = m.tools
  BY <1>2, UnderPiece DEF Texts
<1>8. ClientFits(F.client, order, n)
  <2>1. E.client \in Clients /\ E.client.message = m
    BY <1>2 DEF ClientFits
  <2>2. F.client = [E.client EXCEPT !.message = n]
    BY <1>5, <2>1 DEF Told
  <2> HIDE DEF n
  <2>3. /\ F.client \in Clients /\ F.client.message = n /\ F.client.finish = E.client.finish
        /\ F.client.usage = E.client.usage /\ F.client.error = E.client.error /\ F.client.done = E.client.done
    BY <1>7, <2>1, <2>2 DEF Clients
  <2> QED BY <1>2, <1>7, <2>3 DEF ClientFits
<1> HIDE DEF u, n
<1>9. Acceptable(E.reader, event)
  <2>1. t.block < Len(E.reader.blocks) /\ E.reader.blocks[t.block + 1] = kind /\ E.reader.phase = "content"
        /\ E.reader.open = t.block
    BY <1>2, <1>3 DEF ReaderFits
  <2> QED BY <1>4, <2>1 DEF Acceptable
<1>10. ReaderFits(F.reader, u)
  BY <1>2, <1>5, <1>6 DEF ReaderFits
<1>11. DownFits(F.down, u, order)
  <2>1. DownFits(E.down, t, order) /\ F.down = E.down /\ u.started = t.started /\ u.toolBlock = t.toolBlock
    BY <1>2, <1>5, <1>6 DEF DownFits
  <2> QED BY <2>1 DEF DownFits
<1>12. Live(F, u, order, n)
  BY <1>1, <1>6, <1>7, <1>8, <1>10, <1>11 DEF Live
<1>13. Follows(A, v, u, order, n)
  BY <1>1, <1>4, <1>6, <1>7, <1>9, <1>12, Emits DEF F
<1> QED BY <1>6, <1>13 DEF u, n, event, SameEnd

LEMMA PieceFollows ==
  ASSUME NEW A, NEW v, NEW t, NEW order, NEW m, Follows(A, v, t, order, m), t.started = TRUE,
         NEW kind \in Texts, NEW piece \in Nat \cup {None}
  PROVE  /\ Follows(A, v, Piece(t, kind, piece), order, [m EXCEPT ![kind] = Grown(@, piece)])
         /\ Piece(t, kind, piece).started = TRUE
         /\ SameEnd(t, Piece(t, kind, piece))
<1>1. CASE piece = None
  <2>1. m \in Messages
    BY LiveTyped DEF Follows
  <2>2. [m EXCEPT ![kind] = m[kind]] = m
    BY <2>1 DEF Messages, Texts
  <2> QED BY <1>1, <2>2 DEF Piece, Grown, SameEnd
<1>2. CASE piece # None
  <2> DEFINE o == IF t.kind = kind THEN t ELSE OpenBlock(t, kind)
  <2>1. Follows(A, v, o, order, m) /\ o.started = TRUE /\ o.kind = kind /\ SameEnd(t, o)
    <3>1. CASE t.kind = kind
      <4>1. o = t
        BY <3>1
      <4> HIDE DEF o
      <4> QED BY <3>1, <4>1 DEF SameEnd
    <3>2. CASE t.kind # kind
      <4>1. o = OpenBlock(t, kind)
        BY <3>2
      <4> HIDE DEF o
      <4> QED BY <4>1, OpenTextFollows
    <3> QED BY <3>1, <3>2
  <2>2. Piece(t, kind, piece) = Emit(o, BlockDelta(o.block, kind, piece))
    BY <1>2 DEF Piece, BlockDelta
  <2> HIDE DEF o
  <2>3. [m EXCEPT ![kind] = Grown(@, piece)] = [m EXCEPT ![kind] = Append(@, piece)]
    BY <1>2 DEF Grown
  <2>4. piece \in Nat
    BY <1>2
  <2>5. \A x \in Nat : /\ Follows(A, v, Emit(o, BlockDelta(o.block, kind, x)), order, [m EXCEPT ![kind] = Append(@, x)])
                       /\ Emit(o, BlockDelta(o.block, kind, x)).started = TRUE
                       /\ SameEnd(o, Emit(o, BlockDelta(o.block, kind, x)))
    BY <2>1, DeltaFollows
  <2> QED BY <2>1, <2>2, <2>3, <2>4, <2>5 DEF SameEnd
<1> QED BY <1>1, <1>2

\* The block b of a new tool i.
LEMMA DownFitsTool ==
  ASSUME NEW d, NEW t, NEW order \in Seq(ToolIndices), DownFits(d, t, order), t.toolBlock \in Tables,
         DOMAIN t.toolBlock = ToSet(order),
         NEW i, i \notin ToSet(order),
         NEW b \in Int, \A j \in DOMAIN t.toolBlock : t.toolBlock[j] # b,
         NEW e, SameDown(d, e), e.role = TRUE, e.next = d.next + 1, e.tools = With(d.tools, b, d.next),
         NEW u, u.started = TRUE, u.toolBlock = With(t.toolBlock, i, b)
  PROVE  DownFits(e, u, Append(order, i))
<1>1. /\ d \in Downs /\ d.next = Len(order) /\ Len(order) \in Nat /\ d.tools \in Tables
      /\ d.finish = None /\ d.usage = FALSE /\ d.done = FALSE
      /\ \A k \in 1..Len(order) :
           t.toolBlock[order[k]] \in DOMAIN d.tools /\ d.tools[t.toolBlock[order[k]]] = k - 1
  BY LenProperties DEF DownFits, Downs
<1>2. /\ e \in Downs /\ e.finish = None /\ e.usage = FALSE /\ e.done = FALSE
  BY <1>1 DEF SameDown
<1> DEFINE both == Append(order, i)
<1>3. /\ Len(both) = Len(order) + 1 /\ both[Len(order) + 1] = i
      /\ \A k \in 1..Len(order) : both[k] = order[k]
  BY <1>1
<1> HIDE DEF both
<1>4. \A k \in 1..Len(order) : order[k] \in ToSet(order) /\ order[k] # i
  BY DEF ToSet
<1>5. /\ DOMAIN e.tools = DOMAIN d.tools \cup {b} /\ e.tools[b] = d.next
      /\ \A x \in DOMAIN d.tools : x # b => e.tools[x] = d.tools[x]
  BY DEF With
<1>6. /\ u.toolBlock[i] = b
      /\ \A j \in DOMAIN t.toolBlock : j # i => u.toolBlock[j] = t.toolBlock[j]
  BY DEF With
<1>7. ASSUME NEW k \in 1..Len(both)
      PROVE  u.toolBlock[both[k]] \in DOMAIN e.tools /\ e.tools[u.toolBlock[both[k]]] = k - 1
  <2>1. CASE k = Len(order) + 1
    BY <1>1, <1>3, <1>5, <1>6, <2>1
  <2>2. CASE k # Len(order) + 1
    <3>1. k \in 1..Len(order)
      BY <1>1, <1>3, <2>2
    <3>2. both[k] = order[k] /\ order[k] \in DOMAIN t.toolBlock /\ order[k] # i
      BY <1>3, <1>4, <3>1
    <3>3. u.toolBlock[both[k]] = t.toolBlock[order[k]] /\ t.toolBlock[order[k]] # b
      BY <1>6, <3>2
    <3> QED BY <1>1, <1>5, <3>1, <3>3
  <2> QED BY <2>1, <2>2
<1>8. DownFits(e, u, both)
  BY <1>1, <1>2, <1>3, <1>7 DEF DownFits
<1> QED BY <1>8 DEF both

LEMMA ToSetAppend ==
  ASSUME NEW T, NEW s \in Seq(T), NEW x \in T
  PROVE  ToSet(Append(s, x)) = ToSet(s) \cup {x}
<1>1. /\ Append(s, x) \in Seq(T) /\ Len(Append(s, x)) = Len(s) + 1 /\ Len(s) \in Nat
      /\ Append(s, x)[Len(s) + 1] = x /\ \A k \in 1..Len(s) : Append(s, x)[k] = s[k]
      /\ DOMAIN Append(s, x) = 1..(Len(s) + 1) /\ DOMAIN s = 1..Len(s)
  BY AppendProperties, LenProperties
<1> QED BY <1>1 DEF ToSet

\* A tool more, without arguments yet.
LEMMA ToolsAppend ==
  ASSUME NEW m \in Messages
  PROVE  /\ [m EXCEPT !.tools = Append(@, <<>>)] \in Messages
         /\ Under(m, [m EXCEPT !.tools = Append(@, <<>>)])
         /\ Len([m EXCEPT !.tools = Append(@, <<>>)].tools) = Len(m.tools) + 1
<1> DEFINE tools == Append(m.tools, <<>>)
<1>1. m.tools \in Seq(Seq(Nat)) /\ Len(m.tools) \in Nat /\ \A k \in 1..Len(m.tools) : m.tools[k] \in Seq(Nat)
  BY MessageFields
<1>2. <<>> \in Seq(Nat)
  OBVIOUS
<1>3. /\ tools \in Seq(Seq(Nat)) /\ Len(tools) = Len(m.tools) + 1
      /\ \A k \in 1..Len(m.tools) : tools[k] = m.tools[k]
  BY <1>1, <1>2, AppendProperties
<1> HIDE DEF tools
<1>4. \A k \in 1..Len(m.tools) : Before(m.tools[k], tools[k])
  <2> SUFFICES ASSUME NEW k \in 1..Len(m.tools) PROVE Before(m.tools[k], m.tools[k])
    BY <1>3
  <2>1. m.tools[k] \in Seq(Nat)
    BY <1>1
  <2>2. Len(m.tools[k]) \in Nat
    BY <2>1, LenProperties
  <2> QED BY <2>2 DEF Before
<1>5. Len(m.tools) <= Len(tools)
  BY <1>1, <1>3
<1>6. [m EXCEPT !.tools = tools] \in Messages /\ Under(m, [m EXCEPT !.tools = tools])
  BY <1>3, <1>4, <1>5, UnderTools
<1>7. [m EXCEPT !.tools = tools].tools = tools
  BY DEF Messages
<1> QED BY <1>3, <1>6, <1>7 DEF tools

\* A block for a new tool.
OpeningTool(c, b, i) == [Opening(c, b, "tool_use") EXCEPT !.toolBlock = With(@, i, b)]

LEMMA OpeningToolIs ==
  ASSUME NEW c \in Translators, NEW b \in Nat, NEW i \in Int
  PROVE  /\ OpeningTool(c, b, i) \in Translators
         /\ OpeningTool(c, b, i).out = Append(c.out, BlockStart(b, "tool_use"))
         /\ OpeningTool(c, b, i).started = c.started /\ OpeningTool(c, b, i).block = b
         /\ OpeningTool(c, b, i).kind = "tool_use"
         /\ OpeningTool(c, b, i).toolBlock = With(c.toolBlock, i, b)
         /\ SameEnd(c, OpeningTool(c, b, i))
<1> DEFINE o == Opening(c, b, "tool_use")
           u == OpeningTool(c, b, i)
<1>1. /\ o \in Translators /\ o.out = Append(c.out, BlockStart(b, "tool_use"))
      /\ o.started = c.started /\ o.block = b /\ o.kind = "tool_use" /\ o.toolBlock = c.toolBlock
      /\ SameEnd(c, o)
  <2>1. b \in Int /\ "tool_use" \in Kinds
    BY DEF Kinds
  <2> QED BY <2>1, OpeningIs
<1>2. u = [o EXCEPT !.toolBlock = With(@, i, b)]
  BY DEF OpeningTool
<1> HIDE DEF o, u
<1>3. With(o.toolBlock, i, b) \in Tables
  <2>1. o.toolBlock \in Tables
    BY <1>1 DEF Translators
  <2> QED BY <2>1, TableGrown
<1> DEFINE table == With(o.toolBlock, i, b)
<1>4. u = [o EXCEPT !.toolBlock = table]
  BY <1>2
<1>5. table \in Tables
  BY <1>3
<1> HIDE DEF table
<1>6. /\ u \in Translators /\ u.out = o.out /\ u.started = o.started /\ u.block = o.block
      /\ u.kind = o.kind /\ u.toolBlock = table
      /\ u.finish = o.finish /\ u.usage = o.usage /\ u.finalized = o.finalized
  BY <1>1, <1>4, <1>5 DEF Translators
<1> QED BY <1>1, <1>6 DEF table, u, SameEnd

LEMMA NewToolFollows ==
  ASSUME NEW A, NEW v, NEW t, NEW order, NEW m, Follows(A, v, t, order, m), t.started = TRUE,
         NEW i \in ToolIndices, i \notin DOMAIN t.toolBlock
  PROVE  /\ Follows(A, v, ToolKnown(t, i), Append(order, i), [m EXCEPT !.tools = Append(@, <<>>)])
         /\ ToolKnown(t, i).started = TRUE /\ SameEnd(t, ToolKnown(t, i))
<1> DEFINE c == CloseBlock(t)
           b == t.block + 1
           event == BlockStart(b, "tool_use")
           u == ToolKnown(t, i)
           n == [m EXCEPT !.tools = Append(@, <<>>)]
           both == Append(order, i)
<1>1. /\ Follows(A, v, c, order, m) /\ c.started = TRUE /\ c.kind = None /\ c.block = t.block
      /\ c.toolBlock = t.toolBlock /\ SameEnd(t, c)
  BY CloseBlockFollows
<1>2. u = OpeningTool(c, b, i)
  BY DEF ToolKnown, OpenBlock, OpeningTool, Opening, BlockStart, With
<1> HIDE DEF c, u
<1>3. PICK E : v \in Seq(Events) /\ Leads(A, v \o c.out, E, m) /\ Live(E, c, order, m)
  BY <1>1 DEF Follows
<1>4. /\ c \in Translators /\ c.block \in Int /\ c.block >= -1 /\ E.reader \in Readers /\ E.down \in Downs
      /\ m \in Messages /\ order \in Seq(ToolIndices)
      /\ ReaderFits(E.reader, c) /\ DownFits(E.down, c, order) /\ ClientFits(E.client, order, m)
      /\ DOMAIN c.toolBlock = ToSet(order) /\ c.toolBlock \in Tables
  BY <1>3, LiveTyped DEF Live, Translators
<1>5. b \in Int /\ b \in Nat /\ b = c.block + 1 /\ "tool_use" \in Kinds /\ i \in Int
  BY <1>1, <1>4, StreamAssumption DEF Kinds
<1>6. event \in Events /\ event.type = "block_start" /\ event.index = b
  BY <1>5 DEF BlockStart, Event, Events
<1> DEFINE F == Consume(E, event)
<1>7. /\ F.reader = Opens(E.reader, b, "tool_use")
      /\ SameDown(E.down, F.down) /\ F.down.role = TRUE /\ F.down.next = E.down.next + 1
      /\ F.down.tools = With(E.down.tools, b, E.down.next)
      /\ F.client = [E.client EXCEPT !.message.tools = Append(@, <<>>)]
  <2>1. E.down.role = TRUE /\ E.client.done = FALSE
    BY <1>1, <1>4 DEF DownFits, ClientFits
  <2>2. /\ DownSays(E.down, event) = <<Said("tool", None, E.down.next)>>
        /\ SameDown(E.down, DownAfter(E.down, event))
        /\ DownAfter(E.down, event).role = TRUE
        /\ DownAfter(E.down, event).next = E.down.next + 1
        /\ DownAfter(E.down, event).tools = With(E.down.tools, b, E.down.next)
    BY <1>4, <1>5, <2>1, DownCalls
  <2>3. Reads(E.reader, event) = Opens(E.reader, b, "tool_use")
    BY ReadsOpening
  <2>4. Hears(E.client, <<Said("tool", None, E.down.next)>>) = [E.client EXCEPT !.message.tools = Append(@, <<>>)]
    <3>1. Receives(E.client, Said("tool", None, E.down.next)) = [E.client EXCEPT !.message.tools = Append(@, <<>>)]
      BY <2>1, ReceivesTool
    <3> QED BY <3>1, HearsOne
  <2> HIDE DEF event
  <2>5. F.down = DownAfter(E.down, event) /\ F.reader = Reads(E.reader, event)
        /\ F.client = Hears(E.client, DownSays(E.down, event))
    BY ConsumeIs DEF DownSays, DownAfter
  <2> HIDE DEF F
  <2> QED BY <2>2, <2>3, <2>4, <2>5
<1>8. /\ u \in Translators /\ u.out = Append(c.out, event)
      /\ u.started = TRUE /\ u.block = b /\ u.kind = "tool_use" /\ u.toolBlock = With(c.toolBlock, i, b)
      /\ SameEnd(c, u)
  <2>1. b \in Nat /\ i \in Int
    BY <1>5
  <2> HIDE DEF b, n, both, F
  <2>2. c \in Translators /\ c.started = TRUE
    BY <1>1, <1>4
  <2>3. /\ OpeningTool(c, b, i) \in Translators
        /\ OpeningTool(c, b, i).out = Append(c.out, BlockStart(b, "tool_use"))
        /\ OpeningTool(c, b, i).started = TRUE /\ OpeningTool(c, b, i).block = b
        /\ OpeningTool(c, b, i).kind = "tool_use"
        /\ OpeningTool(c, b, i).toolBlock = With(c.toolBlock, i, b)
        /\ SameEnd(c, OpeningTool(c, b, i))
    BY <2>1, <2>2, OpeningToolIs
  <2> QED BY <1>2, <2>3
<1> HIDE DEF event, F
<1>9. Acceptable(E.reader, event)
  BY <1>1, <1>4, <1>5, <1>6 DEF ReaderFits, Acceptable
<1>10. Opened(F.reader, c, "tool_use")
  <2> HIDE DEF b
  <2>1. F.reader = Opens(E.reader, c.block + 1, "tool_use")
    BY <1>5, <1>7
  <2> QED BY <1>1, <1>4, <1>5, <2>1, ReaderOpens
<1>11. /\ F.reader \in Readers /\ F.reader.phase = "content" /\ F.reader.open = b
       /\ Len(F.reader.blocks) = b + 1 /\ F.reader.blocks[b + 1] = "tool_use"
       /\ \A j \in DOMAIN c.toolBlock :
            c.toolBlock[j] \in 0..c.block /\ F.reader.blocks[c.toolBlock[j] + 1] = "tool_use"
  <2>1. c.block + 2 = b + 1
    BY <1>4, <1>5
  <2> HIDE DEF b
  <2> QED BY <1>5, <1>10, <2>1 DEF Opened
<1>12. 0..c.block \subseteq 0..b /\ b \in 0..b /\ b \notin 0..c.block /\ b >= 0
  BY <1>4, <1>5
<1> HIDE DEF b
<1>13. ReaderFits(F.reader, u)
  <2>1. "tool_use" # None
    BY NoneAssumption
  <2>2. ASSUME NEW j \in DOMAIN u.toolBlock
        PROVE  u.toolBlock[j] \in 0..u.block /\ F.reader.blocks[u.toolBlock[j] + 1] = "tool_use"
    <3>1. u.toolBlock[j] = IF j = i THEN b ELSE c.toolBlock[j]
      BY <1>8 DEF With
    <3>2. j = i \/ j \in DOMAIN c.toolBlock
      BY <1>8 DEF With
    <3> QED BY <1>8, <1>11, <1>12, <3>1, <3>2
  <2>3. u.block >= 0 /\ F.reader.blocks[u.block + 1] = u.kind /\ Len(F.reader.blocks) = u.block + 1
    BY <1>8, <1>11, <1>12
  <2> QED BY <1>8, <1>11, <2>1, <2>2, <2>3 DEF ReaderFits
<1>14. i \notin ToSet(order)
  BY <1>1, <1>4
<1>15. DownFits(F.down, u, both)
  <2>1. \A j \in DOMAIN c.toolBlock : c.toolBlock[j] # b
    BY <1>11, <1>12
  <2> HIDE DEF F
  <2> QED BY <1>4, <1>5, <1>7, <1>8, <1>14, <2>1, DownFitsTool
<1>16. n \in Messages /\ Under(m, n) /\ Len(n.tools) = Len(m.tools) + 1
  BY <1>4, ToolsAppend
<1>17. both \in Seq(ToolIndices) /\ Len(both) = Len(order) + 1 /\ ToSet(both) = ToSet(order) \cup {i}
  BY <1>4, ToSetAppend, AppendProperties
<1> HIDE DEF both
<1>18. ClientFits(F.client, both, n)
  <2>1. E.client \in Clients /\ E.client.message = m /\ Len(m.tools) = Len(order)
    BY <1>4 DEF ClientFits
  <2>2. F.client = [E.client EXCEPT !.message = n]
    BY <1>7, <2>1
  <2> HIDE DEF n
  <2>3. /\ F.client \in Clients /\ F.client.message = n /\ F.client.finish = E.client.finish
        /\ F.client.usage = E.client.usage /\ F.client.error = E.client.error /\ F.client.done = E.client.done
    BY <1>16, <2>1, <2>2 DEF Clients
  <2>4. Len(n.tools) = Len(both)
    BY <1>16, <1>17, <2>1
  <2> QED BY <1>4, <2>3, <2>4 DEF ClientFits
<1> HIDE DEF n
<1>19. DOMAIN u.toolBlock = ToSet(both)
  BY <1>4, <1>8, <1>17 DEF With
<1>20. Live(F, u, both, n)
  BY <1>8, <1>13, <1>15, <1>16, <1>17, <1>18, <1>19 DEF Live
<1>21. Follows(A, v, u, both, n)
  BY <1>3, <1>6, <1>8, <1>9, <1>16, <1>20, Emits DEF F
<1>22. SameEnd(t, u)
  BY <1>1, <1>8 DEF SameEnd
<1> QED BY <1>8, <1>21, <1>22 DEF u, n, both

\* A piece more of the arguments of a tool.
Argued(m, k, x) == [m EXCEPT !.tools[k] = Append(@, x)]

LEMMA ToolsArgued ==
  ASSUME NEW m \in Messages, NEW k \in 1..Len(m.tools), NEW x \in Nat
  PROVE  /\ Argued(m, k, x) \in Messages /\ Under(m, Argued(m, k, x))
         /\ Len(Argued(m, k, x).tools) = Len(m.tools)
<1> DEFINE tools == [m.tools EXCEPT ![k] = Append(m.tools[k], x)]
<1>1. /\ m.tools \in Seq(Seq(Nat)) /\ Len(m.tools) \in Nat /\ DOMAIN m.tools = 1..Len(m.tools)
      /\ \A j \in 1..Len(m.tools) : m.tools[j] \in Seq(Nat)
  BY MessageFields
<1>2. Append(m.tools[k], x) \in Seq(Nat) /\ Before(m.tools[k], Append(m.tools[k], x))
  BY <1>1, BeforeAppend
<1>3. /\ tools \in Seq(Seq(Nat)) /\ Len(tools) = Len(m.tools) /\ tools[k] = Append(m.tools[k], x)
      /\ \A j \in 1..Len(m.tools) : j # k => tools[j] = m.tools[j]
  BY <1>1, <1>2, ExceptSeq
<1> HIDE DEF tools
<1>4. ASSUME NEW j \in 1..Len(m.tools) PROVE Before(m.tools[j], tools[j])
  <2>1. m.tools[j] \in Seq(Nat)
    BY <1>1
  <2>2. Before(m.tools[j], m.tools[j])
    <3>1. Len(m.tools[j]) \in Nat
      BY <2>1, LenProperties
    <3> QED BY <3>1 DEF Before
  <2> QED BY <1>2, <1>3, <2>2
<1>5. Len(m.tools) <= Len(tools)
  BY <1>1, <1>3
<1>6. [m EXCEPT !.tools = tools] \in Messages /\ Under(m, [m EXCEPT !.tools = tools])
  BY <1>3, <1>4, <1>5, UnderTools
<1>7. [m EXCEPT !.tools = tools].tools = tools
  BY DEF Messages
<1>8. Argued(m, k, x) = [m EXCEPT !.tools = tools]
  BY DEF Argued, tools
<1> QED BY <1>3, <1>6, <1>7, <1>8

LEMMA ArgumentsFollow ==
  ASSUME NEW A, NEW v, NEW t, NEW order, NEW m, Follows(A, v, t, order, m), t.started = TRUE,
         NEW k \in 1..Len(order), NEW x \in Nat
  PROVE  /\ Follows(A, v, Emit(t, BlockDelta(t.toolBlock[order[k]], "tool_use", x)), order, Argued(m, k, x))
         /\ Emit(t, BlockDelta(t.toolBlock[order[k]], "tool_use", x)).started = TRUE
         /\ SameEnd(t, Emit(t, BlockDelta(t.toolBlock[order[k]], "tool_use", x)))
<1> DEFINE b == t.toolBlock[order[k]]
           event == BlockDelta(b, "tool_use", x)
           u == Emit(t, event)
           n == Argued(m, k, x)
<1>1. PICK E : v \in Seq(Events) /\ Leads(A, v \o t.out, E, m) /\ Live(E, t, order, m)
  BY DEF Follows
<1>2. /\ t \in Translators /\ t.block \in Int /\ E.reader \in Readers /\ E.down \in Downs /\ m \in Messages
      /\ ReaderFits(E.reader, t) /\ DownFits(E.down, t, order) /\ ClientFits(E.client, order, m)
      /\ DOMAIN t.toolBlock = ToSet(order) /\ order \in Seq(ToolIndices) /\ t.toolBlock \in Tables
  BY <1>1, LiveTyped DEF Live, Translators
<1>3. /\ order[k] \in DOMAIN t.toolBlock
      /\ b \in 0..t.block /\ E.reader.blocks[b + 1] = "tool_use"
      /\ b \in DOMAIN E.down.tools /\ E.down.tools[b] = k - 1 /\ b \in Int
  <2>1. order[k] \in DOMAIN t.toolBlock
    BY <1>2 DEF ToSet
  <2>2. b \in 0..t.block /\ E.reader.blocks[b + 1] = "tool_use"
    BY <1>2, <2>1 DEF ReaderFits
  <2>3. b \in DOMAIN E.down.tools /\ E.down.tools[b] = k - 1
    BY <1>2 DEF DownFits
  <2> QED BY <1>2, <2>1, <2>2, <2>3
<1> HIDE DEF b
<1>4. /\ event \in Events /\ event.type = "block_delta" /\ event.index = b /\ event.kind = "tool_use"
  BY <1>3 DEF BlockDelta, Event, Events, Kinds
<1> DEFINE F == Consume(E, event)
<1>5. /\ F.reader = E.reader /\ F.down = E.down
      /\ F.client = [E.client EXCEPT !.message.tools[k] = Append(@, x)]
  <2>1. E.down \in Downs /\ E.down.role = TRUE /\ E.client.done = FALSE
    BY <1>2 DEF DownFits, ClientFits
  <2>2. DownSays(E.down, event) = <<Said("tool_use", x, k - 1)>> /\ DownAfter(E.down, event) = E.down
    <3>1. \A p : /\ DownSays(E.down, BlockDelta(b, "tool_use", p)) = <<Said("tool_use", p, E.down.tools[b])>>
                 /\ DownAfter(E.down, BlockDelta(b, "tool_use", p)) = E.down
      BY <1>3, <2>1, DownArgues
    <3> QED BY <1>3, <3>1
  <2>3. Reads(E.reader, event) = E.reader
    BY ReadsDelta
  <2>4. Hears(E.client, <<Said("tool_use", x, k - 1)>>) = [E.client EXCEPT !.message.tools[k] = Append(@, x)]
    <3>1. \A p, j : Receives(E.client, Said("tool_use", p, j)) = [E.client EXCEPT !.message.tools[j + 1] = Append(@, p)]
      BY <2>1, ReceivesArguments
    <3>2. (k - 1) + 1 = k
      BY <1>2
    <3>3. Receives(E.client, Said("tool_use", x, k - 1)) = [E.client EXCEPT !.message.tools[k] = Append(@, x)]
      BY <3>1, <3>2
    <3> QED BY <3>3, HearsOne
  <2> HIDE DEF event
  <2>5. F.down = DownAfter(E.down, event) /\ F.reader = Reads(E.reader, event)
        /\ F.client = Hears(E.client, DownSays(E.down, event))
    BY ConsumeIs DEF DownSays, DownAfter
  <2> HIDE DEF F
  <2> QED BY <2>2, <2>3, <2>4, <2>5
<1> HIDE DEF event, F
<1>6. /\ u \in Translators /\ u.out = Append(t.out, event)
      /\ u.started = TRUE /\ u.block = t.block /\ u.kind = t.kind /\ u.toolBlock = t.toolBlock
      /\ u.finish = t.finish /\ u.usage = t.usage /\ u.finalized = t.finalized
  <2>1. Append(t.out, event) \in Seq(Events)
    BY <1>2, <1>4, AppendProperties DEF Translators
  <2> QED BY <1>2, <2>1 DEF Translators, Emit
<1>7. n \in Messages /\ Under(m, n) /\ Len(n.tools) = Len(m.tools) /\ Len(m.tools) = Len(order)
  <2>1. Len(m.tools) = Len(order)
    BY <1>2 DEF ClientFits
  <2> QED BY <1>2, <2>1, ToolsArgued
<1>8. ClientFits(F.client, order, n)
  <2>1. E.client \in Clients /\ E.client.message = m
    BY <1>2 DEF ClientFits
  <2>2. F.client = [E.client EXCEPT !.message = n]
    BY <1>5, <2>1 DEF Argued
  <2> HIDE DEF n
  <2>3. /\ F.client \in Clients /\ F.client.message = n /\ F.client.finish = E.client.finish
        /\ F.client.usage = E.client.usage /\ F.client.error = E.client.error /\ F.client.done = E.client.done
    BY <1>7, <2>1, <2>2 DEF Clients
  <2> QED BY <1>2, <1>7, <2>3 DEF ClientFits
<1> HIDE DEF u, n
<1>9. Acceptable(E.reader, event)
  <2>1. b < Len(E.reader.blocks) /\ E.reader.blocks[b + 1] = "tool_use" /\ E.reader.phase = "content"
    BY <1>2, <1>3 DEF ReaderFits
  <2> QED BY <1>4, <2>1 DEF Acceptable
<1>10. ReaderFits(F.reader, u)
  BY <1>2, <1>5, <1>6 DEF ReaderFits
<1>11. DownFits(F.down, u, order)
  <2>1. DownFits(E.down, t, order) /\ F.down = E.down /\ u.started = t.started /\ u.toolBlock = t.toolBlock
    BY <1>2, <1>5, <1>6 DEF DownFits
  <2> QED BY <2>1 DEF DownFits
<1>12. Live(F, u, order, n)
  BY <1>1, <1>6, <1>7, <1>8, <1>10, <1>11 DEF Live
<1>13. Follows(A, v, u, order, n)
  BY <1>1, <1>4, <1>6, <1>7, <1>9, <1>12, Emits DEF F
<1> QED BY <1>6, <1>13 DEF u, n, event, b, SameEnd

\* No tool is twice in the order.
LEMMA FollowsTyped ==
  ASSUME NEW A, NEW v, NEW t, NEW order, NEW m, Follows(A, v, t, order, m)
  PROVE  /\ t \in Translators /\ order \in Seq(ToolIndices) /\ m \in Messages /\ v \in Seq(Events)
         /\ DOMAIN t.toolBlock = ToSet(order) /\ Len(m.tools) = Len(order)
         /\ \A j, k \in 1..Len(order) : order[j] = order[k] => j = k
<1>1. PICK E : v \in Seq(Events) /\ Leads(A, v \o t.out, E, m) /\ Live(E, t, order, m)
  BY DEF Follows
<1>2. /\ t \in Translators /\ order \in Seq(ToolIndices) /\ m \in Messages
      /\ DOMAIN t.toolBlock = ToSet(order) /\ Len(m.tools) = Len(order) /\ DownFits(E.down, t, order)
  BY <1>1 DEF Live, ClientFits
<1>3. ASSUME NEW j \in 1..Len(order), NEW k \in 1..Len(order), order[j] = order[k] PROVE j = k
  <2>1. E.down.tools[t.toolBlock[order[j]]] = j - 1 /\ E.down.tools[t.toolBlock[order[k]]] = k - 1
    BY <1>2 DEF DownFits
  <2>2. j - 1 = k - 1
    BY <1>3, <2>1
  <2>3. Len(order) \in Nat
    BY <1>2, LenProperties
  <2> QED BY <2>2, <2>3
<1> QED BY <1>1, <1>2, <1>3

\* What one tool call delta makes of the order and of the message.
OrderKnowing(order, i) == IF i \in ToSet(order) THEN order ELSE Append(order, i)

MessageKnowing(order, m, i) == IF i \in ToSet(order) THEN m ELSE [m EXCEPT !.tools = Append(@, <<>>)]

LEMMA ToolKnownFollows ==
  ASSUME NEW A, NEW v, NEW t, NEW order, NEW m, Follows(A, v, t, order, m), t.started = TRUE,
         NEW i \in ToolIndices
  PROVE  /\ Follows(A, v, ToolKnown(t, i), OrderKnowing(order, i), MessageKnowing(order, m, i))
         /\ ToolKnown(t, i).started = TRUE /\ SameEnd(t, ToolKnown(t, i))
         /\ i \in ToSet(OrderKnowing(order, i))
<1>1. DOMAIN t.toolBlock = ToSet(order) /\ order \in Seq(ToolIndices)
  BY FollowsTyped
<1>2. CASE i \in ToSet(order)
  <2>1. ToolKnown(t, i) = t /\ OrderKnowing(order, i) = order /\ MessageKnowing(order, m, i) = m
    BY <1>1, <1>2 DEF ToolKnown, OrderKnowing, MessageKnowing
  <2> QED BY <1>2, <2>1 DEF SameEnd
<1>3. CASE i \notin ToSet(order)
  <2>1. OrderKnowing(order, i) = Append(order, i) /\ MessageKnowing(order, m, i) = [m EXCEPT !.tools = Append(@, <<>>)]
    BY <1>3 DEF OrderKnowing, MessageKnowing
  <2>2. i \notin DOMAIN t.toolBlock
    BY <1>1, <1>3
  <2>3. i \in ToSet(Append(order, i))
    BY <1>1, ToSetAppend
  <2>4. /\ Follows(A, v, ToolKnown(t, i), Append(order, i), [m EXCEPT !.tools = Append(@, <<>>)])
        /\ ToolKnown(t, i).started = TRUE /\ SameEnd(t, ToolKnown(t, i))
    BY <2>2, NewToolFollows
  <2> QED BY <2>1, <2>3, <2>4
<1> QED BY <1>2, <1>3

CallsOf(order, m) == [order |-> order, tools |-> m.tools]

Deltas == [index : ToolIndices, arguments : Nat \cup {None}]

LEMMA CallsWithIs ==
  ASSUME NEW order, NEW m \in Messages, NEW delta
  PROVE  /\ CallsWith(CallsOf(order, m), delta).order = OrderKnowing(order, delta.index)
         /\ CallsWith(CallsOf(order, m), delta).tools =
              [k \in DOMAIN MessageKnowing(order, m, delta.index).tools |->
                 IF OrderKnowing(order, delta.index)[k] = delta.index
                 THEN Grown(MessageKnowing(order, m, delta.index).tools[k], delta.arguments)
                 ELSE MessageKnowing(order, m, delta.index).tools[k]]
<1>1. CASE delta.index \in ToSet(order)
  BY <1>1 DEF CallsWith, CallsOf, OrderKnowing, MessageKnowing
<1>2. CASE delta.index \notin ToSet(order)
  <2>1. [m EXCEPT !.tools = Append(@, <<>>)].tools = Append(m.tools, <<>>)
    BY DEF Messages
  <2> QED BY <1>2, <2>1 DEF CallsWith, CallsOf, OrderKnowing, MessageKnowing
<1> QED BY <1>1, <1>2

WithTools(m, tools) == [m EXCEPT !.tools = tools]

LEMMA WithToolsIs ==
  ASSUME NEW m \in Messages, NEW tools, NEW k
  PROVE  /\ WithTools(m, m.tools) = m
         /\ WithTools(WithTools(m, tools), tools) = WithTools(m, tools)
         /\ \A w : WithTools(WithTools(m, tools), w) = WithTools(m, w)
         /\ WithTools(m, tools).tools = tools
         /\ \A x : Argued(m, k, x) = WithTools(m, [m.tools EXCEPT ![k] = Append(@, x)])
BY DEF WithTools, Messages, Argued

LEMMA MessageKnowingIs ==
  ASSUME NEW order, NEW m \in Messages, NEW i
  PROVE  /\ WithTools(m, MessageKnowing(order, m, i).tools) = MessageKnowing(order, m, i)
         /\ \A w : WithTools(MessageKnowing(order, m, i), w) = WithTools(m, w)
<1>1. CASE i \in ToSet(order)
  <2>1. MessageKnowing(order, m, i) = m
    BY <1>1 DEF MessageKnowing
  <2> QED BY <2>1, WithToolsIs
<1>2. CASE i \notin ToSet(order)
  <2>1. MessageKnowing(order, m, i) = WithTools(m, Append(m.tools, <<>>))
    BY <1>2 DEF MessageKnowing, WithTools
  <2> QED BY <2>1, WithToolsIs
<1> QED BY <1>1, <1>2

\* The tools T after a delta of the tool i, which is the kth in the order O.
GrownTools(T, O, i, arguments) == [j \in DOMAIN T |-> IF O[j] = i THEN Grown(T[j], arguments) ELSE T[j]]

GrownAt(T, k, x) == [T EXCEPT ![k] = Append(@, x)]

LEMMA GrownByNone ==
  ASSUME NEW T \in Seq(Seq(Nat)), NEW O, NEW i PROVE GrownTools(T, O, i, None) = T
<1>1. T = [j \in DOMAIN T |-> T[j]]
  OBVIOUS
<1>2. GrownTools(T, O, i, None) = [j \in DOMAIN T |-> T[j]]
  BY DEF GrownTools, Grown
<1> QED BY <1>1, <1>2

LEMMA GrownByOne ==
  ASSUME NEW T \in Seq(Seq(Nat)), NEW O, NEW i, NEW k \in 1..Len(T), NEW x,
         \A j \in 1..Len(T) : O[j] = i <=> j = k, x # None
  PROVE  GrownTools(T, O, i, x) = GrownAt(T, k, x)
<1>1. DOMAIN T = 1..Len(T)
  BY LenProperties
<1>2. \A j \in DOMAIN T : (IF O[j] = i THEN Grown(T[j], x) ELSE T[j]) = IF j = k THEN Append(T[k], x) ELSE T[j]
  BY <1>1 DEF Grown
<1>3. GrownTools(T, O, i, x) = [j \in DOMAIN T |-> IF j = k THEN Append(T[k], x) ELSE T[j]]
  BY <1>2 DEF GrownTools
<1>4. GrownAt(T, k, x) = [j \in DOMAIN T |-> IF j = k THEN Append(T[k], x) ELSE T[j]]
  BY <1>1 DEF GrownAt
<1> QED BY <1>3, <1>4

LEMMA ToolFollows ==
  ASSUME NEW A, NEW v, NEW t, NEW order, NEW m, Follows(A, v, t, order, m), t.started = TRUE,
         NEW delta \in Deltas
  PROVE  /\ Follows(A, v, Tool(t, delta), CallsWith(CallsOf(order, m), delta).order,
                    WithTools(m, CallsWith(CallsOf(order, m), delta).tools))
         /\ Tool(t, delta).started = TRUE /\ SameEnd(t, Tool(t, delta))
<1> DEFINE i == delta.index
           known == ToolKnown(t, i)
           O == OrderKnowing(order, i)
           M == MessageKnowing(order, m, i)
           C == CallsWith(CallsOf(order, m), delta)
<1>1. i \in ToolIndices /\ delta.arguments \in Nat \cup {None} /\ m \in Messages
  BY FollowsTyped DEF Deltas
<1>2. /\ Follows(A, v, known, O, M) /\ known.started = TRUE /\ SameEnd(t, known)
      /\ i \in ToSet(O)
  <2>1. \A j \in ToolIndices :
          /\ Follows(A, v, ToolKnown(t, j), OrderKnowing(order, j), MessageKnowing(order, m, j))
          /\ ToolKnown(t, j).started = TRUE /\ SameEnd(t, ToolKnown(t, j))
          /\ j \in ToSet(OrderKnowing(order, j))
    BY ToolKnownFollows
  <2> HIDE DEF i
  <2> QED BY <1>1, <2>1
<1>3. C.order = O /\ C.tools = GrownTools(M.tools, O, i, delta.arguments)
  BY <1>1, CallsWithIs DEF GrownTools
<1>4. WithTools(m, M.tools) = M /\ \A w : WithTools(M, w) = WithTools(m, w)
  BY <1>1, MessageKnowingIs
<1>5. Tool(t, delta) = IF delta.arguments = None THEN known
                       ELSE Emit(known, BlockDelta(known.toolBlock[i], "tool_use", delta.arguments))
  BY DEF Tool, ToolTarget, BlockDelta
<1> HIDE DEF known, O, M, C, i
<1>6. PICK k \in 1..Len(O) : O[k] = i
  BY <1>2, FollowsTyped, LenProperties DEF ToSet
<1>7. /\ M \in Messages /\ Len(M.tools) = Len(O) /\ \A j \in 1..Len(O) : O[j] = i <=> j = k
  <2>1. M \in Messages /\ Len(M.tools) = Len(O)
    BY <1>2, FollowsTyped
  <2>2. \A j, l \in 1..Len(O) : O[j] = O[l] => j = l
    BY <1>2, FollowsTyped
  <2> QED BY <1>6, <2>1, <2>2
<1>8. M.tools \in Seq(Seq(Nat))
  BY <1>7, MessageFields
<1>9. /\ GrownTools(M.tools, O, i, None) = M.tools
      /\ \A x : x # None => GrownTools(M.tools, O, i, x) = GrownAt(M.tools, k, x)
  BY <1>7, <1>8, GrownByNone, GrownByOne
<1>10. CASE delta.arguments = None
  <2>1. Tool(t, delta) = known
    BY <1>5, <1>10
  <2>2. C.tools = M.tools
    BY <1>3, <1>9, <1>10
  <2>3. WithTools(m, C.tools) = M
    BY <1>4, <2>2
  <2> QED BY <1>2, <1>3, <2>1, <2>3 DEF C
<1>11. ASSUME NEW x \in Nat, delta.arguments = x
       PROVE  /\ Follows(A, v, Tool(t, delta), C.order, WithTools(m, C.tools))
              /\ Tool(t, delta).started = TRUE /\ SameEnd(t, Tool(t, delta))
  <2> DEFINE u(y) == Emit(known, BlockDelta(known.toolBlock[O[k]], "tool_use", y))
  <2>1. Tool(t, delta) = u(x)
    BY <1>5, <1>6, <1>11, NoneAssumption
  <2>2. \A y \in Nat : /\ Follows(A, v, u(y), O, Argued(M, k, y)) /\ u(y).started = TRUE /\ SameEnd(known, u(y))
    BY <1>2, <1>6, ArgumentsFollow
  <2>3. \A y : Argued(M, k, y) = WithTools(m, GrownAt(M.tools, k, y))
    BY <1>4, <1>7, WithToolsIs DEF GrownAt
  <2> HIDE DEF u
  <2>4. C.tools = GrownAt(M.tools, k, x)
    BY <1>3, <1>9, <1>11, NoneAssumption
  <2>5. Argued(M, k, x) = WithTools(m, C.tools)
    BY <2>3, <2>4
  <2>6. Follows(A, v, u(x), O, Argued(M, k, x)) /\ u(x).started = TRUE /\ SameEnd(known, u(x))
    BY <2>2
  <2>7. SameEnd(t, u(x))
    BY <1>2, <2>6 DEF SameEnd
  <2> QED BY <1>3, <2>1, <2>5, <2>6, <2>7
<1> QED BY <1>1, <1>10, <1>11 DEF C

\* A chunk has at most two deltas.
LEMMA ReadToolsIs ==
  ASSUME NEW t, NEW s, Len(s) \in 0..2
  PROVE  ReadTools(t, s) = IF Len(s) = 0 THEN t
                           ELSE IF Len(s) = 1 THEN Tool(t, s[1]) ELSE Tool(Tool(t, s[1]), s[2])
<1> DEFINE Read(f) == [n \in 0..Len(s) |-> IF n = 0 THEN t ELSE Tool(f[n - 1], s[n])]
           read == CHOOSE f : f = Read(f)
           Nth(n) == IF n = 0 THEN t ELSE IF n = 1 THEN Tool(t, s[1]) ELSE Tool(Tool(t, s[1]), s[2])
           g == [n \in 0..Len(s) |-> Nth(n)]
<1>1. ASSUME NEW f, f[0] = t, 1 \in 0..Len(s) => f[1] = Tool(f[0], s[1]), 2 \in 0..Len(s) => f[2] = Tool(f[1], s[2])
      PROVE  \A n \in 0..Len(s) : f[n] = Nth(n)
  <2> SUFFICES ASSUME NEW n \in 0..Len(s) PROVE f[n] = Nth(n)
    OBVIOUS
  <2>1. n = 0 \/ n = 1 \/ n = 2
    OBVIOUS
  <2>2. CASE n = 0
    BY <1>1, <2>2
  <2>3. CASE n = 1
    BY <1>1, <2>3
  <2>4. CASE n = 2
    <3>1. 1 \in 0..Len(s) /\ 2 \in 0..Len(s)
      BY <2>4
    <3>2. f[2] = Tool(Tool(t, s[1]), s[2])
      BY <1>1, <3>1
    <3> QED BY <2>4, <3>2
  <2> QED BY <2>1, <2>2, <2>3, <2>4
<1>2. g = Read(g)
  <2>1. ASSUME NEW n \in 0..Len(s) PROVE g[n] = IF n = 0 THEN t ELSE Tool(g[n - 1], s[n])
    <3>1. n = 0 \/ n = 1 \/ n = 2
      OBVIOUS
    <3>2. CASE n = 0
      BY <3>2
    <3>3. CASE n = 1
      <4>1. g[0] = t /\ g[1] = Tool(t, s[1])
        BY <3>3
      <4> HIDE DEF g
      <4> QED BY <3>3, <4>1
    <3>4. CASE n = 2
      <4>1. g[1] = Tool(t, s[1]) /\ g[2] = Tool(Tool(t, s[1]), s[2])
        BY <3>4
      <4> HIDE DEF g
      <4> QED BY <3>4, <4>1
    <3> QED BY <3>1, <3>2, <3>3, <3>4
  <2> QED BY <2>1
<1>3. read = Read(read)
  BY <1>2
<1>4. ReadTools(t, s) = read[Len(s)]
  BY DEF ReadTools
<1> HIDE DEF read, g
<1>5. /\ read[0] = t /\ (1 \in 0..Len(s) => read[1] = Tool(read[0], s[1]))
      /\ (2 \in 0..Len(s) => read[2] = Tool(read[1], s[2]))
  <2>1. \A n \in 0..Len(s) : read[n] = IF n = 0 THEN t ELSE Tool(read[n - 1], s[n])
    BY <1>3
  <2>2. 0 \in 0..Len(s) /\ 1 - 1 = 0 /\ 2 - 1 = 1
    OBVIOUS
  <2> HIDE DEF Read
  <2> QED BY <2>1, <2>2
<1>6. \A n \in 0..Len(s) : read[n] = Nth(n)
  BY <1>1, <1>5
<1>7. Len(s) \in 0..Len(s)
  OBVIOUS
<1> QED BY <1>4, <1>6, <1>7

LEMMA AllCallsIs ==
  ASSUME NEW c, NEW s, Len(s) \in 0..2
  PROVE  AllCalls(c, s) = IF Len(s) = 0 THEN c
                           ELSE IF Len(s) = 1 THEN CallsWith(c, s[1]) ELSE CallsWith(CallsWith(c, s[1]), s[2])
<1> DEFINE Read(f) == [n \in 0..Len(s) |-> IF n = 0 THEN c ELSE CallsWith(f[n - 1], s[n])]
           read == CHOOSE f : f = Read(f)
           Nth(n) == IF n = 0 THEN c ELSE IF n = 1 THEN CallsWith(c, s[1]) ELSE CallsWith(CallsWith(c, s[1]), s[2])
           g == [n \in 0..Len(s) |-> Nth(n)]
<1>1. ASSUME NEW f, f[0] = c, 1 \in 0..Len(s) => f[1] = CallsWith(f[0], s[1]), 2 \in 0..Len(s) => f[2] = CallsWith(f[1], s[2])
      PROVE  \A n \in 0..Len(s) : f[n] = Nth(n)
  <2> SUFFICES ASSUME NEW n \in 0..Len(s) PROVE f[n] = Nth(n)
    OBVIOUS
  <2>1. n = 0 \/ n = 1 \/ n = 2
    OBVIOUS
  <2>2. CASE n = 0
    BY <1>1, <2>2
  <2>3. CASE n = 1
    BY <1>1, <2>3
  <2>4. CASE n = 2
    <3>1. 1 \in 0..Len(s) /\ 2 \in 0..Len(s)
      BY <2>4
    <3>2. f[2] = CallsWith(CallsWith(c, s[1]), s[2])
      BY <1>1, <3>1
    <3> QED BY <2>4, <3>2
  <2> QED BY <2>1, <2>2, <2>3, <2>4
<1>2. g = Read(g)
  <2>1. ASSUME NEW n \in 0..Len(s) PROVE g[n] = IF n = 0 THEN c ELSE CallsWith(g[n - 1], s[n])
    <3>1. n = 0 \/ n = 1 \/ n = 2
      OBVIOUS
    <3>2. CASE n = 0
      BY <3>2
    <3>3. CASE n = 1
      <4>1. g[0] = c /\ g[1] = CallsWith(c, s[1])
        BY <3>3
      <4> HIDE DEF g
      <4> QED BY <3>3, <4>1
    <3>4. CASE n = 2
      <4>1. g[1] = CallsWith(c, s[1]) /\ g[2] = CallsWith(CallsWith(c, s[1]), s[2])
        BY <3>4
      <4> HIDE DEF g
      <4> QED BY <3>4, <4>1
    <3> QED BY <3>1, <3>2, <3>3, <3>4
  <2> QED BY <2>1
<1>3. read = Read(read)
  BY <1>2
<1>4. AllCalls(c, s) = read[Len(s)]
  BY DEF AllCalls
<1> HIDE DEF read, g
<1>5. /\ read[0] = c /\ (1 \in 0..Len(s) => read[1] = CallsWith(read[0], s[1]))
      /\ (2 \in 0..Len(s) => read[2] = CallsWith(read[1], s[2]))
  <2>1. \A n \in 0..Len(s) : read[n] = IF n = 0 THEN c ELSE CallsWith(read[n - 1], s[n])
    BY <1>3
  <2>2. 0 \in 0..Len(s) /\ 1 - 1 = 0 /\ 2 - 1 = 1
    OBVIOUS
  <2> HIDE DEF Read
  <2> QED BY <2>1, <2>2
<1>6. \A n \in 0..Len(s) : read[n] = Nth(n)
  BY <1>1, <1>5
<1>7. Len(s) \in 0..Len(s)
  OBVIOUS
<1> QED BY <1>4, <1>6, <1>7

DeltasRead(A, v, t, order, m, u, calls) ==
  /\ Follows(A, v, u, calls.order, WithTools(m, calls.tools))
  /\ u.started = TRUE /\ SameEnd(t, u)

LEMMA ReadToolsFollow ==
  ASSUME NEW A, NEW v, NEW t, NEW order, NEW m, Follows(A, v, t, order, m), t.started = TRUE,
         NEW s \in Seq(Deltas), Len(s) \in 0..2
  PROVE  DeltasRead(A, v, t, order, m, ReadTools(t, s), AllCalls(CallsOf(order, m), s))
<1> DEFINE C == CallsOf(order, m)
<1>1. m \in Messages /\ WithTools(m, C.tools) = m /\ C.order = order
  BY FollowsTyped, WithToolsIs DEF CallsOf
<1>2. ASSUME NEW d \in Deltas PROVE DeltasRead(A, v, t, order, m, Tool(t, d), CallsWith(C, d))
  BY <1>2, ToolFollows DEF DeltasRead
<1>3. CASE Len(s) = 0
  <2>1. ReadTools(t, s) = t /\ AllCalls(C, s) = C
    BY <1>3, ReadToolsIs, AllCallsIs
  <2> QED BY <1>1, <2>1 DEF DeltasRead, SameEnd
<1>4. CASE Len(s) = 1
  <2>1. s[1] \in Deltas
    BY <1>4, ElementOfSeq
  <2>2. ReadTools(t, s) = Tool(t, s[1])
    <3>1. ReadTools(t, s) = IF Len(s) = 0 THEN t
                            ELSE IF Len(s) = 1 THEN Tool(t, s[1]) ELSE Tool(Tool(t, s[1]), s[2])
      BY ReadToolsIs
    <3> QED BY <1>4, <3>1
  <2>3. AllCalls(C, s) = CallsWith(C, s[1])
    <3> HIDE DEF C
    <3> QED BY <1>4, AllCallsIs
  <2> QED BY <1>2, <2>1, <2>2, <2>3
<1>5. CASE Len(s) = 2
  <2>1. s[1] \in Deltas /\ s[2] \in Deltas
    <3>1. 1 \in 1..Len(s) /\ 2 \in 1..Len(s)
      BY <1>5
    <3> QED BY <3>1, ElementOfSeq
  <2> DEFINE u == Tool(t, s[1])
             D == CallsWith(C, s[1])
             n == WithTools(m, D.tools)
             w == Tool(u, s[2])
             F == CallsWith(D, s[2])
  <2>2. ReadTools(t, s) = w /\ AllCalls(C, s) = F
    BY <1>5, ReadToolsIs, AllCallsIs
  <2>3. Follows(A, v, u, D.order, n) /\ u.started = TRUE /\ SameEnd(t, u)
    BY <1>2, <2>1 DEF DeltasRead
  <2>4. D = CallsOf(D.order, n)
    <3>1. n.tools = D.tools
      <4> HIDE DEF D
      <4> QED BY <1>1, WithToolsIs
    <3>2. D = [order |-> D.order, tools |-> D.tools]
      BY DEF CallsWith
    <3> HIDE DEF n, D
    <3> QED BY <3>1, <3>2 DEF CallsOf
  <2>5. \A x : WithTools(n, x) = WithTools(m, x)
    BY <1>1, WithToolsIs
  <2> HIDE DEF u, n
  <2>6. /\ Follows(A, v, w, F.order, WithTools(n, F.tools)) /\ w.started = TRUE /\ SameEnd(u, w)
    <3> HIDE DEF D
    <3>1. /\ Follows(A, v, Tool(u, s[2]), CallsWith(CallsOf(D.order, n), s[2]).order,
                     WithTools(n, CallsWith(CallsOf(D.order, n), s[2]).tools))
          /\ Tool(u, s[2]).started = TRUE /\ SameEnd(u, Tool(u, s[2]))
      BY <2>1, <2>3, ToolFollows
    <3> QED BY <2>4, <3>1
  <2> HIDE DEF w, F, D
  <2>7. SameEnd(t, w)
    BY <2>3, <2>6 DEF SameEnd
  <2> QED BY <2>2, <2>5, <2>6, <2>7 DEF DeltasRead
<1> QED BY <1>3, <1>4, <1>5

\* What the translator remembers of the end of the answer does not matter yet.
WithEnd(t, usage, finish) == [t EXCEPT !.usage = usage, !.finish = finish]

LEMMA EndFollows ==
  ASSUME NEW A, NEW v, NEW t, NEW order, NEW m, Follows(A, v, t, order, m),
         NEW usage \in BOOLEAN, NEW finish \in DOMAIN FinishToStop \cup {None}
  PROVE  /\ Follows(A, v, WithEnd(t, usage, finish), order, m)
         /\ WithEnd(t, usage, finish).started = t.started
         /\ WithEnd(t, usage, finish).finish = finish
         /\ WithEnd(t, usage, finish).usage = usage
         /\ WithEnd(t, usage, finish).finalized = t.finalized
<1> DEFINE u == WithEnd(t, usage, finish)
<1>1. PICK E : v \in Seq(Events) /\ Leads(A, v \o t.out, E, m) /\ Live(E, t, order, m)
  BY DEF Follows
<1>2. t \in Translators
  BY <1>1 DEF Live
<1>3. /\ u \in Translators /\ u.out = t.out /\ u.started = t.started /\ u.block = t.block
      /\ u.kind = t.kind /\ u.toolBlock = t.toolBlock
      /\ u.finish = finish /\ u.usage = usage /\ u.finalized = t.finalized
  BY <1>2 DEF Translators, WithEnd
<1> HIDE DEF u
<1>4. ReaderFits(E.reader, u)
  BY <1>1, <1>3 DEF Live, ReaderFits
<1>5. DownFits(E.down, u, order)
  BY <1>1, <1>3 DEF Live, DownFits
<1>6. Live(E, u, order, m)
  BY <1>1, <1>3, <1>4, <1>5 DEF Live
<1>7. Follows(A, v, u, order, m)
  BY <1>1, <1>3, <1>6 DEF Follows
<1> QED BY <1>3, <1>7 DEF u

Chunks ==
  [reasoning : Nat \cup {None}, content : Nat \cup {None}, tools : {s \in Seq(Deltas) : Len(s) \in 0..2},
   finish : DOMAIN FinishToStop \cup {None}, usage : BOOLEAN]

\* What the server has said, with a chunk more.
MessageWithChunk(order, m, chunk) ==
  [thinking |-> Grown(m.thinking, chunk.reasoning), text |-> Grown(m.text, chunk.content),
   tools |-> AllCalls(CallsOf(order, m), chunk.tools).tools]

FinishWith(finish, chunk) == IF chunk.finish = None THEN finish ELSE chunk.finish

LEMMA ChunkFollows ==
  ASSUME NEW A, NEW v, NEW t, NEW order, NEW m, Follows(A, v, t, order, m), NEW chunk \in Chunks
  PROVE  /\ Follows(A, v, ProcessChunk(t, chunk), AllCalls(CallsOf(order, m), chunk.tools).order,
                    MessageWithChunk(order, m, chunk))
         /\ ProcessChunk(t, chunk).finish = FinishWith(t.finish, chunk)
         /\ ProcessChunk(t, chunk).usage = (t.usage \/ chunk.usage)
         /\ ProcessChunk(t, chunk).finalized = t.finalized
<1> DEFINE s == Started(t)
           usage == t.usage \/ chunk.usage
           finish == FinishWith(t.finish, chunk)
           h == WithEnd(s, usage, finish)
           m1 == [m EXCEPT !["thinking"] = Grown(@, chunk.reasoning)]
           m2 == [m1 EXCEPT !["text"] = Grown(@, chunk.content)]
           p1 == Piece(h, "thinking", chunk.reasoning)
           p2 == Piece(p1, "text", chunk.content)
           u == ReadTools(p2, chunk.tools)
<1>1. /\ chunk.reasoning \in Nat \cup {None} /\ chunk.content \in Nat \cup {None}
      /\ chunk.tools \in Seq(Deltas) /\ Len(chunk.tools) \in 0..2
      /\ chunk.finish \in DOMAIN FinishToStop \cup {None} /\ chunk.usage \in BOOLEAN
  BY DEF Chunks
<1>2. t \in Translators /\ m \in Messages
  BY FollowsTyped
<1>3. Follows(A, v, s, order, m) /\ s.started = TRUE /\ SameEnd(t, s)
  BY StartedFollows
<1>4. usage \in BOOLEAN /\ finish \in DOMAIN FinishToStop \cup {None}
  BY <1>1, <1>2 DEF Translators, FinishWith
<1>5. ProcessChunk(t, chunk) = u
  BY <1>3 DEF ProcessChunk, SameEnd, FinishWith, WithEnd
<1> HIDE DEF s, usage, finish
<1>6. /\ Follows(A, v, h, order, m) /\ h.started = TRUE /\ h.finish = finish /\ h.usage = usage
      /\ h.finalized = s.finalized
  BY <1>3, <1>4, EndFollows
<1> HIDE DEF h
<1>7. Follows(A, v, p1, order, m1) /\ p1.started = TRUE /\ SameEnd(h, p1)
  <2>1. "thinking" \in Texts
    BY DEF Texts
  <2> QED BY <1>1, <1>6, <2>1, PieceFollows
<1> HIDE DEF p1
<1>8. Follows(A, v, p2, order, m2) /\ p2.started = TRUE /\ SameEnd(p1, p2)
  <2>1. "text" \in Texts
    BY DEF Texts
  <2> HIDE DEF m1
  <2> QED BY <1>1, <1>7, <2>1, PieceFollows
<1> HIDE DEF p2
<1>9. /\ m2 \in Messages /\ m2.tools = m.tools
      /\ m2.thinking = Grown(m.thinking, chunk.reasoning) /\ m2.text = Grown(m.text, chunk.content)
  <2>1. m2 \in Messages
    BY <1>8, FollowsTyped
  <2> QED BY <1>2, <2>1 DEF Messages
<1> HIDE DEF m2
<1> DEFINE C == AllCalls(CallsOf(order, m), chunk.tools)
<1>10. /\ Follows(A, v, u, C.order, WithTools(m2, C.tools)) /\ SameEnd(p2, u)
  <2>1. CallsOf(order, m2) = CallsOf(order, m)
    BY <1>9 DEF CallsOf
  <2>2. DeltasRead(A, v, p2, order, m2, ReadTools(p2, chunk.tools), AllCalls(CallsOf(order, m2), chunk.tools))
    BY <1>1, <1>8, ReadToolsFollow
  <2> QED BY <2>1, <2>2 DEF DeltasRead
<1>11. WithTools(m2, C.tools) = MessageWithChunk(order, m, chunk)
  <2>1. WithTools(m2, C.tools) = [thinking |-> m2.thinking, text |-> m2.text, tools |-> C.tools]
    BY <1>9, MessageWith DEF WithTools
  <2> QED BY <1>9, <2>1 DEF MessageWithChunk
<1> HIDE DEF u, C
<1>12. u.finish = finish /\ u.usage = usage /\ u.finalized = t.finalized
  BY <1>3, <1>6, <1>7, <1>8, <1>10 DEF SameEnd
<1> QED BY <1>5, <1>10, <1>11, <1>12 DEF C, finish, usage

-----------------------------------------------------------------------------
(* The end of the answer.                                                  *)

\* What the client is to learn of the finish_reason.
FinishTold(order, finish) ==
  IF finish \in {"length", "content_filter"} THEN finish
  ELSE IF finish \in {"tool_calls", "function_call"} \/ order # <<>> THEN "tool_calls"
  ELSE "stop"

\* There and back again.
LEMMA FinishTranslated ==
  ASSUME NEW t \in Translators, NEW order \in Seq(ToolIndices), DOMAIN t.toolBlock = ToSet(order)
  PROVE  /\ FinalReason(t) \in DOMAIN StopToFinish
         /\ FinishReason(FinalReason(t)) = FinishTold(order, t.finish)
         /\ FinishTold(order, t.finish) \in {"stop", "length", "tool_calls", "content_filter"}
<1>1. t.toolBlock # <<>> <=> order # <<>>
  <2>1. CASE order = <<>>
    <3>1. DOMAIN t.toolBlock = {}
      BY <2>1 DEF ToSet
    <3>2. t.toolBlock = [x \in DOMAIN t.toolBlock |-> t.toolBlock[x]]
      BY DEF Translators, Tables
    <3>3. <<>> = [x \in {} |-> t.toolBlock[x]]
      OBVIOUS
    <3> QED BY <2>1, <3>1, <3>2, <3>3
  <2>2. CASE order # <<>>
    <3>1. Len(order) \in Nat /\ Len(order) # 0 /\ 1 \in DOMAIN order
      BY <2>2, EmptySeq, LenProperties
    <3>2. order[1] \in DOMAIN t.toolBlock
      BY <3>1 DEF ToSet
    <3> QED BY <2>2, <3>2
  <2> QED BY <2>1, <2>2
<1>2. t.finish \in {"stop", "length", "tool_calls", "function_call", "content_filter", None}
  BY DEF Translators, FinishToStop
<1>3. /\ DOMAIN FinishToStop = {"stop", "length", "tool_calls", "function_call", "content_filter"}
      /\ FinishToStop["stop"] = "end_turn" /\ FinishToStop["length"] = "max_tokens"
      /\ FinishToStop["tool_calls"] = "tool_use" /\ FinishToStop["function_call"] = "tool_use"
      /\ FinishToStop["content_filter"] = "refusal"
  BY DEF FinishToStop
<1>4. /\ DOMAIN StopToFinish = {"end_turn", "max_tokens", "stop_sequence", "tool_use", "refusal"}
      /\ StopToFinish["end_turn"] = "stop" /\ StopToFinish["max_tokens"] = "length"
      /\ StopToFinish["tool_use"] = "tool_calls" /\ StopToFinish["refusal"] = "content_filter"
  BY DEF StopToFinish
<1>5. None \notin DOMAIN FinishToStop
  BY NoneAssumption
<1>6. CASE t.finish \in {"length", "content_filter"}
  BY <1>3, <1>4, <1>6 DEF FinalReason, StopReason, FinishReason, FinishTold
<1>7. CASE t.finish \in {"tool_calls", "function_call"}
  BY <1>3, <1>4, <1>7 DEF FinalReason, StopReason, FinishReason, FinishTold
<1>8. CASE t.finish \in {"stop", None}
  <2>1. StopReason(t.finish) = "end_turn"
    BY <1>3, <1>5, <1>8 DEF StopReason
  <2>2. FinishTold(order, t.finish) = IF order # <<>> THEN "tool_calls" ELSE "stop"
    BY <1>3, <1>5, <1>8 DEF FinishTold
  <2> QED BY <1>1, <1>4, <2>1, <2>2 DEF FinalReason, FinishReason
<1> QED BY <1>2, <1>6, <1>7, <1>8

\* The client has the whole answer, and how it ended.
Complete(c, order, m, finish, usage) ==
  /\ c \in Clients /\ c.done = TRUE /\ c.error = FALSE
  /\ c.message = m /\ c.finish = FinishTold(order, finish) /\ c.usage = usage

Finished(E, order, m, finish, usage) == Complete(E.client, order, m, finish, usage) /\ E.down \in Downs /\ E.down.done = TRUE

Excused(E) == E.client \in Clients /\ E.client.done = TRUE /\ E.client.error = TRUE /\ E.down \in Downs /\ E.down.done = TRUE

\* message_delta
LEMMA DownConcludes ==
  ASSUME NEW d \in Downs, d.usage = FALSE, NEW stop \in DOMAIN StopToFinish, NEW usage \in BOOLEAN
  PROVE  /\ DownSays(d, MessageDelta(stop, usage)) = <<FinishSaid(FinishReason(stop))>>
         /\ DownAfter(d, MessageDelta(stop, usage)) \in Downs
         /\ DownAfter(d, MessageDelta(stop, usage)).finish = FinishReason(stop)
         /\ DownAfter(d, MessageDelta(stop, usage)).usage = usage
         /\ DownAfter(d, MessageDelta(stop, usage)).done = d.done
<1> DEFINE x == MessageDelta(stop, usage)
           e == MessageEnds(d, x)
           p == Say(d, FinishSaid(FinishReason(stop)))
<1>1. x.type = "message_delta" /\ x.kind = stop /\ x.piece = usage
  BY DEF MessageDelta, Event
<1> HIDE DEF x
<1>2. ProcessEvent(d, x) = e
  BY <1>1 DEF ProcessEvent
<1>3. d.out = <<>> /\ d = [d EXCEPT !.out = <<>>]
  BY DEF Downs
<1>4. FinishReason(stop) \in {"stop", "length", "tool_calls", "content_filter"}
  BY DEF FinishReason, StopToFinish
<1>5. e = [[d EXCEPT !.out = Append(@, FinishSaid(FinishReason(stop)))]
             EXCEPT !.finish = FinishReason(stop), !.usage = @ \/ usage]
  BY <1>1 DEF MessageEnds, Say
<1>6. Append(d.out, FinishSaid(FinishReason(stop))) = <<FinishSaid(FinishReason(stop))>>
  BY <1>3, AppendEmpty
<1> HIDE DEF e
<1>7. e.out = <<FinishSaid(FinishReason(stop))>>
  BY <1>5, <1>6 DEF Downs
<1> DEFINE f == [e EXCEPT !.out = <<>>]
<1>8. (d.usage \/ usage) = usage
  OBVIOUS
<1>9. /\ f \in Downs /\ f.finish = FinishReason(stop) /\ f.done = d.done
      /\ f.usage = (d.usage \/ usage)
  BY <1>4, <1>5 DEF Downs
<1> HIDE DEF f
<1> QED BY <1>2, <1>7, <1>8, <1>9 DEF DownSays, DownAfter, x, f

\* message_stop
LEMMA DownHangsUp ==
  ASSUME NEW d \in Downs, d.finish # None, d.done = FALSE
  PROVE  /\ DownSays(d, MessageStop) = <<UsageSaid(d.usage), DoneSaid>>
         /\ DownAfter(d, MessageStop) \in Downs /\ DownAfter(d, MessageStop).done = TRUE
<1>1. ProcessEvent(d, MessageStop) = HangUp(d)
  BY DEF ProcessEvent, MessageStop, Event
<1> DEFINE e == HangUp(d)
<1>2. d.out = <<>>
  BY DEF Downs
<1>3. e = [[[d EXCEPT !.out = Append(@, UsageSaid(d.usage))] EXCEPT !.out = Append(@, DoneSaid)] EXCEPT !.done = TRUE]
  BY DEF HangUp, Say
<1> HIDE DEF e
<1>4. e.out = Append(Append(<<>>, UsageSaid(d.usage)), DoneSaid)
  BY <1>2, <1>3 DEF Downs
<1>5. e.out = <<UsageSaid(d.usage), DoneSaid>>
  BY <1>4, AppendEmpty
<1> DEFINE f == [e EXCEPT !.out = <<>>]
<1>6. f \in Downs /\ f.done = TRUE
  BY <1>3 DEF Downs
<1> HIDE DEF f
<1> QED BY <1>1, <1>5, <1>6 DEF DownSays, DownAfter, f, e

\* An exception, of this translator or the other.
LEMMA ExcuseIs ==
  ASSUME NEW d \in Downs
  PROVE  /\ Excuse(d).out = <<ErrorSaid, DoneSaid>>
         /\ DownSays(d, ErrorEvent) = <<ErrorSaid, DoneSaid>>
         /\ DownAfter(d, ErrorEvent) \in Downs /\ DownAfter(d, ErrorEvent).done = TRUE
<1>1. ProcessEvent(d, ErrorEvent) = [Excuse(d) EXCEPT !.done = TRUE]
  BY DEF ProcessEvent, ErrorEvent, Event
<1> DEFINE e == Excuse(d)
<1>2. d.out = <<>>
  BY DEF Downs
<1>3. e = [[d EXCEPT !.out = Append(@, ErrorSaid)] EXCEPT !.out = Append(@, DoneSaid)]
  BY DEF Excuse, Say
<1> HIDE DEF e
<1>4. e.out = Append(Append(<<>>, ErrorSaid), DoneSaid)
  BY <1>2, <1>3 DEF Downs
<1>5. e.out = <<ErrorSaid, DoneSaid>>
  BY <1>4, AppendEmpty
<1> DEFINE g == [e EXCEPT !.done = TRUE]
           f == [g EXCEPT !.out = <<>>]
<1>6. g.out = e.out
  BY <1>3 DEF Downs
<1>7. f \in Downs /\ f.done = TRUE
  BY <1>3 DEF Downs
<1> HIDE DEF f, g
<1> QED BY <1>1, <1>5, <1>6, <1>7 DEF DownSays, DownAfter, f, g, e

LEMMA ReceivesFinish ==
  ASSUME NEW c, c.done = FALSE, NEW reason PROVE Receives(c, FinishSaid(reason)) = [c EXCEPT !.finish = reason]
BY DEF Receives, FinishSaid, Said

\* The usage and [DONE]; an error and [DONE].
LEMMA ReceivesDone ==
  ASSUME NEW c, c.done = FALSE PROVE Receives(c, DoneSaid) = [c EXCEPT !.done = TRUE]
BY DEF Receives, DoneSaid, Said

LEMMA ReceivesUsage ==
  ASSUME NEW c \in Clients, c.done = FALSE, NEW usage \in BOOLEAN
  PROVE  Receives(Receives(c, UsageSaid(usage)), DoneSaid) = [c EXCEPT !.usage = usage, !.done = TRUE]
<1>1. Receives(c, UsageSaid(usage)) = [c EXCEPT !.usage = usage]
  BY DEF Receives, UsageSaid, Said
<1>2. [c EXCEPT !.usage = usage].done = FALSE
  BY DEF Clients
<1>3. [[c EXCEPT !.usage = usage] EXCEPT !.done = TRUE] = [c EXCEPT !.usage = usage, !.done = TRUE]
  OBVIOUS
<1> QED BY <1>1, <1>2, <1>3, ReceivesDone

LEMMA ReceivesError ==
  ASSUME NEW c \in Clients, c.done = FALSE
  PROVE  Receives(Receives(c, ErrorSaid), DoneSaid) = [c EXCEPT !.error = TRUE, !.done = TRUE]
<1>1. Receives(c, ErrorSaid) = [c EXCEPT !.error = TRUE]
  BY DEF Receives, ErrorSaid, Said
<1>2. [c EXCEPT !.error = TRUE].done = FALSE
  BY DEF Clients
<1>3. [[c EXCEPT !.error = TRUE] EXCEPT !.done = TRUE] = [c EXCEPT !.error = TRUE, !.done = TRUE]
  OBVIOUS
<1> QED BY <1>1, <1>2, <1>3, ReceivesDone

\* The connection before the second translator breaks, and it says so.
LEMMA ErrorHeard ==
  ASSUME NEW c \in Clients, c.done = FALSE
  PROVE  /\ Hears(c, <<ErrorSaid, DoneSaid>>) = [c EXCEPT !.error = TRUE, !.done = TRUE]
         /\ [c EXCEPT !.error = TRUE, !.done = TRUE] \in Clients
         /\ [c EXCEPT !.error = TRUE, !.done = TRUE].message = c.message
         /\ [c EXCEPT !.error = TRUE, !.done = TRUE].error = TRUE
         /\ [c EXCEPT !.error = TRUE, !.done = TRUE].done = TRUE
<1>1. Hears(c, <<ErrorSaid, DoneSaid>>) = [c EXCEPT !.error = TRUE, !.done = TRUE]
  <2>1. Hears(c, <<ErrorSaid, DoneSaid>>) = Receives(Receives(c, ErrorSaid), DoneSaid)
    BY HearsTwo
  <2>2. Receives(Receives(c, ErrorSaid), DoneSaid) = [c EXCEPT !.error = TRUE, !.done = TRUE]
    BY ReceivesError
  <2> QED BY <2>1, <2>2
<1> QED BY <1>1 DEF Clients

LEMMA FinishNotNone == None \notin {"stop", "length", "tool_calls", "content_filter"}
BY NoneAssumption DEF FinishToStop

\* A message_delta and a message_stop after the events w, which led from A to E.
Concluded(A, w, E, m, stop, usage) ==
  LET F == Consume(Consume(E, MessageDelta(stop, usage)), MessageStop)
  IN  /\ Leads(A, Append(Append(w, MessageDelta(stop, usage)), MessageStop), F, m)
      /\ F.client \in Clients /\ F.client.done = TRUE /\ F.client.error = FALSE
      /\ F.client.message = m /\ F.client.finish = FinishReason(stop) /\ F.client.usage = usage
      /\ F.down \in Downs /\ F.down.done = TRUE

LEMMA Concludes ==
  ASSUME NEW A, NEW w, NEW E, NEW m, Leads(A, w, E, m), NEW t, NEW order, Live(E, t, order, m),
         t.kind = None, t.started = TRUE, NEW stop \in DOMAIN StopToFinish, NEW usage \in BOOLEAN
  PROVE  Concluded(A, w, E, m, stop, usage)
<1> DEFINE x == MessageDelta(stop, usage)
           D == Consume(E, x)
           F == Consume(D, MessageStop)
<1>1. x \in Events /\ MessageStop \in Events
  BY DEF MessageDelta, MessageStop, Event, Events
<1>2. /\ m \in Messages /\ E.reader \in Readers /\ E.down \in Downs /\ E.client \in Clients
      /\ E.reader.phase = "content" /\ E.reader.open = None
      /\ E.down.usage = FALSE /\ E.down.done = FALSE
      /\ E.client.message = m /\ E.client.error = FALSE /\ E.client.done = FALSE
  BY LiveTyped DEF Live, ReaderFits, DownFits, ClientFits
<1>3. FinishReason(stop) \in {"stop", "length", "tool_calls", "content_filter"}
  BY DEF FinishReason, StopToFinish
<1>4. Acceptable(E.reader, x)
  <2>1. x.type = "message_delta"
    BY DEF MessageDelta, Event
  <2> HIDE DEF x
  <2> QED BY <1>2, <2>1 DEF Acceptable
<1>5. D.reader = [E.reader EXCEPT !.phase = "ending"]
  <2>1. x.type = "message_delta"
    BY DEF MessageDelta, Event
  <2>2. D.reader = Reads(E.reader, x)
    BY ConsumeIs
  <2> HIDE DEF x, D
  <2> QED BY <2>1, <2>2 DEF Reads
<1>6. /\ D.down \in Downs /\ D.down.finish = FinishReason(stop) /\ D.down.usage = usage /\ D.down.done = FALSE
  <2>1. D.down = DownAfter(E.down, x)
    BY ConsumeIs DEF DownAfter
  <2>2. E.down \in Downs /\ E.down.usage = FALSE /\ E.down.done = FALSE
    BY <1>2
  <2>3. /\ DownAfter(E.down, x) \in Downs /\ DownAfter(E.down, x).finish = FinishReason(stop)
        /\ DownAfter(E.down, x).usage = usage /\ DownAfter(E.down, x).done = E.down.done
    BY <2>2, DownConcludes
  <2> HIDE DEF D, x
  <2> QED BY <2>1, <2>2, <2>3
<1>7. D.client = [E.client EXCEPT !.finish = FinishReason(stop)]
  <2>1. D.client = Hears(E.client, DownSays(E.down, x))
    BY ConsumeIs DEF DownSays
  <2>2. DownSays(E.down, x) = <<FinishSaid(FinishReason(stop))>>
    BY <1>2, DownConcludes
  <2> HIDE DEF D, x
  <2>3. D.client = Receives(E.client, FinishSaid(FinishReason(stop)))
    BY <2>1, <2>2, HearsOne
  <2> QED BY <1>2, <2>3, ReceivesFinish
<1> HIDE DEF D
<1>8. /\ D.client \in Clients /\ D.client.message = m /\ D.client.finish = FinishReason(stop)
      /\ D.client.error = FALSE /\ D.client.done = FALSE
  BY <1>2, <1>3, <1>7 DEF Clients
<1>9. Sound(D, m)
  BY <1>2, <1>6, <1>8, UnderSelf DEF Sound, Quiet, Downs
<1>10. Leads(A, Append(w, x), D, m)
  <2>1. Under(m, m)
    BY <1>2, UnderSelf
  <2> HIDE DEF x
  <2> QED BY <1>1, <1>2, <1>4, <1>9, <2>1, LeadsOn DEF D
<1>11. Acceptable(D.reader, MessageStop)
  BY <1>2, <1>5 DEF Readers, Acceptable, MessageStop, Event
<1>12. D.down.finish # None
  BY <1>3, <1>6, NoneAssumption, FinishNotNone
<1>13. F.down \in Downs /\ F.down.done = TRUE
  <2>1. F.down = DownAfter(D.down, MessageStop)
    BY ConsumeIs DEF DownAfter
  <2> HIDE DEF F
  <2> QED BY <1>6, <1>12, <2>1, DownHangsUp
<1>14. F.client = [D.client EXCEPT !.usage = usage, !.done = TRUE]
  <2>1. F.client = Hears(D.client, DownSays(D.down, MessageStop))
    BY ConsumeIs DEF DownSays
  <2>2. DownSays(D.down, MessageStop) = <<UsageSaid(usage), DoneSaid>>
    BY <1>6, <1>12, DownHangsUp
  <2>3. F.client = Receives(Receives(D.client, UsageSaid(usage)), DoneSaid)
    BY <2>1, <2>2, HearsTwo
  <2> QED BY <1>8, <2>3, ReceivesUsage
<1> HIDE DEF F
<1>15. /\ F.client \in Clients /\ F.client.done = TRUE /\ F.client.error = FALSE
       /\ F.client.message = m /\ F.client.finish = FinishReason(stop) /\ F.client.usage = usage
  BY <1>8, <1>14 DEF Clients
<1>16. Sound(F, m)
  BY <1>2, <1>13, <1>15, UnderSelf DEF Sound, Quiet, Downs
<1>17. Leads(A, Append(Append(w, x), MessageStop), F, m)
  <2>1. Under(m, m)
    BY <1>2, UnderSelf
  <2> HIDE DEF x
  <2> QED BY <1>1, <1>8, <1>10, <1>11, <1>16, <2>1, LeadsOn DEF F
<1> QED BY <1>13, <1>15, <1>17 DEF F, D, Concluded

\* finalize, after all of the answer.
LEMMA EndsWell ==
  ASSUME NEW A, NEW v, NEW t, NEW order, NEW m, Follows(A, v, t, order, m), t.finalized = FALSE
  PROVE  \E F : Leads(A, v \o Finalize(t).out, F, m) /\ Finished(F, order, m, t.finish, t.usage)
<1> DEFINE s == Started(t)
           c == CloseBlock(s)
           x == MessageDelta(FinalReason(t), t.usage)
<1>1. Follows(A, v, s, order, m) /\ s.started = TRUE
  BY StartedFollows
<1> HIDE DEF s
<1>2. Follows(A, v, c, order, m) /\ c.started = TRUE /\ c.kind = None
  BY <1>1, CloseBlockFollows
<1> HIDE DEF c
<1>3. PICK E : v \in Seq(Events) /\ Leads(A, v \o c.out, E, m) /\ Live(E, c, order, m)
  BY <1>2 DEF Follows
<1>4. c \in Translators /\ c.out \in Seq(Events)
  BY <1>3, LiveTyped
<1>5. t \in Translators /\ order \in Seq(ToolIndices) /\ DOMAIN t.toolBlock = ToSet(order) /\ t.usage \in BOOLEAN
  BY FollowsTyped DEF Translators
<1>6. FinalReason(t) \in DOMAIN StopToFinish /\ FinishReason(FinalReason(t)) = FinishTold(order, t.finish)
  BY <1>5, FinishTranslated
<1>7. x \in Events /\ MessageStop \in Events
  BY <1>5, <1>6 DEF MessageDelta, MessageStop, Event, Events
<1>8. Finalize(t).out = Append(Append(c.out, x), MessageStop)
  <2> DEFINE e == Emit(Emit(c, x), MessageStop)
  <2>1. Finalize(t) = [e EXCEPT !.finalized = TRUE]
    BY DEF Finalize, c, s
  <2>2. e = [[c EXCEPT !.out = Append(@, x)] EXCEPT !.out = Append(@, MessageStop)]
    BY DEF Emit
  <2> HIDE DEF e, x
  <2>3. e.out = Append(Append(c.out, x), MessageStop)
    BY <1>4, <2>2 DEF Translators
  <2> QED BY <1>4, <2>1, <2>2, <2>3 DEF Translators
<1> HIDE DEF x
<1>9. v \o Finalize(t).out = Append(Append(v \o c.out, x), MessageStop)
  <2> DEFINE o == Append(c.out, x)
  <2>1. o \in Seq(Events)
    BY <1>4, <1>7, AppendProperties
  <2> HIDE DEF o
  <2>2. v \o Append(o, MessageStop) = Append(v \o o, MessageStop)
    BY <1>3, <1>7, <2>1, AppendConcat
  <2>3. v \o Append(c.out, x) = Append(v \o c.out, x)
    BY <1>3, <1>4, <1>7, AppendConcat
  <2> QED BY <1>8, <2>2, <2>3 DEF o
<1> DEFINE F == Consume(Consume(E, x), MessageStop)
<1>10. /\ Leads(A, Append(Append(v \o c.out, x), MessageStop), F, m)
       /\ F.client \in Clients /\ F.client.done = TRUE /\ F.client.error = FALSE
       /\ F.client.message = m /\ F.client.finish = FinishReason(FinalReason(t)) /\ F.client.usage = t.usage
       /\ F.down \in Downs /\ F.down.done = TRUE
  <2> DEFINE w == v \o c.out
             stop == FinalReason(t)
             usage == t.usage
  <2>1. Leads(A, w, E, m) /\ Live(E, c, order, m) /\ stop \in DOMAIN StopToFinish /\ usage \in BOOLEAN
    BY <1>3, <1>5, <1>6
  <2> HIDE DEF w, stop, usage, F
  <2>2. Concluded(A, w, E, m, stop, usage)
    BY <1>2, <2>1, Concludes
  <2> QED BY <2>2 DEF F, x, w, stop, usage, Concluded
<1> HIDE DEF F
<1>11. Finished(F, order, m, t.finish, t.usage)
  BY <1>6, <1>10 DEF Finished, Complete
<1> QED BY <1>9, <1>10, <1>11

\* error, in the middle of the answer.
LEMMA ErrorEnds ==
  ASSUME NEW A, NEW v, NEW t, NEW order, NEW m, Follows(A, v, t, order, m), t.out = <<>>
  PROVE  \E F : Leads(A, v \o Failed(t).out, F, m) /\ Excused(F)
<1>1. PICK E : v \in Seq(Events) /\ Leads(A, v \o t.out, E, m) /\ Live(E, t, order, m)
  BY DEF Follows
<1> DEFINE F == Consume(E, ErrorEvent)
<1>2. ErrorEvent \in Events
  BY DEF ErrorEvent, Event, Events
<1>3. /\ t \in Translators /\ m \in Messages /\ E.reader \in Readers /\ E.down \in Downs /\ E.client \in Clients
      /\ E.reader.phase # "over"
      /\ E.client.message = m /\ E.client.done = FALSE
  BY <1>1, LiveTyped DEF Live, ReaderFits, ClientFits
<1>4. Failed(t).out = Append(t.out, ErrorEvent)
  BY <1>3 DEF Failed, Emit, Translators
<1>5. v \o Failed(t).out = Append(v \o t.out, ErrorEvent)
  <2>1. t.out \in Seq(Events)
    BY <1>3 DEF Translators
  <2> QED BY <1>1, <1>2, <1>4, <2>1, AppendConcat
<1>6. Acceptable(E.reader, ErrorEvent)
  BY <1>3 DEF Acceptable, ErrorEvent, Event
<1>7. F.down \in Downs /\ F.down.done = TRUE
  <2>1. F.down = DownAfter(E.down, ErrorEvent)
    BY ConsumeIs DEF DownAfter
  <2> HIDE DEF F
  <2> QED BY <1>3, <2>1, ExcuseIs
<1>8. /\ F.client \in Clients /\ F.client.message = m /\ F.client.error = TRUE /\ F.client.done = TRUE
  <2>1. F.client = Hears(E.client, DownSays(E.down, ErrorEvent))
    BY ConsumeIs DEF DownSays
  <2>2. F.client = Hears(E.client, <<ErrorSaid, DoneSaid>>)
    BY <1>3, <2>1, ExcuseIs
  <2> HIDE DEF F
  <2>3. F.client = [E.client EXCEPT !.error = TRUE, !.done = TRUE]
    BY <1>3, <2>2, ErrorHeard
  <2> QED BY <1>3, <2>3, ErrorHeard
<1> HIDE DEF F
<1>9. Sound(F, m)
  BY <1>3, <1>7, <1>8, UnderSelf DEF Sound, Quiet, Downs
<1>10. Leads(A, Append(v \o t.out, ErrorEvent), F, m)
  <2>1. Under(m, m)
    BY <1>3, UnderSelf
  <2> QED BY <1>1, <1>2, <1>3, <1>6, <1>9, <2>1, LeadsOn DEF F
<1> QED BY <1>5, <1>7, <1>8, <1>10 DEF Excused

\* A chunk adds to what the server said.
LEMMA SaidMore ==
  ASSUME NEW A, NEW v, NEW t, NEW order, NEW m, Follows(A, v, t, order, m), NEW chunk \in Chunks
  PROVE  Under(m, MessageWithChunk(order, m, chunk))
<1> DEFINE u == [t EXCEPT !.out = <<>>]
           n == MessageWithChunk(order, m, chunk)
<1>1. PICK E : v \in Seq(Events) /\ Leads(A, v \o t.out, E, m) /\ Live(E, t, order, m)
  BY DEF Follows
<1>2. t \in Translators /\ E.client.message = m
  BY <1>1 DEF Live, ClientFits
<1>3. /\ u \in Translators /\ u.out = <<>> /\ u.started = t.started /\ u.block = t.block
      /\ u.kind = t.kind /\ u.toolBlock = t.toolBlock
  BY <1>2, EmptySeq DEF Translators
<1> HIDE DEF u, n
<1>4. Live(E, u, order, m)
  <2>1. ReaderFits(E.reader, u) /\ DownFits(E.down, u, order)
    BY <1>1, <1>3 DEF Live, ReaderFits, DownFits
  <2> QED BY <1>1, <1>3, <2>1 DEF Live
<1>5. Follows(E, <<>>, u, order, m)
  <2>1. Leads(E, <<>>, E, m)
    BY <1>1, LiveSound, LeadsNowhere
  <2>2. <<>> \in Seq(Events) /\ <<>> \o u.out = <<>>
    BY <1>3, EmptySeq, ConcatEmptySeq
  <2> QED BY <1>4, <2>1, <2>2 DEF Follows
<1>6. Follows(E, <<>>, ProcessChunk(u, chunk), AllCalls(CallsOf(order, m), chunk.tools).order, n)
  BY <1>5, ChunkFollows DEF n
<1>7. PICK F : Leads(E, <<>> \o ProcessChunk(u, chunk).out, F, n)
  BY <1>6 DEF Follows
<1>8. Sound(E, n)
  BY <1>7, LeadsFrom
<1> QED BY <1>2, <1>8 DEF Sound, n

-----------------------------------------------------------------------------
(* The invariant.                                                          *)

Servers ==
  [state : {"answering", "ended", "broken"}, sent : Nat, order : Seq(ToolIndices), message : Messages,
   finish : DOMAIN FinishToStop \cup {None}, usage : BOOLEAN, complained : BOOLEAN]

Flushed(t) == [t EXCEPT !.out = <<>>]

\* The first translator knows what the server has said.
UpFits(s, u) ==
  s.state = "answering" =>
    /\ u.out = <<>> /\ u.finish = s.finish /\ u.usage = s.usage /\ u.finalized = FALSE
    /\ \E A, v : Follows(A, v, u, s.order, s.message)

\* The events under way lead those behind them to where the first translator is, or to the end.
WireFits(s, u, w, now) ==
  CASE s.state = "answering" -> Follows(now, w, u, s.order, s.message)
    [] s.state = "ended"     -> \E E : /\ Leads(now, w, E, s.message)
                                       /\ Finished(E, s.order, s.message, s.finish, s.usage)
    [] s.state = "broken"    -> \E E : Leads(now, w, E, s.message) /\ Excused(E)

\* The client has the beginning of what the server said, and when it is done knows whether it has all.
Knows(s, c) ==
  /\ c \in Clients /\ Under(c.message, s.message)
  /\ c.done = TRUE => c.error = TRUE \/ (s.state = "ended" /\ Complete(c, s.order, s.message, s.finish, s.usage))

Now == Consumer(reader, down, client)

IInv ==
  /\ server \in Servers /\ (upState = "running" <=> server.state = "answering")
  /\ UpFits(server, up)
  /\ downState \in {"running", "done"}
  /\ downState = "running" => WireFits(server, up, wire, Now)
  /\ downState = "done" => Knows(server, client) /\ client.done = TRUE

LEMMA FlushedFollows ==
  ASSUME NEW A, NEW v, NEW t, NEW order, NEW m, Follows(A, v, t, order, m)
  PROVE  /\ Follows(A, v \o t.out, Flushed(t), order, m)
         /\ Flushed(t).out = <<>> /\ SameEnd(t, Flushed(t))
<1> DEFINE u == Flushed(t)
<1>1. PICK E : v \in Seq(Events) /\ Leads(A, v \o t.out, E, m) /\ Live(E, t, order, m)
  BY DEF Follows
<1>2. t \in Translators /\ t.out \in Seq(Events)
  BY <1>1, LiveTyped
<1>3. /\ u \in Translators /\ u.out = <<>> /\ u.started = t.started /\ u.block = t.block
      /\ u.kind = t.kind /\ u.toolBlock = t.toolBlock /\ SameEnd(t, u)
  BY <1>2, EmptySeq DEF Translators, Flushed, SameEnd
<1> HIDE DEF u
<1>4. Live(E, u, order, m)
  <2>1. ReaderFits(E.reader, u) /\ DownFits(E.down, u, order)
    BY <1>1, <1>3 DEF Live, ReaderFits, DownFits
  <2> QED BY <1>1, <1>3, <2>1 DEF Live
<1>5. v \o t.out \in Seq(Events) /\ (v \o t.out) \o <<>> = v \o t.out
  BY <1>1, <1>2, ConcatProperties, ConcatEmptySeq
<1>6. Follows(A, v \o t.out, u, order, m)
  BY <1>1, <1>3, <1>4, <1>5 DEF Follows
<1> QED BY <1>3, <1>6 DEF u

\* While the second translator runs, too, the client knows what it has.
LEMMA RunningKnows ==
  ASSUME NEW s \in Servers, NEW u, NEW w, NEW now, WireFits(s, u, w, now), u.out = <<>>
  PROVE  Sound(now, s.message) /\ Knows(s, now.client)
<1>1. CASE s.state = "answering"
  <2>1. PICK E : w \in Seq(Events) /\ Leads(now, w \o u.out, E, s.message) /\ Live(E, u, s.order, s.message)
    BY <1>1 DEF WireFits, Follows
  <2>2. Sound(now, s.message)
    BY <2>1, LeadsFrom
  <2>3. now.client.done # TRUE
    <3>1. E.client.done = FALSE
      BY <2>1 DEF Live, ClientFits
    <3> QED BY <2>1, <3>1, LeadsFrom
  <2> QED BY <2>2, <2>3 DEF Knows, Sound
<1>2. CASE s.state = "ended"
  <2>1. PICK E : Leads(now, w, E, s.message) /\ Finished(E, s.order, s.message, s.finish, s.usage)
    BY <1>2 DEF WireFits
  <2>2. Sound(now, s.message) /\ (now.client.done = TRUE => now = E)
    BY <2>1, LeadsFrom
  <2> QED BY <1>2, <2>1, <2>2 DEF Knows, Sound, Finished
<1>3. CASE s.state = "broken"
  <2>1. PICK E : Leads(now, w, E, s.message) /\ Excused(E)
    BY <1>3 DEF WireFits
  <2>2. Sound(now, s.message) /\ (now.client.done = TRUE => now = E)
    BY <2>1, LeadsFrom
  <2> QED BY <2>1, <2>2 DEF Knows, Sound, Excused
<1> QED BY <1>1, <1>2, <1>3 DEF Servers

LEMMA NowIs == Now.reader = reader /\ Now.down = down /\ Now.client = client
BY DEF Now, Consumer

\* Every state of the invariant is one in which the client knows what it has.
LEMMA ClientKnows == IInv => Knows(server, client)
<1> SUFFICES ASSUME IInv PROVE Knows(server, client)
  OBVIOUS
<1>1. server \in Servers /\ downState \in {"running", "done"}
  BY DEF IInv
<1>2. CASE downState = "done"
  BY <1>2 DEF IInv
<1>3. CASE downState = "running"
  <2>1. WireFits(server, up, wire, Now)
    BY <1>3 DEF IInv
  <2>2. CASE server.state = "answering"
    <3>1. up.out = <<>>
      BY <2>2 DEF IInv, UpFits
    <3> QED BY <1>1, <2>1, <3>1, RunningKnows, NowIs
  <2>3. CASE server.state # "answering"
    <3> DEFINE u == Flushed(NewChatToAnthropic)
    <3>1. u.out = <<>>
      BY DEF Flushed, NewChatToAnthropic
    <3>2. WireFits(server, u, wire, Now)
      BY <1>1, <2>1, <2>3 DEF WireFits, Servers
    <3> QED BY <1>1, <3>1, <3>2, RunningKnows, NowIs
  <2> QED BY <2>2, <2>3
<1> QED BY <1>1, <1>2, <1>3

LEMMA InitInv == Init => IInv
<1> SUFFICES ASSUME Init PROVE IInv
  OBVIOUS
<1> DEFINE t == NewChatToAnthropic
           m == NoPieces
<1>1. <<>> \in Seq(Events) /\ <<>> \in Seq(ToolIndices) /\ <<>> \in Seq(Nat) /\ <<>> \in Seq(Seq(Nat)) /\ <<>> \in Seq(Kinds)
  BY EmptySeq
<1>2. m \in Messages /\ m.tools = <<>>
  BY <1>1 DEF Messages, NoPieces
<1>3. server \in Servers /\ server.state = "answering" /\ server.order = <<>> /\ server.message = m
      /\ server.finish = None /\ server.usage = FALSE
  BY <1>1, <1>2 DEF Init, Servers
<1>4. /\ t \in Translators /\ t.started = FALSE /\ t.block = -1 /\ t.kind = None /\ t.toolBlock = <<>>
      /\ t.finish = None /\ t.usage = FALSE /\ t.finalized = FALSE /\ t.out = <<>>
  BY <1>1, NoTable DEF Translators, NewChatToAnthropic
<1>5. /\ Now.reader = [phase |-> "none", blocks |-> <<>>, open |-> None]
      /\ Now.down = NewAnthropicToChat
      /\ Now.client = [message |-> m, finish |-> None, usage |-> FALSE, error |-> FALSE, done |-> FALSE]
  BY NowIs DEF Init
<1>6. ReaderFits(Now.reader, t)
  <2>1. /\ Now.reader \in Readers /\ Now.reader.phase = "none" /\ Now.reader.blocks = <<>>
        /\ Now.reader.open = None
    BY <1>1, <1>5 DEF Readers
  <2>2. Len(<<>>) = 0 /\ 0 = -1 + 1
    OBVIOUS
  <2> HIDE DEF t
  <2> QED BY <1>4, <2>1, <2>2, NoTable DEF ReaderFits
<1>7. DownFits(Now.down, t, <<>>)
  <2>1. /\ Now.down \in Downs /\ Now.down.role = FALSE /\ Now.down.finish = None
        /\ Now.down.usage = FALSE /\ Now.down.done = FALSE /\ Now.down.next = 0
    BY <1>1, <1>5, NoTable DEF Downs, NewAnthropicToChat
  <2>2. Len(<<>>) = 0 /\ 1..0 = {}
    OBVIOUS
  <2> HIDE DEF t
  <2> QED BY <1>4, <2>1, <2>2 DEF DownFits
<1>8. ClientFits(Now.client, <<>>, m)
  <2> HIDE DEF m
  <2>1. /\ Now.client \in Clients /\ Now.client.message = m /\ Now.client.finish = None
        /\ Now.client.usage = FALSE /\ Now.client.error = FALSE /\ Now.client.done = FALSE
    BY <1>2, <1>5 DEF Clients
  <2> QED BY <1>2, <2>1 DEF ClientFits
<1>9. ToSet(<<>>) = {}
  BY DEF ToSet
<1> HIDE DEF t, m
<1>10. Live(Now, t, <<>>, m)
  BY <1>1, <1>2, <1>4, <1>6, <1>7, <1>8, <1>9, NoTable DEF Live
<1>11. Follows(Now, <<>>, t, <<>>, m)
  <2>1. Leads(Now, <<>>, Now, m)
    BY <1>10, LiveSound, LeadsNowhere
  <2>2. <<>> \o t.out = <<>>
    BY <1>1, <1>4, ConcatEmptySeq
  <2> QED BY <1>1, <1>10, <2>1, <2>2 DEF Follows
<1>12. up = t /\ wire = <<>> /\ upState = "running" /\ downState = "running"
  BY DEF Init, t
<1>13. UpFits(server, up)
  BY <1>3, <1>4, <1>11, <1>12 DEF UpFits
<1>14. WireFits(server, up, wire, Now)
  BY <1>3, <1>11, <1>12 DEF WireFits
<1> QED BY <1>3, <1>12, <1>13, <1>14 DEF IInv

\* A chunk of the server's, and what it does to the server.
SaidChunk(s, z, chunk) ==
  /\ s.state = "answering" /\ z \in Servers /\ z.state = "answering"
  /\ z.order = AllCalls(CallsOf(s.order, s.message), chunk.tools).order
  /\ z.message = MessageWithChunk(s.order, s.message, chunk)
  /\ z.finish = FinishWith(s.finish, chunk)
  /\ z.usage = (s.usage \/ chunk.usage)

LEMMA ChunkFits ==
  ASSUME NEW s \in Servers, NEW u, UpFits(s, u), NEW chunk \in Chunks, NEW z, SaidChunk(s, z, chunk)
  PROVE  /\ UpFits(z, Flushed(ProcessChunk(u, chunk)))
         /\ \A now, w : WireFits(s, u, w, now) => WireFits(z, Flushed(ProcessChunk(u, chunk)), w \o ProcessChunk(u, chunk).out, now)
         /\ Under(s.message, z.message)
<1> DEFINE next == ProcessChunk(u, chunk)
           f == Flushed(next)
<1>1. /\ u.out = <<>> /\ u.finish = s.finish /\ u.usage = s.usage /\ u.finalized = FALSE
  BY DEF UpFits, SaidChunk
<1>2. PICK B, y : Follows(B, y, u, s.order, s.message)
  BY DEF UpFits, SaidChunk
<1>3. /\ next.finish = z.finish /\ next.usage = z.usage /\ next.finalized = FALSE
  <2>1. /\ next.finish = FinishWith(u.finish, chunk) /\ next.usage = (u.usage \/ chunk.usage)
        /\ next.finalized = u.finalized
    BY <1>2, ChunkFollows
  <2> HIDE DEF next
  <2> QED BY <1>1, <2>1 DEF SaidChunk
<1>4. ASSUME NEW A, NEW v, Follows(A, v, u, s.order, s.message)
      PROVE  Follows(A, v \o next.out, f, z.order, z.message) /\ SameEnd(next, f) /\ f.out = <<>>
  <2>1. Follows(A, v, next, z.order, z.message)
    BY <1>4, ChunkFollows DEF SaidChunk
  <2> HIDE DEF next
  <2> QED BY <2>1, FlushedFollows
<1> HIDE DEF next, f
<1>5. UpFits(z, f)
  <2>1. Follows(B, y \o next.out, f, z.order, z.message) /\ SameEnd(next, f) /\ f.out = <<>>
    BY <1>2, <1>4
  <2> QED BY <1>3, <2>1 DEF UpFits, SameEnd
<1>6. ASSUME NEW now, NEW w, WireFits(s, u, w, now) PROVE WireFits(z, f, w \o next.out, now)
  BY <1>4, <1>6 DEF WireFits, SaidChunk
<1>7. Under(s.message, z.message)
  BY <1>2, SaidMore DEF SaidChunk
<1> QED BY <1>5, <1>6, <1>7 DEF next, f

LEMMA DeliverKeeps ==
  ASSUME IInv, NEW chunk \in Chunks, Deliver(chunk), SaidChunk(server, server', chunk)
  PROVE  IInv'
<1> DEFINE next == ProcessChunk(up, chunk)
<1>1. /\ up' = Flushed(next) /\ wire' = wire \o next.out
      /\ upState' = upState /\ downState' = downState /\ Now' = Now /\ client' = client
  BY DEF Deliver, Flushed, Now
<1>2. /\ server \in Servers /\ UpFits(server, up) /\ (upState = "running" <=> server.state = "answering")
      /\ downState \in {"running", "done"}
  BY DEF IInv
<1>3. /\ UpFits(server', Flushed(next)) /\ Under(server.message, server'.message)
      /\ \A now, w : WireFits(server, up, w, now) => WireFits(server', Flushed(next), w \o next.out, now)
  BY <1>2, ChunkFits
<1> HIDE DEF next
<1>4. downState = "running" => WireFits(server', up', wire', Now')
  BY <1>1, <1>3 DEF IInv
<1>5. ASSUME downState = "done" PROVE Knows(server', client') /\ client'.done = TRUE
  <2>1. Knows(server, client) /\ client.done = TRUE /\ server.state = "answering"
    BY <1>5 DEF IInv, SaidChunk
  <2>2. client.error = TRUE /\ client \in Clients /\ Under(client.message, server.message)
    BY <2>1 DEF Knows
  <2>3. Under(client.message, server'.message)
    BY <1>3, <2>2, UnderTransitive
  <2> QED BY <1>1, <2>1, <2>2, <2>3 DEF Knows
<1>6. server' \in Servers /\ server.state = "answering" /\ server'.state = "answering"
  BY DEF SaidChunk
<1> QED BY <1>1, <1>2, <1>3, <1>4, <1>5, <1>6 DEF IInv

LEMMA ChunkTyped ==
  ASSUME NEW s \in Servers, NEW u, UpFits(s, u), s.state = "answering", NEW chunk \in Chunks
  PROVE  /\ AllCalls(CallsOf(s.order, s.message), chunk.tools).order \in Seq(ToolIndices)
         /\ MessageWithChunk(s.order, s.message, chunk) \in Messages
<1>1. PICK A, v : Follows(A, v, u, s.order, s.message)
  BY DEF UpFits
<1> QED BY <1>1, ChunkFollows, FollowsTyped

\* Chunks that bear nothing but how the answer ended.
BareChunk(finish, usage) == Chunk(None, None, <<>>, finish, usage)

LEMMA BareChunkIs ==
  ASSUME NEW finish \in DOMAIN FinishToStop \cup {None}, NEW usage \in BOOLEAN
  PROVE  /\ BareChunk(finish, usage) \in Chunks
         /\ BareChunk(finish, usage).finish = finish
         /\ BareChunk(finish, usage).usage = usage
<1>1. <<>> \in Seq(Deltas) /\ Len(<<>>) = 0
  BY EmptySeq
<1> QED BY <1>1 DEF Chunk, Chunks, BareChunk

LEMMA BareChunkAdds ==
  ASSUME NEW finish, NEW usage, NEW order \in Seq(ToolIndices), NEW m \in Messages
  PROVE  /\ AllCalls(CallsOf(order, m), BareChunk(finish, usage).tools).order = order
         /\ MessageWithChunk(order, m, BareChunk(finish, usage)) = m
<1> DEFINE chunk == BareChunk(finish, usage)
<1>1. Len(<<>>) = 0
  OBVIOUS
<1>2. chunk.reasoning = None /\ chunk.content = None /\ chunk.tools = <<>>
  BY DEF Chunk, BareChunk
<1> HIDE DEF chunk
<1>3. AllCalls(CallsOf(order, m), chunk.tools) = CallsOf(order, m)
  BY <1>1, <1>2, AllCallsIs
<1>4. MessageWithChunk(order, m, chunk) = [thinking |-> m.thinking, text |-> m.text, tools |-> m.tools]
  BY <1>2, <1>3 DEF MessageWithChunk, Grown, CallsOf
<1>5. m = [thinking |-> m.thinking, text |-> m.text, tools |-> m.tools]
  <2> DEFINE Pieces == Seq(Nat)
             Tools == Seq(Seq(Nat))
  <2>1. m \in [thinking : Pieces, text : Pieces, tools : Tools]
    BY DEF Messages
  <2> HIDE DEF Pieces, Tools
  <2> QED BY <2>1
<1> QED BY <1>3, <1>4, <1>5 DEF CallsOf, chunk

Bears(chunk, reason) == chunk \in Chunks /\ chunk.finish = reason /\ chunk.usage = FALSE

LEMMA ShapeBears ==
  ASSUME NEW n \in Nat, NEW reasoning \in {n, None}, NEW content \in {n, None}, NEW deltas \in Seq(Deltas),
         Len(deltas) \in 0..2, NEW reason \in Finishes \cup {None}
  PROVE  Bears(Chunk(reasoning, content, deltas, reason, FALSE), reason)
<1>1. reason \in DOMAIN FinishToStop \cup {None}
  BY StreamAssumption
<1> QED BY <1>1 DEF Chunk, Chunks, Bears

LEMMA ShapesAreChunks ==
  ASSUME NEW n \in Nat, NEW reason \in Finishes \cup {None}, NEW chunk \in Shapes(n, reason)
  PROVE  Bears(chunk, reason)
<1> DEFINE bare == {Chunk(n, None, <<>>, reason, FALSE), Chunk(None, n, <<>>, reason, FALSE)}
           one == {Chunk(None, None, <<delta>>, reason, FALSE) : delta \in [index : ToolIndices, arguments : {n, None}]}
           two == {Chunk(None, n, <<ToolDelta(pair[1], n), ToolDelta(pair[2], n)>>, reason, FALSE) :
                     pair \in ToolIndices \X ToolIndices}
<1>1. n \in {n, None} /\ None \in {n, None}
  OBVIOUS
<1>2. CASE chunk \in bare
  <2> DEFINE s == <<>>
  <2>1. s \in Seq(Deltas) /\ Len(s) \in 0..2
    BY EmptySeq
  <2>2. chunk = Chunk(n, None, s, reason, FALSE) \/ chunk = Chunk(None, n, s, reason, FALSE)
    BY <1>2
  <2> HIDE DEF s
  <2>3. Bears(Chunk(n, None, s, reason, FALSE), reason)
    BY <1>1, <2>1, ShapeBears
  <2>4. Bears(Chunk(None, n, s, reason, FALSE), reason)
    BY <1>1, <2>1, ShapeBears
  <2> QED BY <2>2, <2>3, <2>4
<1>3. CASE chunk \in one
  <2>1. PICK d \in [index : ToolIndices, arguments : {n, None}] : chunk = Chunk(None, None, <<d>>, reason, FALSE)
    BY <1>3
  <2> DEFINE s == <<d>>
  <2>2. d \in Deltas
    BY DEF Deltas
  <2>3. s \in Seq(Deltas) /\ Len(s) \in 0..2
    BY <2>2
  <2> HIDE DEF s
  <2>4. Bears(Chunk(None, None, s, reason, FALSE), reason)
    BY <1>1, <2>3, ShapeBears
  <2> QED BY <2>1, <2>4 DEF s
<1>4. CASE chunk \in two
  <2>1. PICK pair \in ToolIndices \X ToolIndices : chunk = Chunk(None, n, <<ToolDelta(pair[1], n), ToolDelta(pair[2], n)>>, reason, FALSE)
    BY <1>4
  <2> DEFINE d == ToolDelta(pair[1], n)
             e == ToolDelta(pair[2], n)
             s == <<d, e>>
  <2>2. d \in Deltas /\ e \in Deltas
    BY DEF ToolDelta, Deltas
  <2> HIDE DEF d, e
  <2>3. s \in Seq(Deltas) /\ Len(s) \in 0..2
    BY <2>2
  <2> HIDE DEF s
  <2>4. Bears(Chunk(None, n, s, reason, FALSE), reason)
    BY <1>1, <2>3, ShapeBears
  <2> QED BY <2>1, <2>4 DEF s, d, e
<1>5. chunk \in bare \/ chunk \in one \/ chunk \in two
  BY DEF Shapes
<1> QED BY <1>2, <1>3, <1>4, <1>5

LEMMA SpeaksKeeps ==
  ASSUME IInv, NEW reason \in Finishes \cup {None}, NEW chunk \in Shapes(server.sent + 1, reason), ServerSpeaks(chunk)
  PROVE  IInv'
<1>1. server \in Servers /\ UpFits(server, up)
  BY DEF IInv
<1>2. server.sent + 1 \in Nat
  BY <1>1 DEF Servers
<1>3. chunk \in Chunks /\ chunk.finish = reason /\ chunk.usage = FALSE
  BY <1>2, ShapesAreChunks DEF Bears
<1> DEFINE C == AllCalls(CallsOf(server.order, server.message), chunk.tools)
           n == MessageWithChunk(server.order, server.message, chunk)
<1>4. server.state = "answering" /\ server.finish = None /\ Deliver(chunk)
  BY DEF ServerSpeaks, Answering
<1>5. C.order \in Seq(ToolIndices) /\ n \in Messages
  BY <1>1, <1>3, <1>4, ChunkTyped
<1>6. server' = [server EXCEPT !.sent = @ + 1, !.finish = chunk.finish, !.order = C.order, !.message = n]
  BY DEF ServerSpeaks, MessageWithChunk, CallsOf
<1> HIDE DEF C, n
<1>7. /\ server' \in Servers /\ server'.state = "answering" /\ server'.order = C.order /\ server'.message = n
      /\ server'.finish = chunk.finish /\ server'.usage = server.usage
  BY <1>1, <1>2, <1>3, <1>4, <1>5, <1>6, StreamAssumption DEF Servers
<1>8. server.usage = (server.usage \/ chunk.usage)
  BY <1>1, <1>3 DEF Servers
<1>9. SaidChunk(server, server', chunk)
  BY <1>3, <1>4, <1>7, <1>8 DEF SaidChunk, FinishWith, C, n
<1> QED BY <1>3, <1>4, <1>9, DeliverKeeps

LEMMA BareKeeps ==
  ASSUME IInv, NEW finish \in DOMAIN FinishToStop \cup {None}, NEW usage \in BOOLEAN,
         Deliver(BareChunk(finish, usage)), server.state = "answering",
         server' \in Servers, server'.state = "answering", server'.order = server.order,
         server'.message = server.message,
         server'.finish = IF finish = None THEN server.finish ELSE finish, server'.usage = (server.usage \/ usage)
  PROVE  IInv'
<1> DEFINE chunk == BareChunk(finish, usage)
<1>1. server \in Servers /\ server.order \in Seq(ToolIndices) /\ server.message \in Messages
  BY DEF IInv, Servers
<1>2. /\ chunk \in Chunks /\ chunk.finish = finish /\ chunk.usage = usage
      /\ AllCalls(CallsOf(server.order, server.message), chunk.tools).order = server.order
      /\ MessageWithChunk(server.order, server.message, chunk) = server.message
  <2>1. chunk \in Chunks /\ chunk.finish = finish /\ chunk.usage = usage
    BY BareChunkIs
  <2> DEFINE order == server.order
             m == server.message
  <2>2. order \in Seq(ToolIndices) /\ m \in Messages
    BY <1>1
  <2> HIDE DEF order, m
  <2>3. AllCalls(CallsOf(order, m), chunk.tools).order = order /\ MessageWithChunk(order, m, chunk) = m
    BY <2>2, BareChunkAdds
  <2> QED BY <2>1, <2>3 DEF order, m
<1>3. Deliver(chunk)
  OBVIOUS
<1> HIDE DEF chunk
<1>4. SaidChunk(server, server', chunk)
  BY <1>2 DEF SaidChunk, FinishWith
<1> QED BY <1>2, <1>3, <1>4, DeliverKeeps

LEMMA FinishesKeeps ==
  ASSUME IInv, NEW reason \in Finishes, ServerFinishes(reason) PROVE IInv'
<1>1. server \in Servers /\ reason \in DOMAIN FinishToStop
  BY StreamAssumption DEF IInv
<1>2. reason # None
  BY <1>1, NoneAssumption
<1>3. /\ server.state = "answering" /\ server' = [server EXCEPT !.finish = reason]
      /\ Deliver(BareChunk(reason, FALSE))
  BY DEF ServerFinishes, Answering, BareChunk
<1>4. /\ server' \in Servers /\ server'.state = "answering" /\ server'.order = server.order
      /\ server'.message = server.message /\ server'.finish = reason /\ server'.usage = server.usage
  BY <1>1, <1>3 DEF Servers
<1>5. server.usage = (server.usage \/ FALSE)
  BY <1>1 DEF Servers
<1>6. reason \in DOMAIN FinishToStop \cup {None} /\ server'.finish = IF reason = None THEN server.finish ELSE reason
  BY <1>1, <1>2, <1>4
<1>7. server'.usage = (server.usage \/ FALSE)
  BY <1>4, <1>5
<1> QED BY <1>3, <1>4, <1>6, <1>7, BareKeeps

LEMMA ReportsKeeps == ASSUME IInv, ServerReports PROVE IInv'
<1>1. server \in Servers
  BY DEF IInv
<1>2. /\ server.state = "answering" /\ server' = [server EXCEPT !.usage = TRUE]
      /\ Deliver(BareChunk(None, TRUE))
  BY DEF ServerReports, Answering, BareChunk
<1>3. /\ server' \in Servers /\ server'.state = "answering" /\ server'.order = server.order
      /\ server'.message = server.message /\ server'.finish = server.finish /\ server'.usage = TRUE
  BY <1>1, <1>2 DEF Servers
<1>4. server'.usage = (server.usage \/ TRUE)
  BY <1>3
<1> QED BY <1>2, <1>3, <1>4, BareKeeps

LEMMA ComplainsKeeps == ASSUME IInv, ServerComplains PROVE IInv'
<1>1. server \in Servers
  BY DEF IInv
<1>2. /\ server.state = "answering" /\ server' = [server EXCEPT !.complained = TRUE]
      /\ Deliver(BareChunk(None, FALSE))
  BY DEF ServerComplains, Answering, ErrorChunk, BareChunk
<1>3. /\ server' \in Servers /\ server'.state = "answering" /\ server'.order = server.order
      /\ server'.message = server.message /\ server'.finish = server.finish /\ server'.usage = server.usage
  BY <1>1, <1>2 DEF Servers
<1>4. server'.usage = (server.usage \/ FALSE)
  BY <1>1, <1>3 DEF Servers
<1> QED BY <1>2, <1>3, <1>4, BareKeeps

LEMMA ServerEndsKeeps == ASSUME IInv, ServerEnds PROVE IInv'
<1>1. /\ server \in Servers /\ UpFits(server, up) /\ server.state = "answering" /\ upState = "running"
      /\ downState \in {"running", "done"}
  BY DEF IInv, ServerEnds
<1>2. /\ server' = [server EXCEPT !.state = "ended"] /\ upState' = "done"
      /\ wire' = wire \o Finalize(up).out
      /\ downState' = downState /\ client' = client /\ Now' = Now
  BY DEF ServerEnds, UpEnds, Now
<1>3. /\ server' \in Servers /\ server'.state = "ended" /\ server'.order = server.order
      /\ server'.message = server.message /\ server'.finish = server.finish /\ server'.usage = server.usage
  BY <1>1, <1>2 DEF Servers
<1>4. up.finish = server.finish /\ up.usage = server.usage /\ up.finalized = FALSE
  BY <1>1 DEF UpFits
<1>5. UpFits(server', up')
  BY <1>3 DEF UpFits
<1>6. ASSUME downState = "running" PROVE WireFits(server', up', wire', Now')
  <2>1. Follows(Now, wire, up, server.order, server.message)
    BY <1>1, <1>6 DEF IInv, WireFits
  <2>2. PICK E : /\ Leads(Now, wire \o Finalize(up).out, E, server.message)
                 /\ Finished(E, server.order, server.message, up.finish, up.usage)
    BY <1>4, <2>1, EndsWell
  <2>3. /\ Leads(Now', wire', E, server'.message)
        /\ Finished(E, server'.order, server'.message, server'.finish, server'.usage)
    BY <1>2, <1>3, <1>4, <2>2
  <2> QED BY <1>3, <2>3 DEF WireFits
<1>7. ASSUME downState = "done" PROVE Knows(server', client') /\ client'.done = TRUE
  <2>1. Knows(server, client) /\ client.done = TRUE
    BY <1>7 DEF IInv
  <2> QED BY <1>1, <1>2, <1>3, <2>1 DEF Knows
<1> QED BY <1>1, <1>2, <1>3, <1>5, <1>6, <1>7 DEF IInv

LEMMA ServerBreaksKeeps == ASSUME IInv, ServerBreaks PROVE IInv'
<1>1. /\ server \in Servers /\ UpFits(server, up) /\ server.state = "answering" /\ upState = "running"
      /\ downState \in {"running", "done"}
  BY DEF IInv, ServerBreaks
<1>2. /\ server' = [server EXCEPT !.state = "broken"] /\ upState' = "done"
      /\ wire' = wire \o Failed(up).out
      /\ downState' = downState /\ client' = client /\ Now' = Now
  BY DEF ServerBreaks, UpBreaks, Now
<1>3. /\ server' \in Servers /\ server'.state = "broken" /\ server'.message = server.message
  BY <1>1, <1>2 DEF Servers
<1>4. UpFits(server', up')
  BY <1>3 DEF UpFits
<1>5. ASSUME downState = "running" PROVE WireFits(server', up', wire', Now')
  <2>1. Follows(Now, wire, up, server.order, server.message) /\ up.out = <<>>
    BY <1>1, <1>5 DEF IInv, WireFits, UpFits
  <2>2. PICK E : Leads(Now, wire \o Failed(up).out, E, server.message) /\ Excused(E)
    BY <2>1, ErrorEnds
  <2>3. Leads(Now', wire', E, server'.message)
    BY <1>2, <1>3, <2>2
  <2> QED BY <1>3, <2>2, <2>3 DEF WireFits
<1>6. ASSUME downState = "done" PROVE Knows(server', client') /\ client'.done = TRUE
  <2>1. Knows(server, client) /\ client.done = TRUE
    BY <1>6 DEF IInv
  <2> QED BY <1>1, <1>2, <1>3, <2>1 DEF Knows
<1> QED BY <1>1, <1>2, <1>3, <1>4, <1>5, <1>6 DEF IInv

\* The second translator is where it was, or an event further.
LEMMA WirePast ==
  ASSUME NEW s \in Servers, NEW u, UpFits(s, u), NEW w, NEW now, WireFits(s, u, w, now), w # <<>>
  PROVE  Acceptable(now.reader, Head(w)) /\ WireFits(s, u, Tail(w), Consume(now, Head(w)))
<1>1. CASE s.state = "answering"
  <2>1. PICK E : w \in Seq(Events) /\ Leads(now, w \o u.out, E, s.message) /\ Live(E, u, s.order, s.message)
    BY <1>1 DEF WireFits, Follows
  <2>2. u.out = <<>> /\ w \o u.out = w
    BY <1>1, <2>1, ConcatEmptySeq DEF UpFits
  <2>3. Acceptable(now.reader, Head(w)) /\ Leads(Consume(now, Head(w)), Tail(w), E, s.message)
    BY <2>1, <2>2, LeadsPast
  <2>4. Tail(w) \in Seq(Events) /\ Tail(w) \o u.out = Tail(w)
    <3>1. Tail(w) \in Seq(Events)
      BY <2>3 DEF Leads
    <3> QED BY <2>2, <3>1, ConcatEmptySeq
  <2>5. Follows(Consume(now, Head(w)), Tail(w), u, s.order, s.message)
    BY <2>1, <2>3, <2>4 DEF Follows
  <2> QED BY <1>1, <2>3, <2>5 DEF WireFits
<1>2. CASE s.state = "ended"
  <2>1. PICK E : Leads(now, w, E, s.message) /\ Finished(E, s.order, s.message, s.finish, s.usage)
    BY <1>2 DEF WireFits
  <2>2. Acceptable(now.reader, Head(w)) /\ Leads(Consume(now, Head(w)), Tail(w), E, s.message)
    BY <2>1, LeadsPast
  <2> QED BY <1>2, <2>1, <2>2 DEF WireFits
<1>3. CASE s.state = "broken"
  <2>1. PICK E : Leads(now, w, E, s.message) /\ Excused(E)
    BY <1>3 DEF WireFits
  <2>2. Acceptable(now.reader, Head(w)) /\ Leads(Consume(now, Head(w)), Tail(w), E, s.message)
    BY <2>1, LeadsPast
  <2> QED BY <1>3, <2>1, <2>2 DEF WireFits
<1> QED BY <1>1, <1>2, <1>3 DEF Servers

LEMMA DownReadsKeeps == ASSUME IInv, DownReads PROVE IInv'
<1> DEFINE next == ProcessEvent(down, Head(wire))
<1>1. /\ server \in Servers /\ UpFits(server, up) /\ (upState = "running" <=> server.state = "answering")
      /\ downState = "running" /\ wire # <<>> /\ WireFits(server, up, wire, Now)
  BY DEF IInv, DownReads
<1>2. /\ down' = [next EXCEPT !.out = <<>>] /\ client' = Hears(client, next.out)
      /\ reader' = Reads(reader, Head(wire)) /\ wire' = Tail(wire)
      /\ server' = server /\ up' = up /\ upState' = upState /\ downState' = downState
  BY DEF DownReads, Serve
<1>3. Now' = Consume(Now, Head(wire))
  <2>1. Now' = Consumer(reader', down', client')
    BY DEF Now
  <2>2. Consume(Now, Head(wire)) = Consumer(Reads(reader, Head(wire)), [next EXCEPT !.out = <<>>], Hears(client, next.out))
    BY NowIs DEF Consume
  <2> QED BY <1>2, <2>1, <2>2
<1>4. WireFits(server, up, Tail(wire), Consume(Now, Head(wire)))
  BY <1>1, WirePast
<1> HIDE DEF next
<1>5. WireFits(server', up', wire', Now')
  BY <1>2, <1>3, <1>4
<1> QED BY <1>1, <1>2, <1>5 DEF IInv

LEMMA HangUpIs ==
  ASSUME NEW d \in Downs, d.done = TRUE PROVE HangUp(d).out = <<>>
BY DEF HangUp, Downs

LEMMA DownEndsKeeps == ASSUME IInv, DownEnds PROVE IInv'
<1>1. /\ server \in Servers /\ UpFits(server, up) /\ (upState = "running" <=> server.state = "answering")
      /\ downState = "running" /\ wire = <<>> /\ upState = "done" /\ WireFits(server, up, wire, Now)
  BY DEF IInv, DownEnds
<1>2. /\ downState' = "done" /\ client' = Hears(client, HangUp(down).out)
      /\ server' = server /\ up' = up /\ upState' = upState
  BY DEF DownEnds, Serve
<1>3. server.state = "ended" \/ server.state = "broken"
  BY <1>1 DEF Servers
<1>4. down \in Downs /\ down.done = TRUE /\ client.done = TRUE
  <2>1. CASE server.state = "ended"
    <3>1. PICK E : Leads(Now, wire, E, server.message) /\ Finished(E, server.order, server.message, server.finish, server.usage)
      BY <1>1, <2>1 DEF WireFits
    <3>2. E = Now
      BY <1>1, <3>1, LeadsFrom
    <3> QED BY <3>1, <3>2, NowIs DEF Finished, Complete
  <2>2. CASE server.state = "broken"
    <3>1. PICK E : Leads(Now, wire, E, server.message) /\ Excused(E)
      BY <1>1, <2>2 DEF WireFits
    <3>2. E = Now
      BY <1>1, <3>1, LeadsFrom
    <3> QED BY <3>1, <3>2, NowIs DEF Excused
  <2> QED BY <1>3, <2>1, <2>2
<1>5. client' = client
  BY <1>2, <1>4, HangUpIs, HearsNone
<1>6. Knows(server, client)
  BY ClientKnows
<1> QED BY <1>1, <1>2, <1>4, <1>5, <1>6 DEF IInv

LEMMA NowQuiet ==
  ASSUME NEW s \in Servers, NEW u, UpFits(s, u), NEW w, NEW now, WireFits(s, u, w, now) PROVE Quiet(now.down)
<1>1. PICK v, E : Leads(now, v, E, s.message)
  <2>1. s.state \in {"answering", "ended", "broken"}
    BY DEF Servers
  <2> QED BY <2>1 DEF WireFits, Follows
<1> QED BY <1>1, LeadsFrom DEF Sound

LEMMA ExcuseSays ==
  ASSUME NEW d, Quiet(d) PROVE Excuse(d).out = <<ErrorSaid, DoneSaid>>
<1> DEFINE e == [d EXCEPT !.out = Append(@, ErrorSaid)]
           f == [e EXCEPT !.out = Append(@, DoneSaid)]
<1>1. "out" \in DOMAIN d /\ d.out = <<>>
  BY DEF Quiet
<1>2. e.out = Append(<<>>, ErrorSaid) /\ "out" \in DOMAIN e
  BY <1>1
<1> HIDE DEF e
<1>3. f.out = Append(Append(<<>>, ErrorSaid), DoneSaid)
  BY <1>2
<1>4. Excuse(d) = f
  BY DEF Excuse, Say, e
<1> HIDE DEF f
<1> QED BY <1>3, <1>4, AppendEmpty

LEMMA DoneHearsNothing ==
  ASSUME NEW c, c.done = TRUE, NEW x, NEW y PROVE Hears(c, <<x, y>>) = c
<1>1. \A z : Receives(c, z) = c
  BY DEF Receives
<1> QED BY <1>1, HearsTwo

LEMMA DownBreaksKeeps == ASSUME IInv, DownBreaks PROVE IInv'
<1>1. /\ server \in Servers /\ UpFits(server, up) /\ (upState = "running" <=> server.state = "answering")
      /\ downState = "running" /\ WireFits(server, up, wire, Now)
  BY DEF IInv, DownBreaks
<1>2. /\ downState' = "done" /\ client' = Hears(client, Excuse(down).out)
      /\ server' = server /\ up' = up /\ upState' = upState
  BY DEF DownBreaks, Serve
<1>3. Knows(server, client)
  BY ClientKnows
<1>4. Quiet(down)
  <2>1. Quiet(Now.down)
    BY <1>1, NowQuiet
  <2> QED BY <2>1, NowIs
<1>5. client' = Hears(client, <<ErrorSaid, DoneSaid>>)
  BY <1>2, <1>4, ExcuseSays
<1>6. Knows(server, client') /\ client'.done = TRUE
  <2>1. CASE client.done = TRUE
    BY <1>3, <1>5, <2>1, DoneHearsNothing
  <2>2. CASE client.done = FALSE
    <3>1. client \in Clients /\ Under(client.message, server.message)
      BY <1>3 DEF Knows
    <3> DEFINE c == [client EXCEPT !.error = TRUE, !.done = TRUE]
    <3>2. client' = c
      BY <1>5, <2>2, <3>1, ErrorHeard
    <3>3. c \in Clients /\ c.message = client.message /\ c.error = TRUE /\ c.done = TRUE
      BY <2>2, <3>1, ErrorHeard
    <3> HIDE DEF c
    <3> QED BY <3>1, <3>2, <3>3 DEF Knows
  <2>3. client.done \in BOOLEAN
    BY <1>3 DEF Knows, Clients
  <2> QED BY <2>1, <2>2, <2>3
<1> QED BY <1>1, <1>2, <1>6 DEF IInv

LEMMA NextInv == IInv /\ [Next]_vars => IInv'
<1> SUFFICES ASSUME IInv, [Next]_vars PROVE IInv'
  OBVIOUS
<1>1. ASSUME NEW reason \in Finishes \cup {None}, NEW chunk \in Shapes(server.sent + 1, reason), ServerSpeaks(chunk)
      PROVE  IInv'
  BY <1>1, SpeaksKeeps
<1>2. ASSUME NEW reason \in Finishes, ServerFinishes(reason) PROVE IInv'
  BY <1>2, FinishesKeeps
<1>3. CASE ServerReports
  BY <1>3, ReportsKeeps
<1>4. CASE ServerComplains
  BY <1>4, ComplainsKeeps
<1>5. CASE ServerEnds
  BY <1>5, ServerEndsKeeps
<1>6. CASE ServerBreaks
  BY <1>6, ServerBreaksKeeps
<1>7. CASE DownReads
  BY <1>7, DownReadsKeeps
<1>8. CASE DownEnds
  BY <1>8, DownEndsKeeps
<1>9. CASE DownBreaks
  BY <1>9, DownBreaksKeeps
<1>10. CASE UNCHANGED vars
  <2>1. Now' = Now
    BY <1>10 DEF vars, Now
  <2> QED BY <1>10, <2>1 DEF vars, IInv
<1> QED BY <1>1, <1>2, <1>3, <1>4, <1>5, <1>6, <1>7, <1>8, <1>9, <1>10 DEF Next, ServerSteps, DownSteps

LEMMA AlwaysInv == Spec => []IInv
BY InitInv, NextInv, PTL DEF Spec

\* Every event of _translated_stream is one an Anthropic client accepts, in whatever chunks the
\* server's pieces and tool calls come, and wherever the stream breaks off (_open_block,
\* _close_block, process_chunk, finalize, error).
THEOREM EventsInOrder == Spec => []BlocksInOrder
<1>1. IInv => BlocksInOrder
  <2> SUFFICES ASSUME IInv, downState = "running", wire # <<>> PROVE Acceptable(reader, Head(wire))
    BY DEF BlocksInOrder
  <2>1. server \in Servers /\ UpFits(server, up) /\ WireFits(server, up, wire, Now)
    BY DEF IInv
  <2>2. Acceptable(Now.reader, Head(wire))
    BY <2>1, WirePast
  <2> QED BY <2>2, NowIs
<1> QED BY <1>1, AlwaysInv, PTL

\* The client of both translators has the beginning of what the server sent, piece by piece and
\* tool by tool, and all of it when its stream ends without an error.
THEOREM PiecesArrive == Spec => []MessageArrives
<1>1. IInv => MessageArrives
  <2> SUFFICES ASSUME IInv PROVE MessageArrives
    OBVIOUS
  <2>1. Knows(server, client)
    BY ClientKnows
  <2>2. Piecewise(IsPrefix, client.message, server.message)
    BY <2>1, UnderIs DEF Knows, Under
  <2>3. client.done /\ ~client.error => client.message = server.message
    BY <2>1 DEF Knows, Complete, Clients
  <2> QED BY <2>2, <2>3 DEF MessageArrives
<1> QED BY <1>1, AlwaysInv, PTL

\* The finish_reason and the usage survive the translation there and back, where tools turn "stop"
\* into "tool_calls" (FINISH_REASON_TO_STOP_REASON, STOP_REASON_TO_FINISH_REASON, finalize).
THEOREM EndArrives == Spec => []FinishArrives
<1>1. IInv => FinishArrives
  <2> SUFFICES ASSUME IInv, client.done, ~client.error
               PROVE  client.usage = server.usage /\ client.finish = FinishTold(server.order, server.finish)
    BY DEF FinishArrives, FinishTold
  <2>1. Knows(server, client)
    BY ClientKnows
  <2> QED BY <2>1 DEF Knows, Complete, Clients
<1> QED BY <1>1, AlwaysInv, PTL

\* A client whose stream is done knows of a server that broke off, wherever it did.
THEOREM BreaksAreTold == Spec => []BreakTold
<1>1. IInv => BreakTold
  <2> SUFFICES ASSUME IInv, server.state = "broken", client.done PROVE client.error
    BY DEF BreakTold
  <2>1. Knows(server, client)
    BY ClientKnows
  <2> QED BY <2>1 DEF Knows, Clients
<1> QED BY <1>1, AlwaysInv, PTL

-----------------------------------------------------------------------------
(* Blocks, and what is picked from a sequence of them.                     *)

BlockTypes == {"text", "image", "thinking", "tool_use", "tool_result"}
IdsOf == Nat \cup {None}
BlocksOfTypes(types) == [type : types, text : Seq(Nat), id : IdsOf]
Blocks == BlocksOfTypes(BlockTypes)

Results(content) == Ids(OfType(content, {"tool_result"}))
Calls(content) == Ids(OfType(content, {"tool_use"}))

Sieve(types) == [b \in Blocks |-> IF b.type \in types THEN <<b>> ELSE <<>>]

\* Blocks of some types are blocks.
LEMMA SubtypedSeq ==
  ASSUME NEW types \in SUBSET BlockTypes, NEW s \in Seq(BlocksOfTypes(types))
  PROVE  s \in Seq(Blocks)
<1>1. BlocksOfTypes(types) \subseteq Blocks
  BY DEF Blocks, BlocksOfTypes
<1> QED BY <1>1, SeqMonotonic

\* What OfType makes of one block.
LEMMA SieveType ==
  ASSUME NEW types \in SUBSET BlockTypes
  PROVE  Sieve(types) \in [Blocks -> Seq(BlocksOfTypes(types))] /\ Sieve(types) \in [Blocks -> Seq(Blocks)]
<1>1. ASSUME NEW b \in Blocks PROVE Sieve(types)[b] \in Seq(BlocksOfTypes(types))
  <2>1. Sieve(types)[b] = IF b.type \in types THEN <<b>> ELSE <<>>
    BY DEF Sieve
  <2>2. <<>> \in Seq(BlocksOfTypes(types))
    BY EmptySeq
  <2>3. b.type \in types => b \in BlocksOfTypes(types)
    BY DEF Blocks, BlocksOfTypes
  <2>4. b \in BlocksOfTypes(types) => <<b>> \in Seq(BlocksOfTypes(types))
    OBVIOUS
  <2> QED BY <2>1, <2>2, <2>3, <2>4
<1>2. Sieve(types) = [b \in Blocks |-> Sieve(types)[b]]
  BY DEF Sieve
<1>3. \A b \in Blocks : Sieve(types)[b] \in Seq(Blocks)
  BY <1>1, SubtypedSeq
<1> QED BY <1>1, <1>2, <1>3

\* OfType spreads its sieve over the content.
LEMMA OfTypeIs ==
  ASSUME NEW s \in Seq(Blocks), NEW types PROVE OfType(s, types) = Spread(s, Sieve(types))
<1>1. ASSUME NEW i \in DOMAIN s PROVE Sieve(types)[s[i]] = IF s[i].type \in types THEN <<s[i]>> ELSE <<>>
  <2>1. s[i] \in Blocks
    BY LenProperties, ElementOfSeq
  <2> QED BY <2>1 DEF Sieve
<1>2. MapSeq(s, Sieve(types)) = [i \in DOMAIN s |-> IF s[i].type \in types THEN <<s[i]>> ELSE <<>>]
  BY <1>1 DEF MapSeq
<1> QED BY <1>2 DEF Spread, OfType

LEMMA OfTypeEmpty == ASSUME NEW types PROVE OfType(<<>>, types) = <<>>
<1>1. <<>> \in Seq(Blocks)
  BY EmptySeq
<1> QED BY <1>1, OfTypeIs, SpreadEmpty

LEMMA OfTypeType ==
  ASSUME NEW s \in Seq(Blocks), NEW types \in SUBSET BlockTypes
  PROVE  OfType(s, types) \in Seq(BlocksOfTypes(types)) /\ OfType(s, types) \in Seq(Blocks)
<1>1. Spread(s, Sieve(types)) \in Seq(BlocksOfTypes(types))
  BY SieveType, SpreadType
<1> QED BY <1>1, OfTypeIs, SubtypedSeq

LEMMA OfTypeConcat ==
  ASSUME NEW s \in Seq(Blocks), NEW t \in Seq(Blocks), NEW types \in SUBSET BlockTypes
  PROVE  OfType(s \o t, types) = OfType(s, types) \o OfType(t, types)
<1>1. s \o t \in Seq(Blocks)
  BY ConcatProperties
<1> DEFINE f == Sieve(types)
<1>2. f \in [Blocks -> Seq(Blocks)]
  BY SieveType
<1>3. \A r \in Seq(Blocks) : OfType(r, types) = Spread(r, f)
  BY OfTypeIs
<1> HIDE DEF f
<1>4. Spread(s \o t, f) = Spread(s, f) \o Spread(t, f)
  BY <1>2, SpreadConcat
<1> QED BY <1>1, <1>3, <1>4

LEMMA OfTypeOne ==
  ASSUME NEW b \in Blocks, NEW types \in SUBSET BlockTypes
  PROVE  OfType(<<b>>, types) = IF b.type \in types THEN <<b>> ELSE <<>>
<1>1. <<b>> \in Seq(Blocks)
  OBVIOUS
<1>2. Spread(<<b>>, Sieve(types)) = Sieve(types)[b]
  BY SieveType, SpreadOne
<1> QED BY <1>1, <1>2, OfTypeIs DEF Sieve

\* All of them, or none.
LEMMA OfTypeAll ==
  ASSUME NEW types \in SUBSET BlockTypes, NEW some \in SUBSET types, NEW s \in Seq(BlocksOfTypes(some))
  PROVE  OfType(s, types) = s
<1> DEFINE B == BlocksOfTypes(some)
           P == {r \in Seq(B) : OfType(r, types) = r}
<1>1. <<>> \in P
  BY EmptySeq, OfTypeEmpty
<1>2. ASSUME NEW r \in Seq(B), NEW x \in B, r \in P PROVE Append(r, x) \in P
  <2>a. some \in SUBSET BlockTypes
    OBVIOUS
  <2>b. r \in Seq(Blocks)
    BY <2>a, SubtypedSeq
  <2>c. x \in Blocks /\ x.type \in types
    BY DEF Blocks, BlocksOfTypes
  <2>d. <<x>> \in Seq(Blocks)
    BY <2>c
  <2>e. Append(r, x) \in Seq(B) /\ Append(r, x) = r \o <<x>>
    BY AppendProperties, AppendIsConcat
  <2>1. /\ r \in Seq(Blocks) /\ <<x>> \in Seq(Blocks) /\ x \in Blocks /\ x.type \in types
        /\ Append(r, x) \in Seq(B) /\ Append(r, x) = r \o <<x>>
    BY <2>b, <2>c, <2>d, <2>e
  <2>2. OfType(r \o <<x>>, types) = OfType(r, types) \o OfType(<<x>>, types)
    BY <2>1, OfTypeConcat
  <2>3. OfType(<<x>>, types) = <<x>>
    BY <2>1, OfTypeOne
  <2> QED BY <1>2, <2>1, <2>2, <2>3
<1> HIDE DEF P
<1>3. Seq(B) \subseteq P
  BY <1>1, <1>2, SeqInduct
<1> QED BY <1>3 DEF P

LEMMA OfTypeNone ==
  ASSUME NEW types \in SUBSET BlockTypes, NEW some \in SUBSET (BlockTypes \ types), NEW s \in Seq(BlocksOfTypes(some))
  PROVE  OfType(s, types) = <<>>
<1> DEFINE B == BlocksOfTypes(some)
           P == {r \in Seq(B) : OfType(r, types) = <<>>}
<1>1. <<>> \in P
  BY EmptySeq, OfTypeEmpty
<1>2. ASSUME NEW r \in Seq(B), NEW x \in B, r \in P PROVE Append(r, x) \in P
  <2>a. some \in SUBSET BlockTypes
    OBVIOUS
  <2>b. r \in Seq(Blocks)
    BY <2>a, SubtypedSeq
  <2>c. x \in Blocks /\ x.type \notin types
    BY DEF Blocks, BlocksOfTypes
  <2>d. <<x>> \in Seq(Blocks)
    BY <2>c
  <2>e. Append(r, x) \in Seq(B) /\ Append(r, x) = r \o <<x>>
    BY AppendProperties, AppendIsConcat
  <2>1. /\ r \in Seq(Blocks) /\ <<x>> \in Seq(Blocks) /\ x \in Blocks /\ x.type \notin types
        /\ Append(r, x) \in Seq(B) /\ Append(r, x) = r \o <<x>>
    BY <2>b, <2>c, <2>d, <2>e
  <2>2. OfType(r \o <<x>>, types) = OfType(r, types) \o OfType(<<x>>, types)
    BY <2>1, OfTypeConcat
  <2>3. OfType(<<x>>, types) = <<>>
    BY <2>1, OfTypeOne
  <2>4. <<>> \o <<>> = <<>>
    BY EmptySeq, ConcatEmptySeq
  <2> QED BY <1>2, <2>1, <2>2, <2>3, <2>4
<1> HIDE DEF P
<1>3. Seq(B) \subseteq P
  BY <1>1, <1>2, SeqInduct
<1> QED BY <1>3 DEF P

\* The ids of blocks.
IdOf == [b \in Blocks |-> b.id]

LEMMA IdsIs == ASSUME NEW s \in Seq(Blocks) PROVE Ids(s) = MapSeq(s, IdOf)
<1>1. \A i \in DOMAIN s : s[i] \in Blocks
  BY LenProperties, ElementOfSeq
<1> QED BY <1>1 DEF Ids, MapSeq, IdOf

\* The ids of blocks, in their order.
LEMMA IdsProperties ==
  ASSUME NEW s \in Seq(Blocks)
  PROVE  /\ Ids(s) \in Seq(IdsOf) /\ Len(Ids(s)) = Len(s)
         /\ \A i \in 1..Len(s) : Ids(s)[i] = s[i].id
<1>1. IdOf \in [Blocks -> IdsOf]
  BY DEF IdOf, Blocks, BlocksOfTypes
<1>2. \A i \in 1..Len(s) : s[i] \in Blocks
  BY ElementOfSeq
<1>3. \A b \in Blocks : IdOf[b] = b.id
  BY DEF IdOf
<1>4. /\ MapSeq(s, IdOf) \in Seq(IdsOf) /\ Len(MapSeq(s, IdOf)) = Len(s)
      /\ \A i \in 1..Len(s) : MapSeq(s, IdOf)[i] = IdOf[s[i]]
  BY <1>1, MappedEach, MappedType
<1>5. Ids(s) = MapSeq(s, IdOf)
  BY IdsIs
<1> QED BY <1>2, <1>3, <1>4, <1>5

LEMMA IdsEmpty == Ids(<<>>) = <<>>
BY DEF Ids

LEMMA IdsConcat ==
  ASSUME NEW s \in Seq(Blocks), NEW t \in Seq(Blocks) PROVE Ids(s \o t) = Ids(s) \o Ids(t)
<1>1. IdOf \in [Blocks -> IdsOf]
  BY DEF IdOf, Blocks, BlocksOfTypes
<1>2. s \o t \in Seq(Blocks)
  BY ConcatProperties
<1> DEFINE f == IdOf
<1>3. \A r \in Seq(Blocks) : Ids(r) = MapSeq(r, f)
  BY IdsIs
<1> HIDE DEF f
<1>4. MapSeq(s \o t, f) = MapSeq(s, f) \o MapSeq(t, f)
  <2>1. f \in [Blocks -> IdsOf]
    BY <1>1 DEF f
  <2> QED BY <2>1, MappedConcat
<1> QED BY <1>2, <1>3, <1>4

LEMMA PickedType ==
  ASSUME NEW s \in Seq(Blocks)
  PROVE  /\ Results(s) \in Seq(IdsOf) /\ Calls(s) \in Seq(IdsOf)
         /\ Len(Results(s)) = Len(OfType(s, {"tool_result"}))
         /\ Len(Calls(s)) = Len(OfType(s, {"tool_use"}))
<1>1. OfType(s, {"tool_result"}) \in Seq(Blocks) /\ OfType(s, {"tool_use"}) \in Seq(Blocks)
  BY OfTypeType DEF BlockTypes
<1> QED BY <1>1, IdsProperties DEF Results, Calls

\* The results and the calls of two contents, one after the other.
LEMMA PickedConcat ==
  ASSUME NEW s \in Seq(Blocks), NEW t \in Seq(Blocks)
  PROVE  Results(s \o t) = Results(s) \o Results(t) /\ Calls(s \o t) = Calls(s) \o Calls(t)
<1>1. /\ OfType(s, {"tool_result"}) \in Seq(Blocks) /\ OfType(s, {"tool_use"}) \in Seq(Blocks)
      /\ OfType(t, {"tool_result"}) \in Seq(Blocks) /\ OfType(t, {"tool_use"}) \in Seq(Blocks)
  BY OfTypeType DEF BlockTypes
<1>2. /\ OfType(s \o t, {"tool_result"}) = OfType(s, {"tool_result"}) \o OfType(t, {"tool_result"})
      /\ OfType(s \o t, {"tool_use"}) = OfType(s, {"tool_use"}) \o OfType(t, {"tool_use"})
  BY OfTypeConcat DEF BlockTypes
<1> DEFINE a == OfType(s, {"tool_result"})
           b == OfType(t, {"tool_result"})
           c == OfType(s, {"tool_use"})
           d == OfType(t, {"tool_use"})
<1>3. Ids(a \o b) = Ids(a) \o Ids(b) /\ Ids(c \o d) = Ids(c) \o Ids(d)
  <2>1. a \in Seq(Blocks) /\ b \in Seq(Blocks) /\ c \in Seq(Blocks) /\ d \in Seq(Blocks)
    BY <1>1
  <2> HIDE DEF a, b, c, d
  <2> QED BY <2>1, IdsConcat
<1> QED BY <1>2, <1>3 DEF Results, Calls

LEMMA PickedEmpty == Results(<<>>) = <<>> /\ Calls(<<>>) = <<>>
BY OfTypeEmpty, IdsEmpty DEF Results, Calls

-----------------------------------------------------------------------------
(* What blocks say.                                                        *)

Roles == {"system", "user", "assistant"}
AtomSet == Roles \X BlockTypes \X IdsOf
AtomsOf(role) == [b \in Blocks |-> Atoms(role, b)]
PieceAtom(role) == [n \in Nat |-> <<role, "text", n>>]
TextAtoms(role, text) == [i \in DOMAIN text |-> <<role, "text", text[i]>>]

\* Sequences one after the other: associative, and nothing adds nothing.
LEMMA Concats ==
  ASSUME NEW T
  PROVE  /\ \A q, r, v \in Seq(T) : q \o (r \o v) = (q \o r) \o v
         /\ \A q, r \in Seq(T) : q \o r \in Seq(T)
         /\ \A q \in Seq(T) : q \o <<>> = q /\ <<>> \o q = q
         /\ <<>> \in Seq(T) /\ <<>> \o <<>> = <<>>
<1>1. \A q, r, v \in Seq(T) : q \o (r \o v) = (q \o r) \o v
  <2> SUFFICES ASSUME NEW q \in Seq(T), NEW r \in Seq(T), NEW v \in Seq(T) PROVE q \o (r \o v) = (q \o r) \o v
    OBVIOUS
  <2>1. Associate(q, r, v)
    BY Associates
  <2> QED BY <2>1 DEF Associate
<1>2. \A q, r \in Seq(T) : q \o r \in Seq(T)
  BY ConcatProperties
<1>3. \A q \in Seq(T) : q \o <<>> = q /\ <<>> \o q = q
  BY ConcatEmptySeq
<1>4. <<>> \in Seq(T)
  BY EmptySeq
<1> QED BY <1>1, <1>2, <1>3, <1>4

LEMMA TextAtomsIs ==
  ASSUME NEW role \in Roles, NEW text \in Seq(Nat)
  PROVE  /\ PieceAtom(role) \in [Nat -> AtomSet]
         /\ TextAtoms(role, text) = MapSeq(text, PieceAtom(role))
         /\ TextAtoms(role, text) \in Seq(AtomSet)
<1>1. PieceAtom(role) \in [Nat -> AtomSet]
  BY DEF PieceAtom, AtomSet, BlockTypes, IdsOf
<1>2. \A i \in DOMAIN text : text[i] \in Nat
  BY LenProperties, ElementOfSeq
<1>3. TextAtoms(role, text) = MapSeq(text, PieceAtom(role))
  BY <1>2 DEF TextAtoms, MapSeq, PieceAtom
<1>4. MapSeq(text, PieceAtom(role)) \in Seq(AtomSet)
  BY <1>1, MappedEach, MappedType
<1> QED BY <1>1, <1>3, <1>4

LEMMA AtomsOfType ==
  ASSUME NEW role \in Roles PROVE AtomsOf(role) \in [Blocks -> Seq(AtomSet)]
<1> SUFFICES ASSUME NEW b \in Blocks PROVE Atoms(role, b) \in Seq(AtomSet)
  BY DEF AtomsOf
<1>1. b.type \in BlockTypes /\ b.text \in Seq(Nat) /\ b.id \in IdsOf
  BY DEF Blocks, BlocksOfTypes
<1>2. TextAtoms(role, b.text) \in Seq(AtomSet)
  BY <1>1, TextAtomsIs
<1>3. << <<role, b.type, b.id>> >> \in Seq(AtomSet)
  BY <1>1 DEF AtomSet
<1>4. <<>> \in Seq(AtomSet)
  BY EmptySeq
<1> QED BY <1>2, <1>3, <1>4 DEF Atoms, TextAtoms

ResultAtoms(role, s) == Spread(OfType(s, {"tool_result"}), AtomsOf(role))
PartAtoms(role, s) == Spread(OfType(s, {"text", "image"}), AtomsOf(role))
CallAtoms(role, s) == Spread(OfType(s, {"tool_use"}), AtomsOf(role))

LEMMA SortsOfTypes ==
  {"tool_result"} \in SUBSET BlockTypes /\ {"text", "image"} \in SUBSET BlockTypes /\ {"tool_use"} \in SUBSET BlockTypes
    /\ {"text"} \in SUBSET BlockTypes /\ {"image"} \in SUBSET BlockTypes /\ {"thinking"} \in SUBSET BlockTypes
BY DEF BlockTypes

LEMMA AtomsTypes ==
  ASSUME NEW role \in Roles, NEW s \in Seq(Blocks)
  PROVE  /\ ResultAtoms(role, s) \in Seq(AtomSet) /\ PartAtoms(role, s) \in Seq(AtomSet)
         /\ CallAtoms(role, s) \in Seq(AtomSet)
<1>1. \A r \in Seq(Blocks) : Spread(r, AtomsOf(role)) \in Seq(AtomSet)
  BY AtomsOfType, SpreadType
<1>2. \A types \in SUBSET BlockTypes : OfType(s, types) \in Seq(Blocks)
  BY OfTypeType
<1> QED BY <1>1, <1>2, SortsOfTypes DEF ResultAtoms, PartAtoms, CallAtoms

\* What a content says, part by part: results, then texts and images, then calls.
LEMMA SaidIs ==
  ASSUME NEW role \in Roles, NEW s \in Seq(Blocks)
  PROVE  SaidIn(role, s) = (ResultAtoms(role, s) \o PartAtoms(role, s)) \o CallAtoms(role, s)
<1> DEFINE a == OfType(s, {"tool_result"})
           b == OfType(s, {"text", "image"})
           c == OfType(s, {"tool_use"})
           f == AtomsOf(role)
<1>1. a \in Seq(Blocks) /\ b \in Seq(Blocks) /\ c \in Seq(Blocks)
  BY SortsOfTypes, OfTypeType
<1>2. InOrder(s) = (a \o b) \o c
  BY DEF InOrder
<1>3. a \o b \in Seq(Blocks) /\ (a \o b) \o c \in Seq(Blocks)
  BY <1>1, ConcatProperties
<1>4. f \in [Blocks -> Seq(AtomSet)]
  BY AtomsOfType
<1>5. \A i \in DOMAIN InOrder(s) : InOrder(s)[i] \in Blocks
  BY <1>2, <1>3, LenProperties, ElementOfSeq
<1>6. SaidIn(role, s) = Spread(InOrder(s), f)
  <2>1. [i \in DOMAIN InOrder(s) |-> Atoms(role, InOrder(s)[i])] = MapSeq(InOrder(s), f)
    BY <1>5 DEF MapSeq, AtomsOf
  <2> QED BY <2>1 DEF SaidIn, Spread
<1> HIDE DEF f, a, b, c
<1>7. \A q, r \in Seq(Blocks) : Spread(q \o r, f) = Spread(q, f) \o Spread(r, f)
  BY <1>4, SpreadConcat
<1>8. Spread((a \o b) \o c, f) = (Spread(a, f) \o Spread(b, f)) \o Spread(c, f)
  <2>1. Spread((a \o b) \o c, f) = Spread(a \o b, f) \o Spread(c, f)
    BY <1>1, <1>3, <1>7
  <2>2. Spread(a \o b, f) = Spread(a, f) \o Spread(b, f)
    BY <1>1, <1>7
  <2> QED BY <2>1, <2>2
<1> QED BY <1>2, <1>6, <1>8 DEF f, a, b, c, ResultAtoms, PartAtoms, CallAtoms

LEMMA SaidType ==
  ASSUME NEW role \in Roles, NEW s \in Seq(Blocks) PROVE SaidIn(role, s) \in Seq(AtomSet)
<1> DEFINE a == ResultAtoms(role, s)
           b == PartAtoms(role, s)
           c == CallAtoms(role, s)
<1>1. a \in Seq(AtomSet) /\ b \in Seq(AtomSet) /\ c \in Seq(AtomSet)
  BY AtomsTypes
<1> HIDE DEF a, b, c
<1>2. (a \o b) \o c \in Seq(AtomSet)
  BY <1>1, ConcatProperties
<1> QED BY <1>2, SaidIs DEF a, b, c

LEMMA SaidEmpty == ASSUME NEW role \in Roles PROVE SaidIn(role, <<>>) = <<>>
<1>1. <<>> \in Seq(Blocks)
  BY EmptySeq
<1>2. ResultAtoms(role, <<>>) = <<>> /\ PartAtoms(role, <<>>) = <<>> /\ CallAtoms(role, <<>>) = <<>>
  BY OfTypeEmpty, SpreadEmpty DEF ResultAtoms, PartAtoms, CallAtoms
<1>3. SaidIn(role, <<>>) = (<<>> \o <<>>) \o <<>>
  BY <1>1, <1>2, SaidIs
<1> QED BY <1>3, EmptySeq, ConcatEmptySeq

\* Each part of what two contents say.
LEMMA AtomsConcat ==
  ASSUME NEW role \in Roles, NEW s \in Seq(Blocks), NEW t \in Seq(Blocks)
  PROVE  /\ ResultAtoms(role, s \o t) = ResultAtoms(role, s) \o ResultAtoms(role, t)
         /\ PartAtoms(role, s \o t) = PartAtoms(role, s) \o PartAtoms(role, t)
         /\ CallAtoms(role, s \o t) = CallAtoms(role, s) \o CallAtoms(role, t)
<1> DEFINE f == AtomsOf(role)
<1>1. f \in [Blocks -> Seq(AtomSet)]
  BY AtomsOfType
<1>2. ASSUME NEW types \in SUBSET BlockTypes
      PROVE  Spread(OfType(s \o t, types), f) = Spread(OfType(s, types), f) \o Spread(OfType(t, types), f)
  <2> HIDE DEF f
  <2>1. OfType(s, types) \in Seq(Blocks) /\ OfType(t, types) \in Seq(Blocks)
    BY OfTypeType
  <2>2. OfType(s \o t, types) = OfType(s, types) \o OfType(t, types)
    BY OfTypeConcat
  <2>3. \A q, r \in Seq(Blocks) : Spread(q \o r, f) = Spread(q, f) \o Spread(r, f)
    BY <1>1, SpreadConcat
  <2> QED BY <2>1, <2>2, <2>3
<1> QED BY <1>2, SortsOfTypes DEF ResultAtoms, PartAtoms, CallAtoms

\* What says nothing before, and what says nothing after.
LEMMA SaidConcat ==
  ASSUME NEW role \in Roles, NEW s \in Seq(Blocks), NEW t \in Seq(Blocks),
         OfType(s, {"tool_use"}) = <<>>, OfType(t, {"tool_result"}) = <<>>
  PROVE  SaidIn(role, s \o t) = SaidIn(role, s) \o SaidIn(role, t)
<1> DEFINE a == ResultAtoms(role, s)
           b == PartAtoms(role, s)
           c == PartAtoms(role, t)
           d == CallAtoms(role, t)
<1>1. a \in Seq(AtomSet) /\ b \in Seq(AtomSet) /\ c \in Seq(AtomSet) /\ d \in Seq(AtomSet)
  BY AtomsTypes
<1>2. CallAtoms(role, s) = <<>> /\ ResultAtoms(role, t) = <<>>
  BY SpreadEmpty DEF CallAtoms, ResultAtoms
<1>3. SaidIn(role, s) = (a \o b) \o <<>> /\ SaidIn(role, t) = (<<>> \o c) \o d
  BY <1>2, SaidIs
<1>4. s \o t \in Seq(Blocks)
  BY ConcatProperties
<1>5. SaidIn(role, s \o t) = ((a \o <<>>) \o (b \o c)) \o (<<>> \o d)
  <2>1. SaidIn(role, s \o t) = (ResultAtoms(role, s \o t) \o PartAtoms(role, s \o t)) \o CallAtoms(role, s \o t)
    BY <1>4, SaidIs
  <2>2. /\ ResultAtoms(role, s \o t) = a \o <<>> /\ PartAtoms(role, s \o t) = b \o c
        /\ CallAtoms(role, s \o t) = <<>> \o d
    BY <1>2, AtomsConcat
  <2> QED BY <2>1, <2>2
<1> HIDE DEF a, b, c, d
<1> DEFINE S == Seq(AtomSet)
<1>51. Associate(a, b, c)
  BY <1>1, Associates
<1>52. \A q, r, v \in S : Associate(q, r, v)
  BY Associates
<1>6. /\ \A q, r \in S : q \o r \in S
      /\ \A q \in S : q \o <<>> = q /\ <<>> \o q = q
  BY Concats
<1>7. a \in S /\ b \in S /\ c \in S /\ d \in S
  BY <1>1
<1> HIDE DEF S
<1>8. a \o <<>> = a /\ <<>> \o d = d /\ <<>> \o c = c /\ (a \o b) \o <<>> = a \o b /\ a \o b \in S
  BY <1>6, <1>7
<1> DEFINE ab == a \o b
<1>9. a \o (b \o c) = (a \o b) \o c
  BY <1>51 DEF Associate
<1>10. ((a \o b) \o c) \o d = (a \o b) \o (c \o d)
  <2>1. ab \in S
    BY <1>8
  <2>2. Associate(ab, c, d)
    <3> HIDE DEF ab
    <3> QED BY <1>52, <1>7, <2>1
  <2> QED BY <2>2 DEF Associate
<1> QED BY <1>3, <1>5, <1>8, <1>9, <1>10

\* Blocks of one kind say what they say, in their order.
LEMMA SaidOfKind ==
  ASSUME NEW role \in Roles, NEW types \in { {"tool_result"}, {"text", "image"}, {"tool_use"} },
         NEW some \in SUBSET types, NEW s \in Seq(BlocksOfTypes(some))
  PROVE  SaidIn(role, s) = Spread(s, AtomsOf(role))
<1>0. some \in SUBSET BlockTypes /\ types \in SUBSET BlockTypes
  BY DEF BlockTypes
<1>1. s \in Seq(Blocks)
  BY <1>0, SubtypedSeq
<1>2. OfType(s, types) = s
  BY <1>0, OfTypeAll
<1>3. ASSUME NEW other \in { {"tool_result"}, {"text", "image"}, {"tool_use"} }, other # types
      PROVE  OfType(s, other) = <<>>
  <2>1. some \in SUBSET (BlockTypes \ other) /\ other \in SUBSET BlockTypes
    BY <1>0, <1>3 DEF BlockTypes
  <2> QED BY <2>1, OfTypeNone
<1>4. ASSUME NEW other \in { {"tool_result"}, {"text", "image"}, {"tool_use"} }, other # types
      PROVE  Spread(OfType(s, other), AtomsOf(role)) = <<>>
  BY <1>3, <1>4, SpreadEmpty
<1> DEFINE x == Spread(s, AtomsOf(role))
<1>5. x \in Seq(AtomSet)
  BY <1>1, AtomsOfType, SpreadType
<1>6. x \o <<>> = x /\ <<>> \o x = x
  BY <1>5, ConcatEmptySeq
<1>n. <<>> \o <<>> = <<>>
  BY EmptySeq, ConcatEmptySeq
<1>8. Spread(OfType(s, types), AtomsOf(role)) = x
  BY <1>2
<1>9. SaidIn(role, s) = (ResultAtoms(role, s) \o PartAtoms(role, s)) \o CallAtoms(role, s)
  BY <1>1, SaidIs
<1> HIDE DEF x
<1>7. \/ ResultAtoms(role, s) = x /\ PartAtoms(role, s) = <<>> /\ CallAtoms(role, s) = <<>>
      \/ ResultAtoms(role, s) = <<>> /\ PartAtoms(role, s) = x /\ CallAtoms(role, s) = <<>>
      \/ ResultAtoms(role, s) = <<>> /\ PartAtoms(role, s) = <<>> /\ CallAtoms(role, s) = x
  <2>0. "image" # "tool_result" /\ {"text", "image"} # {"tool_result"} /\ {"text", "image"} # {"tool_use"} /\ {"tool_result"} # {"tool_use"}
    OBVIOUS
  <2>1. CASE types = {"tool_result"}
    <3>1. ResultAtoms(role, s) = x
      BY <1>8, <2>1 DEF ResultAtoms
    <3>2. PartAtoms(role, s) = <<>> /\ CallAtoms(role, s) = <<>>
      BY <1>4, <2>0, <2>1 DEF PartAtoms, CallAtoms
    <3> QED BY <3>1, <3>2
  <2>2. CASE types = {"text", "image"}
    <3>1. PartAtoms(role, s) = x
      BY <1>8, <2>2 DEF PartAtoms
    <3>2. ResultAtoms(role, s) = <<>> /\ CallAtoms(role, s) = <<>>
      BY <1>4, <2>0, <2>2 DEF ResultAtoms, CallAtoms
    <3> QED BY <3>1, <3>2
  <2>3. CASE types = {"tool_use"}
    <3>1. CallAtoms(role, s) = x
      BY <1>8, <2>3 DEF CallAtoms
    <3>2. ResultAtoms(role, s) = <<>> /\ PartAtoms(role, s) = <<>>
      BY <1>4, <2>0, <2>3 DEF ResultAtoms, PartAtoms
    <3> QED BY <3>1, <3>2
  <2> QED BY <2>1, <2>2, <2>3
<1> HIDE DEF ResultAtoms, PartAtoms, CallAtoms
<1>10. SaidIn(role, s) = x
  <2>1. CASE ResultAtoms(role, s) = x /\ PartAtoms(role, s) = <<>> /\ CallAtoms(role, s) = <<>>
    BY <1>6, <1>9, <2>1
  <2>2. CASE ResultAtoms(role, s) = <<>> /\ PartAtoms(role, s) = x /\ CallAtoms(role, s) = <<>>
    BY <1>6, <1>9, <2>2
  <2>3. CASE ResultAtoms(role, s) = <<>> /\ PartAtoms(role, s) = <<>> /\ CallAtoms(role, s) = x
    BY <1>6, <1>9, <1>n, <2>3
  <2> QED BY <1>7, <2>1, <2>2, <2>3
<1> QED BY <1>10 DEF x

LEMMA ThoughtsUnsaid ==
  ASSUME NEW role \in Roles, NEW s \in Seq(BlocksOfTypes({"thinking"}))
  PROVE  SaidIn(role, s) = <<>>
<1>1. s \in Seq(Blocks)
  BY SortsOfTypes, SubtypedSeq
<1>2. \A types \in { {"tool_result"}, {"text", "image"}, {"tool_use"} } : OfType(s, types) = <<>>
  <2> TAKE types \in { {"tool_result"}, {"text", "image"}, {"tool_use"} }
  <2>1. {"thinking"} \in SUBSET (BlockTypes \ types) /\ types \in SUBSET BlockTypes
    BY DEF BlockTypes
  <2> QED BY <2>1, OfTypeNone
<1>3. OfType(s, {"tool_result"}) = <<>> /\ OfType(s, {"text", "image"}) = <<>> /\ OfType(s, {"tool_use"}) = <<>>
  BY <1>2
<1>4. ResultAtoms(role, s) = <<>> /\ PartAtoms(role, s) = <<>> /\ CallAtoms(role, s) = <<>>
  BY <1>3, SpreadEmpty DEF ResultAtoms, PartAtoms, CallAtoms
<1>5. SaidIn(role, s) = (<<>> \o <<>>) \o <<>>
  BY <1>1, <1>4, SaidIs
<1> QED BY <1>5, EmptySeq, ConcatEmptySeq

-----------------------------------------------------------------------------
(* Texts, calls and results.                                               *)

TextBlocks == BlocksOfTypes({"text"})
PartBlocks == BlocksOfTypes({"text", "image"})
UserBlocks == BlocksOfTypes({"text", "image", "tool_result"})
AssistantBlocks == BlocksOfTypes({"text", "thinking", "tool_use"})

ToolUses(ids) == [i \in DOMAIN ids |-> ToolUse(ids[i])]
ToolResults(ids) == [i \in DOMAIN ids |-> ToolResult(ids[i])]
IdAtoms(role, type, ids) == [i \in DOMAIN ids |-> <<role, type, ids[i]>>]

\* Blocks of fewer types are blocks of more.
LEMMA KindsInclude ==
  ASSUME NEW types, NEW some \in SUBSET types, NEW s \in Seq(BlocksOfTypes(some))
  PROVE  s \in Seq(BlocksOfTypes(types))
<1>1. BlocksOfTypes(some) \subseteq BlocksOfTypes(types)
  BY DEF BlocksOfTypes
<1> QED BY <1>1, SeqMonotonic

LEMMA KindsOf ==
  /\ Seq(TextBlocks) \subseteq Seq(PartBlocks) /\ Seq(PartBlocks) \subseteq Seq(UserBlocks)
  /\ Seq(TextBlocks) \subseteq Seq(AssistantBlocks) /\ Seq(UserBlocks) \subseteq Seq(Blocks)
  /\ Seq(AssistantBlocks) \subseteq Seq(Blocks) /\ Seq(PartBlocks) \subseteq Seq(Blocks)
  /\ Seq(TextBlocks) \subseteq Seq(Blocks)
<1>1. \A types, some : some \subseteq types => Seq(BlocksOfTypes(some)) \subseteq Seq(BlocksOfTypes(types))
  BY KindsInclude
<1>2. /\ {"text"} \subseteq {"text", "image"} /\ {"text", "image"} \subseteq {"text", "image", "tool_result"}
      /\ {"text"} \subseteq {"text", "thinking", "tool_use"} /\ {"text", "image", "tool_result"} \subseteq BlockTypes
      /\ {"text", "thinking", "tool_use"} \subseteq BlockTypes /\ {"text", "image"} \subseteq BlockTypes
      /\ {"text"} \subseteq BlockTypes
  BY DEF BlockTypes
<1> HIDE DEF BlocksOfTypes
<1> QED BY <1>1, <1>2 DEF TextBlocks, PartBlocks, UserBlocks, AssistantBlocks, Blocks

LEMMA TextBlock ==
  ASSUME NEW text \in Seq(Nat)
  PROVE  Text(text) \in TextBlocks /\ <<Text(text)>> \in Seq(TextBlocks) /\ Optional(text) \in Seq(TextBlocks)
<1>1. Text(text) \in TextBlocks
  BY DEF Text, Block, TextBlocks, BlocksOfTypes, IdsOf
<1>2. <<Text(text)>> \in Seq(TextBlocks)
  BY <1>1
<1> QED BY <1>1, <1>2, EmptySeq DEF Optional

\* Calls and results made for ids have those ids.
LEMMA ToolsType ==
  ASSUME NEW ids \in Seq(IdsOf)
  PROVE  /\ ToolUses(ids) \in Seq(BlocksOfTypes({"tool_use"})) /\ Ids(ToolUses(ids)) = ids
         /\ ToolResults(ids) \in Seq(BlocksOfTypes({"tool_result"})) /\ Ids(ToolResults(ids)) = ids
         /\ Len(ToolUses(ids)) = Len(ids) /\ Len(ToolResults(ids)) = Len(ids)
<1> DEFINE n == Len(ids)
<1>1. n \in Nat /\ DOMAIN ids = 1..n /\ \A i \in 1..n : ids[i] \in IdsOf
  BY LenProperties, ElementOfSeq
<1>2. <<>> \in Seq(Nat)
  BY EmptySeq
<1>3. \A i \in 1..n : ToolUse(ids[i]) \in BlocksOfTypes({"tool_use"}) /\ ToolUse(ids[i]).id = ids[i]
                      /\ ToolResult(ids[i]) \in BlocksOfTypes({"tool_result"}) /\ ToolResult(ids[i]).id = ids[i]
  BY <1>1, <1>2 DEF ToolUse, ToolResult, Block, BlocksOfTypes
<1>4. ToolUses(ids) \in [1..n -> BlocksOfTypes({"tool_use"})] /\ ToolResults(ids) \in [1..n -> BlocksOfTypes({"tool_result"})]
  BY <1>1, <1>3 DEF ToolUses, ToolResults
<1>5. \A T : [1..n -> T] \subseteq Seq(T)
  BY <1>1
<1>6. ToolUses(ids) \in Seq(BlocksOfTypes({"tool_use"})) /\ ToolResults(ids) \in Seq(BlocksOfTypes({"tool_result"}))
  BY <1>4, <1>5
<1>7. Len(ToolUses(ids)) = n /\ Len(ToolResults(ids)) = n
  BY <1>1, <1>4, <1>6, LenProperties
<1>8. ids = [i \in 1..n |-> ids[i]]
  BY <1>1
<1>9. Ids(ToolUses(ids)) = [i \in 1..n |-> ids[i]]
  BY <1>1, <1>3 DEF Ids, ToolUses
<1>10. Ids(ToolResults(ids)) = [i \in 1..n |-> ids[i]]
  BY <1>1, <1>3 DEF Ids, ToolResults
<1> QED BY <1>6, <1>7, <1>8, <1>9, <1>10

\* A user's blocks have no calls, an assistant's no results.
LEMMA NothingPicked ==
  /\ \A s \in Seq(UserBlocks) : OfType(s, {"tool_use"}) = <<>> /\ Calls(s) = <<>>
  /\ \A s \in Seq(AssistantBlocks) : OfType(s, {"tool_result"}) = <<>> /\ Results(s) = <<>>
  /\ \A s \in Seq(PartBlocks) : OfType(s, {"tool_result"}) = <<>> /\ Results(s) = <<>> /\ OfType(s, {"tool_use"}) = <<>> /\ Calls(s) = <<>>
  /\ \A s \in Seq(BlocksOfTypes({"tool_use"})) : OfType(s, {"tool_result"}) = <<>> /\ Results(s) = <<>>
                                                 /\ OfType(s, {"tool_use"}) = s
  /\ \A s \in Seq(BlocksOfTypes({"tool_result"})) : OfType(s, {"tool_use"}) = <<>> /\ Calls(s) = <<>>
                                                 /\ OfType(s, {"tool_result"}) = s
  /\ \A s \in Seq(BlocksOfTypes({"thinking"})) : OfType(s, {"tool_use"}) = <<>> /\ Calls(s) = <<>>
                                                 /\ OfType(s, {"tool_result"}) = <<>> /\ Results(s) = <<>>
<1>1. \A types, some : types \subseteq BlockTypes /\ some \subseteq BlockTypes \ types =>
         \A s \in Seq(BlocksOfTypes(some)) : OfType(s, types) = <<>>
  BY OfTypeNone
<1>2. \A types : types \subseteq BlockTypes => \A s \in Seq(BlocksOfTypes(types)) : OfType(s, types) = s
  BY OfTypeAll
<1>3. /\ {"text", "image", "tool_result"} \subseteq BlockTypes \ {"tool_use"}
      /\ {"text", "thinking", "tool_use"} \subseteq BlockTypes \ {"tool_result"}
      /\ {"text", "image"} \subseteq BlockTypes \ {"tool_result"} /\ {"text", "image"} \subseteq BlockTypes \ {"tool_use"}
      /\ {"tool_use"} \subseteq BlockTypes \ {"tool_result"} /\ {"tool_result"} \subseteq BlockTypes \ {"tool_use"}
      /\ {"thinking"} \subseteq BlockTypes \ {"tool_use"} /\ {"thinking"} \subseteq BlockTypes \ {"tool_result"}
      /\ {"tool_use"} \subseteq BlockTypes /\ {"tool_result"} \subseteq BlockTypes
  BY DEF BlockTypes
<1>4. Ids(<<>>) = <<>>
  BY IdsEmpty
<1>5. \A s \in Seq(UserBlocks) : OfType(s, {"tool_use"}) = <<>>
  BY <1>1, <1>3 DEF UserBlocks
<1>6. \A s \in Seq(AssistantBlocks) : OfType(s, {"tool_result"}) = <<>>
  BY <1>1, <1>3 DEF AssistantBlocks
<1>7. \A s \in Seq(PartBlocks) : OfType(s, {"tool_result"}) = <<>> /\ OfType(s, {"tool_use"}) = <<>>
  BY <1>1, <1>3 DEF PartBlocks
<1>8. \A s \in Seq(BlocksOfTypes({"tool_use"})) : OfType(s, {"tool_result"}) = <<>> /\ OfType(s, {"tool_use"}) = s
  BY <1>1, <1>2, <1>3
<1>9. \A s \in Seq(BlocksOfTypes({"tool_result"})) : OfType(s, {"tool_use"}) = <<>> /\ OfType(s, {"tool_result"}) = s
  BY <1>1, <1>2, <1>3
<1>10. \A s \in Seq(BlocksOfTypes({"thinking"})) : OfType(s, {"tool_use"}) = <<>> /\ OfType(s, {"tool_result"}) = <<>>
  BY <1>1, <1>3
<1> QED BY <1>4, <1>5, <1>6, <1>7, <1>8, <1>9, <1>10 DEF Results, Calls

\* The ids of the calls and of the results that were made for them.
LEMMA ToolsPicked ==
  ASSUME NEW ids \in Seq(IdsOf)
  PROVE  /\ Calls(ToolUses(ids)) = ids /\ Results(ToolUses(ids)) = <<>>
         /\ Results(ToolResults(ids)) = ids /\ Calls(ToolResults(ids)) = <<>>
         /\ ToolUses(ids) \in Seq(Blocks) /\ ToolResults(ids) \in Seq(Blocks)
         /\ ToolUses(ids) \in Seq(AssistantBlocks) /\ ToolResults(ids) \in Seq(UserBlocks)
<1>1. /\ ToolUses(ids) \in Seq(BlocksOfTypes({"tool_use"})) /\ Ids(ToolUses(ids)) = ids
      /\ ToolResults(ids) \in Seq(BlocksOfTypes({"tool_result"})) /\ Ids(ToolResults(ids)) = ids
  BY ToolsType
<1>2. /\ OfType(ToolUses(ids), {"tool_use"}) = ToolUses(ids) /\ Results(ToolUses(ids)) = <<>>
      /\ OfType(ToolResults(ids), {"tool_result"}) = ToolResults(ids) /\ Calls(ToolResults(ids)) = <<>>
  BY <1>1, NothingPicked
<1>3. ToolUses(ids) \in Seq(AssistantBlocks)
  BY <1>1, KindsInclude DEF AssistantBlocks
<1>4. ToolResults(ids) \in Seq(UserBlocks)
  BY <1>1, KindsInclude DEF UserBlocks
<1>5. ToolUses(ids) \in Seq(Blocks) /\ ToolResults(ids) \in Seq(Blocks)
  BY <1>3, <1>4, KindsOf
<1>6. Calls(ToolUses(ids)) = ids /\ Results(ToolResults(ids)) = ids
  BY <1>1, <1>2 DEF Calls, Results
<1> QED BY <1>2, <1>3, <1>4, <1>5, <1>6

TextFn == [b \in Blocks |-> b.text]

\* Joined texts, as a spreading.
LEMMA JoinedIs ==
  ASSUME NEW s \in Seq(Blocks)
  PROVE  Joined(s) = Spread(s, TextFn) /\ TextFn \in [Blocks -> Seq(Nat)] /\ Joined(s) \in Seq(Nat)
<1>1. TextFn \in [Blocks -> Seq(Nat)]
  BY DEF TextFn, Blocks, BlocksOfTypes
<1>2. \A i \in DOMAIN s : s[i] \in Blocks
  BY LenProperties, ElementOfSeq
<1>3. [i \in DOMAIN s |-> s[i].text] = MapSeq(s, TextFn)
  BY <1>2 DEF MapSeq, TextFn
<1>4. Joined(s) = Spread(s, TextFn)
  BY <1>3 DEF Joined, Spread
<1>5. Spread(s, TextFn) \in Seq(Nat)
  BY <1>1, SpreadType
<1> QED BY <1>1, <1>4, <1>5

LEMMA TextOfType == ASSUME NEW s \in Seq(Blocks) PROVE TextOf(s) \in Seq(Nat)
BY SortsOfTypes, OfTypeType, JoinedIs DEF TextOf

LEMMA JoinedOne == ASSUME NEW text \in Seq(Nat) PROVE Joined(<<Text(text)>>) = text
<1>1. Text(text) \in Blocks /\ <<Text(text)>> \in Seq(Blocks)
  <2>1. Text(text) \in TextBlocks
    BY TextBlock
  <2>2. TextBlocks \subseteq Blocks
    BY DEF TextBlocks, Blocks, BlocksOfTypes, BlockTypes
  <2> QED BY <2>1, <2>2
<1>2. Joined(<<Text(text)>>) = Spread(<<Text(text)>>, TextFn) /\ TextFn \in [Blocks -> Seq(Nat)]
  BY <1>1, JoinedIs
<1>3. Spread(<<Text(text)>>, TextFn) = TextFn[Text(text)]
  BY <1>1, <1>2, SpreadOne
<1>4. Text(text).text = text
  BY DEF Text, Block
<1>5. TextFn[Text(text)] = Text(text).text
  BY <1>1 DEF TextFn
<1> QED BY <1>2, <1>3, <1>4, <1>5

\* Texts say what their joined text says.
LEMMA TextsSaid ==
  ASSUME NEW role \in Roles, NEW s \in Seq(TextBlocks)
  PROVE  Spread(s, AtomsOf(role)) = TextAtoms(role, Joined(s))
<1> DEFINE h == Singles(PieceAtom(role))
           g == AtomsOf(role)
<1>0. s \in Seq(Blocks)
  BY KindsOf
<1>1. h \in [Nat -> Seq(AtomSet)]
  BY TextAtomsIs DEF PieceAtom, Singles, AtomSet, BlockTypes, IdsOf
<1>2. \A t \in Seq(Nat) : Spread(t, h) = TextAtoms(role, t)
  <2> TAKE t \in Seq(Nat)
  <2>1. PieceAtom(role) \in [Nat -> AtomSet] /\ TextAtoms(role, t) = MapSeq(t, PieceAtom(role))
    BY TextAtomsIs
  <2>2. Spread(t, Singles(PieceAtom(role))) = MapSeq(t, PieceAtom(role))
    BY <2>1, SpreadSingle
  <2> QED BY <2>1, <2>2
<1> HIDE DEF h
<1>3. Joined(s) = Spread(s, TextFn) /\ TextFn \in [Blocks -> Seq(Nat)] /\ Joined(s) \in Seq(Nat)
  BY <1>0, JoinedIs
<1>5. \A i \in 1..Len(s) : g[s[i]] = Spread(TextFn[s[i]], h)
  <2> TAKE i \in 1..Len(s)
  <2>1. s[i] \in TextBlocks /\ s[i] \in Blocks
    BY <1>0, ElementOfSeq
  <2>2. s[i].type = "text" /\ s[i].text \in Seq(Nat)
    BY <2>1 DEF TextBlocks, BlocksOfTypes
  <2>3. TextFn[s[i]] = s[i].text
    BY <2>1 DEF TextFn
  <2>4. AtomsOf(role)[s[i]] = TextAtoms(role, s[i].text)
    BY <2>1, <2>2 DEF AtomsOf, Atoms, TextAtoms
  <2> QED BY <1>2, <2>2, <2>3, <2>4
<1> HIDE DEF g
<1>6. Spread(Spread(s, TextFn), h) = Spread(s, g)
  <2>1. TextFn \in [Blocks -> Seq(Nat)]
    BY <1>3
  <2>2. Twice(s, TextFn, h, g)
    BY <1>5 DEF Twice
  <2>3. Spreads(TextFn, Blocks, Nat) /\ Spreads(h, Nat, AtomSet)
    BY <1>1, <2>1 DEF Spreads
  <2> QED BY <1>0, <2>2, <2>3, SpreadTwice
<1>7. Spread(s, g) = TextAtoms(role, Joined(s))
  BY <1>2, <1>3, <1>6
<1> QED BY <1>7 DEF g

LEMMA TextAtomsEmpty == ASSUME NEW role PROVE TextAtoms(role, <<>>) = <<>>
BY DEF TextAtoms

LEMMA IdAtomsEmpty == ASSUME NEW role, NEW type PROVE IdAtoms(role, type, <<>>) = <<>>
BY DEF IdAtoms

\* A text is said the same as a block of its own, and left out if it is empty.
LEMMA OptionalSaid ==
  ASSUME NEW role \in Roles, NEW text \in Seq(Nat)
  PROVE  SaidIn(role, Optional(text)) = TextAtoms(role, text) /\ SaidIn(role, <<Text(text)>>) = TextAtoms(role, text)
<1>1. <<Text(text)>> \in Seq(TextBlocks)
  BY TextBlock
<1>2. SaidIn(role, <<Text(text)>>) = Spread(<<Text(text)>>, AtomsOf(role))
  <2>1. {"text"} \in SUBSET {"text", "image"}
    OBVIOUS
  <2> QED BY <1>1, <2>1, SaidOfKind DEF TextBlocks
<1>3. SaidIn(role, <<Text(text)>>) = TextAtoms(role, text)
  BY <1>1, <1>2, TextsSaid, JoinedOne
<1>4. CASE text = <<>>
  BY <1>3, <1>4, SaidEmpty, TextAtomsEmpty DEF Optional
<1>5. CASE text # <<>>
  BY <1>3, <1>5 DEF Optional
<1> QED BY <1>3, <1>4, <1>5

\* Blocks of a kind that is known by its id say their ids.
LEMMA NamedSaid ==
  ASSUME NEW role \in Roles, NEW type \in {"tool_use", "tool_result"}, NEW s \in Seq(BlocksOfTypes({type}))
  PROVE  Spread(s, AtomsOf(role)) = IdAtoms(role, type, Ids(s))
<1> DEFINE g == [b \in Blocks |-> <<role, b.type, b.id>>]
           h == Singles(g)
<1>0. s \in Seq(Blocks)
  <2>1. {type} \in SUBSET BlockTypes
    BY DEF BlockTypes
  <2> QED BY <2>1, SubtypedSeq
<1>1. g \in [Blocks -> AtomSet]
  BY DEF AtomSet, Blocks, BlocksOfTypes
<1>2. \A i \in 1..Len(s) : s[i] \in Blocks /\ s[i].type = type
  <2> TAKE i \in 1..Len(s)
  <2>1. s[i] \in BlocksOfTypes({type})
    BY ElementOfSeq
  <2>2. s[i] \in Blocks
    BY <1>0, ElementOfSeq
  <2> QED BY <2>1, <2>2 DEF BlocksOfTypes
<1>3. \A b \in Blocks : g[b] = <<role, b.type, b.id>> /\ h[b] = << <<role, b.type, b.id>> >>
  BY DEF Singles
<1>4. \A i \in 1..Len(s) : AtomsOf(role)[s[i]] = h[s[i]]
  <2> TAKE i \in 1..Len(s)
  <2>1. s[i] \in Blocks /\ s[i].type = type /\ type # "text" /\ type # "thinking"
    BY <1>2
  <2>2. AtomsOf(role)[s[i]] = << <<role, s[i].type, s[i].id>> >>
    BY <2>1 DEF AtomsOf, Atoms
  <2> QED BY <1>3, <2>1, <2>2
<1>5. Spread(s, h) = MapSeq(s, g)
  BY <1>0, <1>1, SpreadSingle
<1>6. MapSeq(s, g) = IdAtoms(role, type, Ids(s))
  <2>1. DOMAIN s = 1..Len(s) /\ DOMAIN Ids(s) = DOMAIN s
    BY LenProperties DEF Ids
  <2>2. \A i \in DOMAIN s : g[s[i]] = <<role, type, Ids(s)[i]>>
    BY <1>2, <1>3, <2>1 DEF Ids
  <2> QED BY <2>1, <2>2 DEF MapSeq, IdAtoms
<1> HIDE DEF h, g
<1>7. Spread(s, AtomsOf(role)) = Spread(s, h)
  BY <1>0, <1>4, SpreadSame
<1> QED BY <1>5, <1>6, <1>7

\* What results and calls say is their ids.
LEMMA PickedSaid ==
  ASSUME NEW role \in Roles, NEW s \in Seq(Blocks)
  PROVE  /\ ResultAtoms(role, s) = IdAtoms(role, "tool_result", Results(s))
         /\ CallAtoms(role, s) = IdAtoms(role, "tool_use", Calls(s))
<1>1. /\ OfType(s, {"tool_result"}) \in Seq(BlocksOfTypes({"tool_result"}))
      /\ OfType(s, {"tool_use"}) \in Seq(BlocksOfTypes({"tool_use"}))
  BY SortsOfTypes, OfTypeType
<1> QED BY <1>1, NamedSaid DEF ResultAtoms, CallAtoms, Results, Calls

LEMMA IdAtomsType ==
  ASSUME NEW role \in Roles, NEW type \in BlockTypes, NEW ids \in Seq(IdsOf)
  PROVE  IdAtoms(role, type, ids) \in Seq(AtomSet) /\ Len(IdAtoms(role, type, ids)) = Len(ids)
<1>1. Len(ids) \in Nat /\ DOMAIN ids = 1..Len(ids) /\ \A i \in 1..Len(ids) : ids[i] \in IdsOf
  BY LenProperties, ElementOfSeq
<1>2. IdAtoms(role, type, ids) \in [1..Len(ids) -> AtomSet]
  BY <1>1 DEF IdAtoms, AtomSet
<1>3. [1..Len(ids) -> AtomSet] \subseteq Seq(AtomSet)
  BY <1>1
<1> QED BY <1>1, <1>2, <1>3, LenProperties

\* What an assistant says: its text, then its calls.
LEMMA AssistantSaid ==
  ASSUME NEW role \in Roles, NEW s \in Seq(AssistantBlocks)
  PROVE  SaidIn(role, s) = TextAtoms(role, TextOf(s)) \o IdAtoms(role, "tool_use", Calls(s))
<1>0. s \in Seq(Blocks)
  BY KindsOf
<1>1. ResultAtoms(role, s) = <<>>
  BY NothingPicked, SpreadEmpty DEF ResultAtoms
<1>2. OfType(s, {"text", "image"}) = OfType(s, {"text"})
  <2>1. \A i \in 1..Len(s) : Sieve({"text", "image"})[s[i]] = Sieve({"text"})[s[i]]
    <3> TAKE i \in 1..Len(s)
    <3>1. s[i] \in AssistantBlocks /\ s[i] \in Blocks
      BY <1>0, ElementOfSeq
    <3>2. s[i].type # "image"
      BY <3>1 DEF AssistantBlocks, BlocksOfTypes
    <3> QED BY <3>1, <3>2 DEF Sieve
  <2>2. Spread(s, Sieve({"text", "image"})) = Spread(s, Sieve({"text"}))
    BY <1>0, <2>1, SpreadSame
  <2> QED BY <1>0, <2>2, OfTypeIs
<1>3. PartAtoms(role, s) = TextAtoms(role, TextOf(s))
  <2>1. OfType(s, {"text"}) \in Seq(TextBlocks)
    BY <1>0, SortsOfTypes, OfTypeType DEF TextBlocks
  <2> QED BY <1>2, <2>1, TextsSaid DEF PartAtoms, TextOf
<1>4. CallAtoms(role, s) = IdAtoms(role, "tool_use", Calls(s))
  BY <1>0, PickedSaid
<1>5. TextAtoms(role, TextOf(s)) \in Seq(AtomSet)
  BY <1>0, TextOfType, TextAtomsIs
<1> DEFINE x == TextAtoms(role, TextOf(s))
<1>6. <<>> \o x = x
  BY <1>5, ConcatEmptySeq
<1>7. SaidIn(role, s) = (<<>> \o x) \o IdAtoms(role, "tool_use", Calls(s))
  BY <1>0, <1>1, <1>3, <1>4, SaidIs
<1> QED BY <1>6, <1>7

\* The content an answer is translated to.
LEMMA AnswerSaid ==
  ASSUME NEW role \in Roles, NEW text \in Seq(Nat), NEW ids \in Seq(IdsOf)
  PROVE  /\ SaidIn(role, Optional(text) \o ToolUses(ids)) = TextAtoms(role, text) \o IdAtoms(role, "tool_use", ids)
         /\ Optional(text) \o ToolUses(ids) \in Seq(AssistantBlocks)
         /\ Calls(Optional(text) \o ToolUses(ids)) = ids
<1> DEFINE a == Optional(text)
           b == ToolUses(ids)
<1>1. a \in Seq(TextBlocks) /\ a \in Seq(Blocks) /\ a \in Seq(AssistantBlocks) /\ a \in Seq(PartBlocks)
  BY TextBlock, KindsOf
<1>2. b \in Seq(BlocksOfTypes({"tool_use"})) /\ b \in Seq(AssistantBlocks) /\ b \in Seq(Blocks) /\ Ids(b) = ids /\ Calls(b) = ids
  BY ToolsType, ToolsPicked
<1>3. OfType(a, {"tool_use"}) = <<>> /\ Calls(a) = <<>>
  BY <1>1, NothingPicked
<1>4. OfType(b, {"tool_result"}) = <<>>
  BY <1>2, NothingPicked
<1>5. SaidIn(role, a) = TextAtoms(role, text)
  BY OptionalSaid
<1>6. SaidIn(role, b) = IdAtoms(role, "tool_use", ids)
  <2>1. SaidIn(role, b) = Spread(b, AtomsOf(role))
    BY <1>2, SaidOfKind
  <2> QED BY <1>2, <2>1, NamedSaid
<1> HIDE DEF a, b
<1>7. SaidIn(role, a \o b) = SaidIn(role, a) \o SaidIn(role, b)
  BY <1>1, <1>2, <1>3, <1>4, SaidConcat
<1>8. a \o b \in Seq(AssistantBlocks)
  BY <1>1, <1>2, ConcatProperties
<1>9. Calls(a \o b) = <<>> \o ids
  BY <1>1, <1>2, <1>3, PickedConcat
<1>10. <<>> \o ids = ids
  BY ConcatEmptySeq
<1> QED BY <1>5, <1>6, <1>7, <1>8, <1>9, <1>10 DEF a, b

\* What a user says: results, then the rest.
LEMMA UserSaid ==
  ASSUME NEW role \in Roles, NEW s \in Seq(UserBlocks)
  PROVE  SaidIn(role, s) = IdAtoms(role, "tool_result", Results(s)) \o PartAtoms(role, s)
<1>0. s \in Seq(Blocks)
  BY KindsOf
<1>1. CallAtoms(role, s) = <<>>
  BY NothingPicked, SpreadEmpty DEF CallAtoms
<1> DEFINE x == ResultAtoms(role, s)
           y == PartAtoms(role, s)
<1>2. SaidIn(role, s) = (x \o y) \o <<>>
  BY <1>0, <1>1, SaidIs
<1>3. x \in Seq(AtomSet) /\ y \in Seq(AtomSet)
  BY <1>0, AtomsTypes
<1>4. x = IdAtoms(role, "tool_result", Results(s))
  BY <1>0, PickedSaid
<1> HIDE DEF x, y
<1>5. (x \o y) \o <<>> = x \o y
  BY <1>3, ConcatProperties, ConcatEmptySeq
<1> QED BY <1>2, <1>4, <1>5 DEF y

\* Texts and images say what they are.
LEMMA PartsSaid ==
  ASSUME NEW role \in Roles, NEW s \in Seq(PartBlocks)
  PROVE  SaidIn(role, s) = Spread(s, AtomsOf(role)) /\ PartAtoms(role, s) = Spread(s, AtomsOf(role))
<1>1. SaidIn(role, s) = Spread(s, AtomsOf(role))
  <2>1. {"text", "image"} \in SUBSET {"text", "image"}
    OBVIOUS
  <2> QED BY <2>1, SaidOfKind DEF PartBlocks
<1>2. OfType(s, {"text", "image"}) = s
  <2>1. {"text", "image"} \in SUBSET {"text", "image"}
    OBVIOUS
  <2> QED BY <2>1, OfTypeAll, SortsOfTypes DEF PartBlocks
<1> QED BY <1>1, <1>2 DEF PartAtoms

\* Leaving out empty texts leaves out nothing that is said.
Sifted == [b \in Blocks |-> IF b.type = "image" \/ b.text # <<>> THEN <<b>> ELSE <<>>]

\* A chat user's parts lose only what is empty (_chat_user_content_to_blocks).
LEMMA FilledSaid ==
  ASSUME NEW role \in Roles, NEW s \in Seq(PartBlocks)
  PROVE  /\ Filled(s) \in Seq(PartBlocks)
         /\ SaidIn(role, Filled(s)) = SaidIn(role, s)
<1>0. s \in Seq(Blocks)
  BY KindsOf
<1>1. Filled(s) = Spread(s, Sifted)
  <2>1. \A i \in DOMAIN s : s[i] \in Blocks
    BY <1>0, LenProperties, ElementOfSeq
  <2>2. [i \in DOMAIN s |-> IF s[i].type = "image" \/ s[i].text # <<>> THEN <<s[i]>> ELSE <<>>] = MapSeq(s, Sifted)
    BY <2>1 DEF MapSeq, Sifted
  <2> QED BY <2>2 DEF Filled, Spread
<1>2. Filled(s) \in Seq(PartBlocks)
  <2> DEFINE f == [b \in PartBlocks |-> Sifted[b]]
  <2>0. PartBlocks \subseteq Blocks
    BY DEF PartBlocks, Blocks, BlocksOfTypes, BlockTypes
  <2>1. f \in [PartBlocks -> Seq(PartBlocks)]
    <3>1. \A b \in PartBlocks : Sifted[b] \in Seq(PartBlocks)
      <4> TAKE b \in PartBlocks
      <4>1. Sifted[b] = <<b>> \/ Sifted[b] = <<>>
        BY <2>0 DEF Sifted
      <4>2. <<b>> \in Seq(PartBlocks) /\ <<>> \in Seq(PartBlocks)
        BY EmptySeq
      <4> QED BY <4>1, <4>2
    <3> QED BY <3>1
  <2>2. \A i \in 1..Len(s) : f[s[i]] = Sifted[s[i]]
    BY ElementOfSeq
  <2> HIDE DEF f
  <2>3. Spread(s, f) \in Seq(PartBlocks)
    BY <2>1, SpreadType
  <2>4. Spread(s, f) = Spread(s, Sifted)
    BY <2>2, SpreadSame
  <2> QED BY <1>1, <2>3, <2>4
<1>3. Spread(Spread(s, Sifted), AtomsOf(role)) = Spread(s, AtomsOf(role))
  <2>1. Spreads(Sifted, Blocks, Blocks)
    <3>1. \A b \in Blocks : <<b>> \in Seq(Blocks) /\ <<>> \in Seq(Blocks)
      BY EmptySeq
    <3> QED BY <3>1 DEF Spreads, Sifted
  <2>2. AtomsOf(role) \in [Blocks -> Seq(AtomSet)]
    BY AtomsOfType
  <2>3. Spreads(AtomsOf(role), Blocks, AtomSet)
    BY <2>2 DEF Spreads
  <2>4. Twice(s, Sifted, AtomsOf(role), AtomsOf(role))
    <3> SUFFICES ASSUME NEW i \in 1..Len(s) PROVE AtomsOf(role)[s[i]] = Spread(Sifted[s[i]], AtomsOf(role))
      BY DEF Twice
    <3>1. s[i] \in PartBlocks /\ s[i] \in Blocks
      BY <1>0, ElementOfSeq
    <3>2. CASE s[i].type = "image" \/ s[i].text # <<>>
      <4>1. Sifted[s[i]] = <<s[i]>>
        BY <3>1, <3>2 DEF Sifted
      <4>2. Spread(<<s[i]>>, AtomsOf(role)) = AtomsOf(role)[s[i]]
        BY <2>2, <3>1, SpreadOne
      <4> QED BY <4>1, <4>2
    <3>3. CASE ~(s[i].type = "image" \/ s[i].text # <<>>)
      <4>1. Sifted[s[i]] = <<>> /\ s[i].text = <<>> /\ s[i].type = "text"
        BY <3>1, <3>3 DEF Sifted, PartBlocks, BlocksOfTypes
      <4>2. AtomsOf(role)[s[i]] = TextAtoms(role, <<>>)
        BY <3>1, <4>1 DEF AtomsOf, Atoms, TextAtoms
      <4> QED BY <4>1, <4>2, TextAtomsEmpty, SpreadEmpty
    <3> QED BY <3>2, <3>3
  <2> QED BY <1>0, <2>1, <2>3, <2>4, SpreadTwice
<1>4. SaidIn(role, Filled(s)) = Spread(Filled(s), AtomsOf(role)) /\ SaidIn(role, s) = Spread(s, AtomsOf(role))
  BY <1>2, PartsSaid
<1> QED BY <1>1, <1>2, <1>3, <1>4

-----------------------------------------------------------------------------
(* Turns of an Anthropic conversation.                                     *)

UserTurns == [role : {"user"}, content : Seq(UserBlocks), plain : {FALSE}]
AssistantTurns == [role : {"assistant"}, content : Seq(AssistantBlocks), plain : {FALSE}]
PlainTurns == [role : {"user"}, content : Seq(TextBlocks), plain : {TRUE}]
Turned == UserTurns \cup AssistantTurns
Talked == Turned \cup PlainTurns
BlocksFor(role) == IF role = "user" THEN UserBlocks ELSE AssistantBlocks

Answer(calls, results) == Len(calls) = Len(results) /\ ToSet(calls) = ToSet(results)
Due(T) == IF T = <<>> THEN <<>> ELSE Calls(Last(T).content)
ResultsFirst(content) == \A k \in 1..Len(Results(content)) : k \in DOMAIN content /\ content[k].type = "tool_result"

\* A turn that may follow.
Answered(T, i) ==
  IF i = 1 THEN Results(T[i].content) = <<>> ELSE Answer(Calls(T[i - 1].content), Results(T[i].content))
Placed(T, i) ==
  /\ T[i].content # <<>> /\ ResultsFirst(T[i].content)
  /\ i > 1 => T[i].role # T[i - 1].role
Paired(T) == \A i \in 1..Len(T) : Answered(T, i)
WellTurned(T) == Paired(T) /\ \A i \in 1..Len(T) : Placed(T, i)

\* A turn's blocks are of the types its role may have.
LEMMA TurnFacts ==
  ASSUME NEW m \in Talked
  PROVE  /\ m.role \in {"user", "assistant"} /\ m.role \in Roles /\ m.content \in Seq(Blocks)
         /\ m.content \in Seq(BlocksFor(m.role))
         /\ m.role = "user" => Calls(m.content) = <<>> /\ m.content \in Seq(UserBlocks)
         /\ m.role = "assistant" => Results(m.content) = <<>> /\ m.content \in Seq(AssistantBlocks)
         /\ Calls(m.content) \in Seq(IdsOf) /\ Results(m.content) \in Seq(IdsOf)
<1>1. CASE m \in AssistantTurns
  <2>1. m.role = "assistant" /\ m.content \in Seq(AssistantBlocks)
    BY <1>1 DEF AssistantTurns
  <2>2. m.content \in Seq(Blocks) /\ Results(m.content) = <<>>
    BY <2>1, KindsOf, NothingPicked
  <2> QED BY <2>1, <2>2, PickedType DEF Roles, BlocksFor
<1>2. CASE m \in UserTurns \cup PlainTurns
  <2>0. m.role = "user" /\ (m.content \in Seq(UserBlocks) \/ m.content \in Seq(TextBlocks))
    BY <1>2 DEF UserTurns, PlainTurns
  <2>1. m.role = "user" /\ m.content \in Seq(UserBlocks)
    BY <2>0, KindsOf
  <2>2. m.content \in Seq(Blocks) /\ Calls(m.content) = <<>>
    BY <2>1, KindsOf, NothingPicked
  <2> QED BY <2>1, <2>2, PickedType DEF Roles, BlocksFor
<1> QED BY <1>1, <1>2 DEF Talked, Turned

\* A sequence that is not empty has a last element.
LEMMA SeqSplit ==
  ASSUME NEW S, NEW s \in Seq(S), s # <<>>
  PROVE  \E r \in Seq(S), x \in S : s = Append(r, x)
<1> DEFINE P == {t \in Seq(S) : t = <<>> \/ \E r \in Seq(S), x \in S : t = Append(r, x)}
<1>1. <<>> \in P
  BY EmptySeq
<1>2. ASSUME NEW r \in Seq(S), NEW x \in S, r \in P PROVE Append(r, x) \in P
  BY AppendProperties
<1> HIDE DEF P
<1>3. Seq(S) \subseteq P
  BY <1>1, <1>2, SeqInduct
<1> QED BY <1>3 DEF P

LEMMA AppendLast ==
  ASSUME NEW S, NEW s \in Seq(S), NEW x \in S
  PROVE  /\ Append(s, x) \in Seq(S) /\ Append(s, x) # <<>> /\ Len(Append(s, x)) = Len(s) + 1 /\ Len(s) \in Nat
         /\ Last(Append(s, x)) = x /\ Append(s, x)[Len(s) + 1] = x
         /\ \A i \in 1..Len(s) : Append(s, x)[i] = s[i]
<1>1. Append(s, x) \in Seq(S) /\ Len(Append(s, x)) = Len(s) + 1 /\ Len(s) \in Nat
  BY AppendProperties, LenProperties
<1>2. Append(s, x)[Len(s) + 1] = x /\ \A i \in 1..Len(s) : Append(s, x)[i] = s[i]
  BY AppendProperties
<1>3. Append(s, x) # <<>>
  BY <1>1, EmptySeq
<1> QED BY <1>1, <1>2, <1>3 DEF Last

LEMMA LastIs ==
  ASSUME NEW S, NEW s \in Seq(S), s # <<>>
  PROVE  Last(s) = s[Len(s)] /\ Last(s) \in S /\ Len(s) \in Nat \ {0}
<1>1. Len(s) \in Nat /\ Len(s) # 0
  BY LenProperties, EmptySeq
<1>2. Len(s) \in 1..Len(s)
  BY <1>1
<1>3. s[Len(s)] \in S
  BY <1>2, ElementOfSeq
<1> QED BY <1>1, <1>3 DEF Last

\* Nothing is to be answered by nothing.
LEMMA AnswerEmpty == ASSUME NEW S, NEW r \in Seq(S) PROVE Answer(<<>>, r) <=> r = <<>>
<1>1. Len(<<>>) = 0 /\ (Len(r) = 0 <=> r = <<>>)
  BY EmptySeq, LenProperties
<1> QED BY <1>1 DEF Answer

\* A further turn is in its place if its results answer the calls that are due.
LEMMA PairedAppend ==
  ASSUME NEW T \in Seq(Talked), NEW x \in Talked
  PROVE  Paired(Append(T, x)) <=> Paired(T) /\ Answer(Due(T), Results(x.content))
<1> DEFINE U == Append(T, x)
           n == Len(T)
<1>1. Len(U) = n + 1 /\ U[n + 1] = x /\ n \in Nat /\ \A i \in 1..n : U[i] = T[i]
  BY AppendLast
<1> HIDE DEF U
<1>2. \A i \in 1..n : Answered(U, i) <=> Answered(T, i)
  <2> TAKE i \in 1..n
  <2>1. U[i] = T[i] /\ (i # 1 => U[i - 1] = T[i - 1])
    BY <1>1
  <2> QED BY <2>1 DEF Answered
<1>3. Answered(U, n + 1) <=> Answer(Due(T), Results(x.content))
  <2>1. CASE T = <<>>
    <3>1. n = 0 /\ Due(T) = <<>>
      BY <2>1, EmptySeq DEF Due
    <3>2. Results(x.content) \in Seq(IdsOf)
      BY TurnFacts
    <3>3. Answer(<<>>, Results(x.content)) <=> Results(x.content) = <<>>
      BY <3>2, AnswerEmpty
    <3>4. Answered(U, 1) <=> Results(U[1].content) = <<>>
      BY DEF Answered
    <3> QED BY <1>1, <3>1, <3>3, <3>4
  <2>2. CASE T # <<>>
    <3>1. n # 0 /\ Last(T) = T[n]
      BY <2>2, LastIs
    <3>2. U[n] = T[n] /\ n + 1 # 1 /\ (n + 1) - 1 = n
      BY <1>1, <3>1
    <3>3. Due(T) = Calls(T[n].content)
      BY <2>2, <3>1 DEF Due
    <3> QED BY <1>1, <3>2, <3>3 DEF Answered
  <2> QED BY <2>1, <2>2
<1>4. 1..(n + 1) = 1..n \cup {n + 1}
  BY <1>1
<1>5. Paired(U) <=> (\A i \in 1..n : Answered(U, i)) /\ Answered(U, n + 1)
  BY <1>1, <1>4 DEF Paired
<1> QED BY <1>2, <1>3, <1>5 DEF Paired, U

FollowsOn(T, x) ==
  /\ x.content # <<>> /\ ResultsFirst(x.content) /\ Answer(Due(T), Results(x.content))
  /\ T # <<>> => x.role # Last(T).role

\* A further turn is well made if it follows on.
LEMMA WellTurnedAppend ==
  ASSUME NEW T \in Seq(Talked), NEW x \in Talked
  PROVE  WellTurned(Append(T, x)) <=> WellTurned(T) /\ FollowsOn(T, x)
<1> DEFINE U == Append(T, x)
           n == Len(T)
<1>1. Len(U) = n + 1 /\ U[n + 1] = x /\ n \in Nat /\ \A i \in 1..n : U[i] = T[i]
  BY AppendLast
<1>p. Paired(U) <=> Paired(T) /\ Answer(Due(T), Results(x.content))
  BY PairedAppend
<1> HIDE DEF U
<1>2. \A i \in 1..n : Placed(U, i) <=> Placed(T, i)
  <2> TAKE i \in 1..n
  <2>1. U[i] = T[i] /\ (i > 1 => U[i - 1] = T[i - 1])
    BY <1>1
  <2> QED BY <2>1 DEF Placed
<1>3. Placed(U, n + 1) <=> (x.content # <<>> /\ ResultsFirst(x.content) /\ (T # <<>> => x.role # Last(T).role))
  <2>1. T # <<>> <=> n + 1 > 1
    BY <1>1, LastIs, EmptySeq
  <2>2. T # <<>> => U[(n + 1) - 1] = Last(T)
    BY <1>1, LastIs
  <2> QED BY <1>1, <2>1, <2>2 DEF Placed
<1>4. 1..(n + 1) = 1..n \cup {n + 1}
  BY <1>1
<1>5. (\A i \in 1..(n + 1) : Placed(U, i)) <=> (\A i \in 1..n : Placed(U, i)) /\ Placed(U, n + 1)
  BY <1>4
<1>6. WellTurned(U) <=> Paired(U) /\ \A i \in 1..(n + 1) : Placed(U, i)
  BY <1>1 DEF WellTurned
<1>7. WellTurned(T) <=> Paired(T) /\ \A i \in 1..n : Placed(T, i)
  BY DEF WellTurned
<1> QED BY <1>p, <1>2, <1>3, <1>5, <1>6, <1>7 DEF U, FollowsOn

\* After a turn its calls are due.
LEMMA DueAppend ==
  ASSUME NEW T \in Seq(Talked), NEW x \in Talked PROVE Due(Append(T, x)) = Calls(x.content)
BY AppendLast DEF Due

LEMMA DueType == ASSUME NEW T \in Seq(Talked) PROVE Due(T) \in Seq(IdsOf)
<1>1. CASE T = <<>>
  BY <1>1, EmptySeq DEF Due
<1>2. CASE T # <<>>
  BY <1>2, LastIs, TurnFacts DEF Due
<1> QED BY <1>1, <1>2

\* What turns say.
SpokenTurns(T) == FlattenSeq([i \in DOMAIN T |-> SaidIn(T[i].role, T[i].content)])
SaidOf == [m \in Talked |-> SaidIn(m.role, m.content)]

LEMMA SpokenTurnsIs ==
  ASSUME NEW T \in Seq(Talked)
  PROVE  SpokenTurns(T) = Spread(T, SaidOf) /\ SaidOf \in [Talked -> Seq(AtomSet)] /\ SpokenTurns(T) \in Seq(AtomSet)
<1>1. \A m \in Talked : SaidIn(m.role, m.content) \in Seq(AtomSet)
  BY TurnFacts, SaidType
<1>2. SaidOf \in [Talked -> Seq(AtomSet)]
  BY <1>1 DEF SaidOf
<1>3. \A i \in DOMAIN T : T[i] \in Talked
  BY LenProperties, ElementOfSeq
<1>4. [i \in DOMAIN T |-> SaidIn(T[i].role, T[i].content)] = MapSeq(T, SaidOf)
  BY <1>3 DEF MapSeq, SaidOf
<1>5. Spread(T, SaidOf) \in Seq(AtomSet)
  BY <1>2, SpreadType
<1> QED BY <1>2, <1>4, <1>5 DEF SpokenTurns, Spread

\* A further turn says what it says after the others.
LEMMA SpokenTurnsAppend ==
  ASSUME NEW T \in Seq(Talked), NEW x \in Talked
  PROVE  SpokenTurns(Append(T, x)) = SpokenTurns(T) \o SaidIn(x.role, x.content)
<1>1. Append(T, x) \in Seq(Talked)
  BY AppendProperties
<1>2. SpokenTurns(Append(T, x)) = Spread(Append(T, x), SaidOf) /\ SpokenTurns(T) = Spread(T, SaidOf)
  BY <1>1, SpokenTurnsIs
<1>3. SaidOf \in [Talked -> Seq(AtomSet)]
  BY SpokenTurnsIs
<1>4. Spread(Append(T, x), SaidOf) = Spread(T, SaidOf) \o SaidOf[x]
  BY <1>3, SpreadAppend
<1>5. SaidOf[x] = SaidIn(x.role, x.content)
  BY DEF SaidOf
<1> QED BY <1>2, <1>4, <1>5

LEMMA EmptyTurns ==
  WellTurned(<<>>) /\ Due(<<>>) = <<>> /\ SpokenTurns(<<>>) = <<>> /\ <<>> \in Seq(Turned) /\ <<>> \in Seq(Talked)
<1>1. <<>> \in Seq(Turned) /\ <<>> \in Seq(Talked)
  BY EmptySeq
<1>2. Paired(<<>>) /\ \A i \in 1..Len(<<>>) : Placed(<<>>, i)
  BY EmptySeq DEF Paired
<1>3. SpokenTurns(<<>>) = <<>>
  BY <1>1, SpokenTurnsIs, SpreadEmpty
<1> QED BY <1>1, <1>2, <1>3 DEF WellTurned, Due

LEMMA TurnedTalked == Turned \subseteq Talked /\ Seq(Turned) \subseteq Seq(Talked)
<1>1. Turned \subseteq Talked
  BY DEF Talked
<1> QED BY <1>1, SeqMonotonic

\* What a new turn of either role is.
LEMMA NewTurn ==
  ASSUME NEW role \in {"user", "assistant"}, NEW b \in Seq(BlocksFor(role))
  PROVE  /\ Message(role, b) \in Turned /\ Message(role, b).role = role /\ Message(role, b).content = b
         /\ role \in Roles /\ b \in Seq(Blocks) /\ Calls(b) \in Seq(IdsOf) /\ Results(b) \in Seq(IdsOf)
<1>1. Message(role, b) = [role |-> role, content |-> b, plain |-> FALSE]
  BY DEF Message
<1>2. CASE role = "user"
  BY <1>1, <1>2, KindsOf, PickedType DEF BlocksFor, Turned, UserTurns, Roles
<1>3. CASE role = "assistant"
  BY <1>1, <1>3, KindsOf, PickedType DEF BlocksFor, Turned, AssistantTurns, Roles
<1> QED BY <1>2, <1>3

\* A turn that goes on.
LEMMA MergedIs ==
  ASSUME NEW F \in Seq(Turned), NEW x \in Turned, NEW b, b # <<>>
  PROVE  AppendBlocks(Append(F, x), x.role, b) = Append(F, Message(x.role, x.content \o b))
<1> DEFINE T == Append(F, x)
           n == Len(F)
           y == Message(x.role, x.content \o b)
           U == [T EXCEPT ![Len(T)].content = @ \o b]
           V == Append(F, y)
           S == Turned \cup {y}
<1>1. T \in Seq(Turned) /\ T # <<>> /\ Len(T) = n + 1 /\ n \in Nat /\ Last(T) = x /\ T[n + 1] = x /\ \A i \in 1..n : T[i] = F[i]
  BY AppendLast
<1>2. DOMAIN T = 1..(n + 1)
  BY <1>1, LenProperties
<1>3. AppendBlocks(T, x.role, b) = U
  BY <1>1 DEF AppendBlocks
<1>4. F \in Seq(S) /\ y \in S
  <2>1. Turned \subseteq S /\ y \in S
    OBVIOUS
  <2> QED BY <2>1, SeqMonotonic
<1> HIDE DEF S
<1>5. V \in Seq(S) /\ Len(V) = n + 1 /\ V[n + 1] = y /\ \A i \in 1..n : V[i] = F[i]
  BY <1>4, AppendLast
<1>6. DOMAIN V = 1..(n + 1)
  BY <1>5, LenProperties
<1>7. V = [i \in 1..(n + 1) |-> V[i]]
  BY <1>5, <1>6
<1>8. U = [i \in 1..(n + 1) |-> IF i = n + 1 THEN [x EXCEPT !.content = @ \o b] ELSE T[i]]
  BY <1>1, <1>2
<1>9. [x EXCEPT !.content = @ \o b] = y
  <2> DEFINE c == x.content \o b
             K == [role : {x.role}, content : {c}, plain : {FALSE}]
  <2> HIDE DEF c
  <2>1. [x EXCEPT !.content = c] \in K
    BY DEF Turned, UserTurns, AssistantTurns
  <2>2. Message(x.role, c) = [role |-> x.role, content |-> c, plain |-> FALSE]
    BY DEF Message
  <2>3. \A k \in K : k = [role |-> x.role, content |-> c, plain |-> FALSE]
    <3> TAKE k \in K
    <3>1. k = [role |-> k.role, content |-> k.content, plain |-> k.plain]
      OBVIOUS
    <3>2. k.role = x.role /\ k.content = c /\ k.plain = FALSE
      OBVIOUS
    <3> QED BY <3>1, <3>2
  <2> HIDE DEF K
  <2>4. [x EXCEPT !.content = c] = Message(x.role, c)
    BY <2>1, <2>2, <2>3
  <2> QED BY <2>4 DEF c
<1> HIDE DEF U, V, T, y
<1>10. \A i \in 1..(n + 1) : V[i] = IF i = n + 1 THEN [x EXCEPT !.content = @ \o b] ELSE T[i]
  BY <1>1, <1>5, <1>9
<1>11. U = V
  BY <1>7, <1>8, <1>10
<1> QED BY <1>3, <1>11 DEF T, V, y

WellGone(T, U, due, atoms) ==
  /\ U \in Seq(Turned) /\ WellTurned(U) /\ Due(U) = due /\ SpokenTurns(U) = SpokenTurns(T) \o atoms

\* Blocks added to the last turn of their role (_append_blocks).
LEMMA BlocksAppended ==
  ASSUME NEW T \in Seq(Turned), WellTurned(T), Due(T) = <<>>,
         NEW role \in {"user", "assistant"}, NEW b \in Seq(BlocksFor(role)), Results(b) = <<>>
  PROVE  WellGone(T, AppendBlocks(T, role, b), Calls(b), SaidIn(role, b))
<1>t. \A s \in Seq(Turned) : s \in Seq(Talked)
  BY TurnedTalked
<1>u. \A m \in Turned : m \in Talked
  BY TurnedTalked
<1>b. role \in Roles /\ b \in Seq(Blocks) /\ OfType(b, {"tool_result"}) = <<>>
  <2>1. role \in Roles /\ b \in Seq(Blocks)
    BY NewTurn
  <2>2. Len(OfType(b, {"tool_result"})) = Len(Results(b)) /\ OfType(b, {"tool_result"}) \in Seq(Blocks)
    BY <2>1, PickedType, OfTypeType, SortsOfTypes
  <2>3. Len(Results(b)) = 0
    BY EmptySeq
  <2> QED BY <2>1, <2>2, <2>3, EmptySeq
<1>s. SpokenTurns(T) \in Seq(AtomSet) /\ SaidIn(role, b) \in Seq(AtomSet)
  BY <1>t, <1>b, SpokenTurnsIs, SaidType
<1>1. CASE b = <<>>
  <2>1. AppendBlocks(T, role, b) = T
    BY <1>1 DEF AppendBlocks
  <2>2. Calls(b) = <<>> /\ SaidIn(role, b) = <<>>
    BY <1>1, <1>b, PickedEmpty, SaidEmpty
  <2>3. SpokenTurns(T) \o <<>> = SpokenTurns(T)
    BY <1>s, ConcatEmptySeq
  <2> QED BY <2>1, <2>2, <2>3 DEF WellGone
<1>2. CASE b # <<>> /\ T # <<>> /\ Last(T).role = role
  <2>1. PICK F \in Seq(Turned), x \in Turned : T = Append(F, x)
    BY <1>2, SeqSplit
  <2>2. Last(T) = x /\ x.role = role
    BY <1>2, <2>1, AppendLast
  <2> DEFINE a == x.content
             y == Message(role, a \o b)
  <2>3. AppendBlocks(T, role, b) = Append(F, y)
    BY <1>2, <2>1, <2>2, MergedIs
  <2>4. WellTurned(F) /\ FollowsOn(F, x) /\ Calls(a) = <<>> /\ SpokenTurns(T) = SpokenTurns(F) \o SaidIn(role, a)
    BY <1>t, <1>u, <2>1, <2>2, WellTurnedAppend, DueAppend, SpokenTurnsAppend
  <2>5. a \in Seq(BlocksFor(role)) /\ a \in Seq(Blocks)
    BY <1>u, <2>2, TurnFacts
  <2>6. a \o b \in Seq(BlocksFor(role)) /\ a \o b \in Seq(Blocks)
    BY <1>b, <2>5, ConcatProperties
  <2>7. y \in Turned /\ y.role = role /\ y.content = a \o b
    BY <2>6, NewTurn
  <2>8. OfType(a, {"tool_use"}) = <<>>
    <3>1. Len(OfType(a, {"tool_use"})) = Len(Calls(a)) /\ OfType(a, {"tool_use"}) \in Seq(Blocks)
      BY <2>5, PickedType, OfTypeType, SortsOfTypes
    <3>2. Len(Calls(a)) = 0
      BY <2>4, EmptySeq
    <3> QED BY <3>1, <3>2, EmptySeq
  <2>9. Results(a \o b) = Results(a) /\ Calls(a \o b) = Calls(b)
    <3>1. Results(a \o b) = Results(a) \o <<>> /\ Calls(a \o b) = <<>> \o Calls(b)
      BY <1>b, <2>4, <2>5, PickedConcat
    <3>2. Results(a) \in Seq(IdsOf) /\ Calls(b) \in Seq(IdsOf)
      BY <1>b, <2>5, PickedType
    <3> QED BY <3>1, <3>2, ConcatEmptySeq
  <2>10. SaidIn(role, a \o b) = SaidIn(role, a) \o SaidIn(role, b)
    BY <1>b, <2>5, <2>8, SaidConcat
  <2>11. a # <<>> /\ ResultsFirst(a) /\ Answer(Due(F), Results(a)) /\ (F # <<>> => role # Last(F).role)
    BY <2>2, <2>4 DEF FollowsOn
  <2> HIDE DEF a
  <2>12. a \o b # <<>> /\ ResultsFirst(a \o b)
    <3>1. Len(a \o b) = Len(a) + Len(b) /\ Len(a) \in Nat /\ Len(b) \in Nat /\ DOMAIN a = 1..Len(a)
          /\ DOMAIN (a \o b) = 1..(Len(a) + Len(b)) /\ \A k \in 1..Len(a) : (a \o b)[k] = a[k]
      BY <1>b, <2>5, <2>6, ConcatProperties, LenProperties
    <3>2. Len(a) # 0
      BY <2>5, <2>11, EmptySeq
    <3>3. a \o b # <<>>
      BY <3>1, <3>2, EmptySeq
    <3>4. ASSUME NEW k \in 1..Len(Results(a)) PROVE k \in DOMAIN (a \o b) /\ (a \o b)[k].type = "tool_result"
      BY <2>11, <3>1 DEF ResultsFirst
    <3> QED BY <2>9, <3>3, <3>4 DEF ResultsFirst
  <2>13. FollowsOn(F, y)
    BY <2>7, <2>9, <2>11, <2>12 DEF FollowsOn
  <2> HIDE DEF y
  <2>14. Append(F, y) \in Seq(Turned) /\ WellTurned(Append(F, y)) /\ Due(Append(F, y)) = Calls(b)
    BY <1>t, <1>u, <2>4, <2>7, <2>9, <2>13, AppendProperties, WellTurnedAppend, DueAppend
  <2>15. SpokenTurns(Append(F, y)) = SpokenTurns(F) \o (SaidIn(role, a) \o SaidIn(role, b))
    BY <1>t, <1>u, <2>7, <2>10, SpokenTurnsAppend
  <2>16. SpokenTurns(F) \o (SaidIn(role, a) \o SaidIn(role, b)) = (SpokenTurns(F) \o SaidIn(role, a)) \o SaidIn(role, b)
    <3> DEFINE p == SpokenTurns(F)
               q == SaidIn(role, a)
               r == SaidIn(role, b)
    <3>1. p \in Seq(AtomSet) /\ q \in Seq(AtomSet) /\ r \in Seq(AtomSet)
      BY <1>t, <1>b, <1>s, <2>5, SpokenTurnsIs, SaidType
    <3> HIDE DEF p, q, r
    <3>2. Associate(p, q, r)
      BY <3>1, Associates
    <3> QED BY <3>2 DEF p, q, r, Associate
  <2>17. SpokenTurns(Append(F, y)) = SpokenTurns(T) \o SaidIn(role, b)
    BY <2>4, <2>15, <2>16
  <2> QED BY <2>3, <2>14, <2>17 DEF WellGone, y
<1>3. CASE b # <<>> /\ ~(T # <<>> /\ Last(T).role = role)
  <2> DEFINE y == Message(role, b)
  <2>1. AppendBlocks(T, role, b) = Append(T, y)
    BY <1>3 DEF AppendBlocks
  <2>2. y \in Turned /\ y.role = role /\ y.content = b
    BY NewTurn
  <2>3. Answer(<<>>, <<>>)
    BY AnswerEmpty, EmptySeq
  <2>4. ResultsFirst(b)
    BY EmptySeq DEF ResultsFirst
  <2>5. FollowsOn(T, y)
    BY <1>3, <2>2, <2>3, <2>4 DEF FollowsOn
  <2> HIDE DEF y
  <2>6. Append(T, y) \in Seq(Turned) /\ WellTurned(Append(T, y)) /\ Due(Append(T, y)) = Calls(b)
        /\ SpokenTurns(Append(T, y)) = SpokenTurns(T) \o SaidIn(role, b)
    BY <1>t, <1>u, <2>2, <2>5, AppendProperties, WellTurnedAppend, DueAppend, SpokenTurnsAppend
  <2> QED BY <2>1, <2>6 DEF WellGone
<1> QED BY <1>1, <1>2, <1>3

-----------------------------------------------------------------------------
(* Messages of a chat.                                                     *)

UserMsgs == [role : {"user"}, parts : Seq(PartBlocks), calls : {<<>>}, answers : {None}]
AssistantMsgs == [role : {"assistant"}, parts : Seq(TextBlocks), calls : Seq(IdsOf), answers : {None}]
SystemMsgs == [role : {"system"}, parts : Seq(TextBlocks), calls : {<<>>}, answers : {None}]
ToolAnswers == [role : {"tool"}, parts : {<<>>}, calls : {<<>>}, answers : IdsOf]
Uttered == UserMsgs \cup AssistantMsgs \cup SystemMsgs
ChatMsgs == Uttered \cup ToolAnswers

ToolMsg(id) == ChatMessage("tool", <<>>, <<>>, id)
ToolMsgs(ids) == [i \in DOMAIN ids |-> ToolMsg(ids[i])]

Speaker(m) == IF m.role = "tool" THEN "user" ELSE m.role
SaidInChat(m) == SaidIn(Speaker(m), ChatBlocks(m))
TalkOfOne(m) == IF IsSystem(m) THEN <<>> ELSE SaidInChat(m)
TalkFn == [m \in ChatMsgs |-> TalkOfOne(m)]
TalkOf(chat) == FlattenSeq([i \in DOMAIN chat |-> TalkOfOne(chat[i])])

LEMMA RoleFacts ==
  /\ \A m \in ToolAnswers : m.role = "tool" /\ m.calls = <<>> /\ m.parts = <<>> /\ m.answers \in IdsOf
  /\ \A m \in Uttered : m.role # "tool"
  /\ \A m \in UserMsgs : m.role = "user" /\ m.calls = <<>> /\ m.parts \in Seq(PartBlocks)
  /\ \A m \in SystemMsgs : m.role = "system" /\ m.calls = <<>> /\ m.parts \in Seq(TextBlocks)
  /\ \A m \in AssistantMsgs : m.role = "assistant" /\ m.calls \in Seq(IdsOf) /\ m.parts \in Seq(TextBlocks)
  /\ \A m \in ChatMsgs : m.calls \in Seq(IdsOf)
<1>1. <<>> \in Seq(IdsOf)
  BY EmptySeq
<1> QED BY <1>1 DEF ToolAnswers, Uttered, UserMsgs, SystemMsgs, AssistantMsgs, ChatMsgs

LEMMA NoBlocks == [i \in DOMAIN <<>> |-> ToolUse(<<>>[i])] = <<>>
OBVIOUS

\* The blocks made of a chat message that was uttered.
LEMMA ChatBlocksAre ==
  /\ \A m \in ToolAnswers : ChatBlocks(m) = <<ToolResult(m.answers)>>
  /\ \A m \in UserMsgs \cup SystemMsgs : ChatBlocks(m) = m.parts
  /\ \A m \in AssistantMsgs : ChatBlocks(m) = m.parts \o ToolUses(m.calls)
<1>1. ASSUME NEW m \in ToolAnswers PROVE ChatBlocks(m) = <<ToolResult(m.answers)>>
  <2>1. m.role = "tool" /\ m.calls = <<>> /\ m.parts = <<>>
    BY RoleFacts
  <2>2. ChatBlocks(m) = (<<>> \o <<>>) \o <<ToolResult(m.answers)>>
    BY <2>1, NoBlocks DEF ChatBlocks
  <2>3. <<ToolResult(m.answers)>> \in Seq({ToolResult(m.answers)}) /\ <<>> \in Seq({ToolResult(m.answers)})
    BY EmptySeq
  <2> QED BY <2>2, <2>3, ConcatEmptySeq
<1>2. ASSUME NEW m \in UserMsgs \cup SystemMsgs PROVE ChatBlocks(m) = m.parts
  <2>1. m.role # "tool" /\ m.calls = <<>> /\ m.parts \in Seq(Blocks)
    BY RoleFacts, KindsOf
  <2>2. ChatBlocks(m) = (m.parts \o <<>>) \o <<>>
    BY <2>1, NoBlocks DEF ChatBlocks
  <2> QED BY <2>1, <2>2, ConcatEmptySeq
<1>3. ASSUME NEW m \in AssistantMsgs PROVE ChatBlocks(m) = m.parts \o ToolUses(m.calls)
  <2>1. m.role # "tool" /\ m.calls \in Seq(IdsOf) /\ m.parts \in Seq(Blocks)
    BY RoleFacts, KindsOf
  <2>2. ChatBlocks(m) = (m.parts \o ToolUses(m.calls)) \o <<>>
    BY <2>1 DEF ChatBlocks, ToolUses
  <2>3. m.parts \o ToolUses(m.calls) \in Seq(Blocks)
    BY <2>1, ToolsPicked, ConcatProperties
  <2> QED BY <2>2, <2>3, ConcatEmptySeq
<1> QED BY <1>1, <1>2, <1>3

LEMMA ChatBlocksType ==
  ASSUME NEW m \in ChatMsgs
  PROVE  ChatBlocks(m) \in Seq(Blocks) /\ Speaker(m) \in Roles /\ SaidInChat(m) \in Seq(AtomSet) /\ TalkOfOne(m) \in Seq(AtomSet)
<1>1. CASE m \in ToolAnswers
  <2>1. ToolResult(m.answers) \in Blocks
    <3>1. m.answers \in IdsOf /\ <<>> \in Seq(Nat)
      BY <1>1, RoleFacts, EmptySeq
    <3> QED BY <3>1 DEF ToolResult, Block, Blocks, BlocksOfTypes, BlockTypes
  <2>a. ChatBlocks(m) = <<ToolResult(m.answers)>>
    BY <1>1, ChatBlocksAre
  <2> DEFINE x == ToolResult(m.answers)
  <2>b. <<x>> \in Seq(Blocks)
    <3>1. x \in Blocks
      BY <2>1
    <3> HIDE DEF x
    <3> QED BY <3>1
  <2>2. ChatBlocks(m) \in Seq(Blocks)
    BY <2>a, <2>b
  <2>3. Speaker(m) \in Roles
    BY <1>1, RoleFacts DEF Speaker, Roles
  <2> QED BY <2>2, <2>3, SaidType, EmptySeq DEF SaidInChat, TalkOfOne
<1>2. CASE m \in UserMsgs \cup SystemMsgs
  <2>2. ChatBlocks(m) \in Seq(Blocks)
    BY <1>2, RoleFacts, KindsOf, ChatBlocksAre
  <2>3. Speaker(m) \in Roles
    BY <1>2, RoleFacts DEF Speaker, Roles
  <2> QED BY <2>2, <2>3, SaidType, EmptySeq DEF SaidInChat, TalkOfOne
<1>3. CASE m \in AssistantMsgs
  <2>1. m.calls \in Seq(IdsOf) /\ m.parts \in Seq(Blocks)
    BY <1>3, RoleFacts, KindsOf
  <2>a. ChatBlocks(m) = m.parts \o ToolUses(m.calls)
    BY <1>3, ChatBlocksAre
  <2>b. ToolUses(m.calls) \in Seq(Blocks)
    BY <2>1, ToolsPicked
  <2>2. ChatBlocks(m) \in Seq(Blocks)
    BY <2>1, <2>a, <2>b, ConcatProperties
  <2>3. Speaker(m) \in Roles
    BY <1>3, RoleFacts DEF Speaker, Roles
  <2> QED BY <2>2, <2>3, SaidType, EmptySeq DEF SaidInChat, TalkOfOne
<1> QED BY <1>1, <1>2, <1>3 DEF ChatMsgs, Uttered

\* The text of text blocks is their texts, joined.
LEMMA TextOfTexts == ASSUME NEW s \in Seq(TextBlocks) PROVE TextOf(s) = Joined(s) /\ Joined(s) \in Seq(Nat)
<1>1. OfType(s, {"text"}) = s
  <2>1. {"text"} \in SUBSET {"text"}
    OBVIOUS
  <2> QED BY <2>1, OfTypeAll, SortsOfTypes DEF TextBlocks
<1>2. s \in Seq(Blocks)
  BY KindsOf
<1> QED BY <1>1, <1>2, JoinedIs DEF TextOf

\* What a message of an assistant says.
LEMMA AssistantTalk ==
  ASSUME NEW m \in AssistantMsgs
  PROVE  TalkOfOne(m) = TextAtoms("assistant", TextOf(m.parts)) \o IdAtoms("assistant", "tool_use", m.calls)
<1>1. m.role = "assistant" /\ m.calls \in Seq(IdsOf) /\ m.parts \in Seq(TextBlocks) /\ m.parts \in Seq(Blocks)
      /\ m.parts \in Seq(PartBlocks) /\ "assistant" \in Roles
  BY RoleFacts, KindsOf DEF Roles
<1> DEFINE a == m.parts
           b == ToolUses(m.calls)
<1>2. b \in Seq(BlocksOfTypes({"tool_use"})) /\ b \in Seq(Blocks) /\ Ids(b) = m.calls
  BY <1>1, ToolsType, ToolsPicked
<1>3. OfType(a, {"tool_use"}) = <<>>
  BY <1>1, NothingPicked
<1>4. OfType(b, {"tool_result"}) = <<>>
  BY <1>2, NothingPicked
<1>5. SaidIn("assistant", a) = TextAtoms("assistant", TextOf(m.parts))
  BY <1>1, PartsSaid, TextsSaid, TextOfTexts
<1>6. SaidIn("assistant", b) = IdAtoms("assistant", "tool_use", m.calls)
  <2>1. SaidIn("assistant", b) = Spread(b, AtomsOf("assistant"))
    BY <1>1, <1>2, SaidOfKind
  <2> QED BY <1>1, <1>2, <2>1, NamedSaid
<1>7. TalkOfOne(m) = SaidIn("assistant", a \o b)
  BY <1>1, ChatBlocksAre DEF TalkOfOne, SaidInChat, Speaker, IsSystem
<1> HIDE DEF b
<1>8. SaidIn("assistant", a \o b) = SaidIn("assistant", a) \o SaidIn("assistant", b)
  BY <1>1, <1>2, <1>3, <1>4, SaidConcat
<1> QED BY <1>5, <1>6, <1>7, <1>8

\* A message that is uttered, put with the turns before it, leaves them well made.
LEMMA UtteredTurned ==
  ASSUME NEW T \in Seq(Turned), WellTurned(T), Due(T) = <<>>, NEW m \in Uttered
  PROVE  WellGone(T, WithMessage(T, m), m.calls, TalkOfOne(m))
<1>1. CASE m \in SystemMsgs
  <2>1. IsSystem(m) /\ m.calls = <<>>
    BY <1>1, RoleFacts DEF IsSystem
  <2>2. WithMessage(T, m) = T /\ TalkOfOne(m) = <<>>
    BY <2>1 DEF WithMessage, TalkOfOne
  <2>3. SpokenTurns(T) \o <<>> = SpokenTurns(T)
    BY TurnedTalked, SpokenTurnsIs, ConcatEmptySeq
  <2> QED BY <2>1, <2>2, <2>3 DEF WellGone
<1>2. CASE m \in UserMsgs
  <2>1. m.role = "user" /\ m.calls = <<>> /\ m.parts \in Seq(PartBlocks) /\ "user" \in Roles
    BY <1>2, RoleFacts DEF Roles
  <2> DEFINE b == Filled(m.parts)
  <2>2. WithMessage(T, m) = AppendBlocks(T, "user", b)
    BY <2>1 DEF WithMessage, IsSystem, TurnOf, BlocksOf
  <2>3. b \in Seq(PartBlocks) /\ SaidIn("user", b) = SaidIn("user", m.parts)
    BY <2>1, FilledSaid
  <2>4. TalkOfOne(m) = SaidIn("user", m.parts)
    BY <1>2, <2>1, ChatBlocksAre DEF TalkOfOne, SaidInChat, Speaker, IsSystem
  <2> HIDE DEF b
  <2>5. Results(b) = <<>> /\ Calls(b) = <<>> /\ b \in Seq(BlocksFor("user"))
    BY <2>3, NothingPicked, KindsOf DEF BlocksFor
  <2>6. WellGone(T, AppendBlocks(T, "user", b), Calls(b), SaidIn("user", b))
    BY <2>5, BlocksAppended
  <2> QED BY <2>1, <2>2, <2>3, <2>4, <2>5, <2>6
<1>3. CASE m \in AssistantMsgs
  <2>1. m.role = "assistant" /\ m.calls \in Seq(IdsOf) /\ m.parts \in Seq(TextBlocks) /\ "assistant" \in Roles
    BY <1>3, RoleFacts DEF Roles
  <2> DEFINE b == Optional(TextOf(m.parts)) \o ToolUses(m.calls)
  <2>2. WithMessage(T, m) = AppendBlocks(T, "assistant", b)
    BY <2>1 DEF WithMessage, IsSystem, TurnOf, BlocksOf, ToolUses
  <2>3. TextOf(m.parts) \in Seq(Nat)
    BY <2>1, TextOfTexts
  <2>4. SaidIn("assistant", b) = TalkOfOne(m) /\ b \in Seq(AssistantBlocks) /\ Calls(b) = m.calls
    BY <1>3, <2>1, <2>3, AnswerSaid, AssistantTalk
  <2> HIDE DEF b
  <2>5. Results(b) = <<>> /\ b \in Seq(BlocksFor("assistant"))
    BY <2>4, NothingPicked DEF BlocksFor
  <2>6. WellGone(T, AppendBlocks(T, "assistant", b), Calls(b), SaidIn("assistant", b))
    BY <2>5, BlocksAppended
  <2> QED BY <2>2, <2>4, <2>6
<1> QED BY <1>1, <1>2, <1>3 DEF Uttered

\* The turns of a chat are made message by message.
TurnsMade(f, chat, n) ==
  f[0] = <<>> /\ \A i \in 1..n : f[i] = WithMessage(f[i - 1], chat[i])

\* The turns of a request as the recursive function computes them, message by message.
LEMMA TurnsExist ==
  ASSUME NEW chat, NEW n \in Nat
  PROVE  \E f : f = [i \in 0..n |-> f[i]] /\ TurnsMade(f, chat, n)
<1> DEFINE P == {k \in Nat : \E f : f = [i \in 0..k |-> f[i]] /\ TurnsMade(f, chat, k)}
<1>1. 0 \in P
  <2> DEFINE f == [i \in 0..0 |-> <<>>]
  <2>1. f = [i \in 0..0 |-> f[i]] /\ TurnsMade(f, chat, 0)
    BY DEF TurnsMade
  <2> HIDE DEF f
  <2> QED BY <2>1
<1>2. ASSUME NEW k \in Nat, k \in P PROVE k + 1 \in P
  <2>1. PICK f : f = [i \in 0..k |-> f[i]] /\ TurnsMade(f, chat, k)
    BY <1>2
  <2> DEFINE g == [i \in 0..(k + 1) |-> IF i = k + 1 THEN WithMessage(f[k], chat[k + 1]) ELSE f[i]]
  <2>2. \A i \in 0..k : g[i] = f[i]
    OBVIOUS
  <2>3. g[k + 1] = WithMessage(f[k], chat[k + 1])
    OBVIOUS
  <2>4. g = [i \in 0..(k + 1) |-> g[i]]
    OBVIOUS
  <2> HIDE DEF g
  <2>5. TurnsMade(g, chat, k + 1)
    <3>1. g[0] = <<>>
      BY <2>1, <2>2 DEF TurnsMade
    <3>2. ASSUME NEW i \in 1..(k + 1) PROVE g[i] = WithMessage(g[i - 1], chat[i])
      <4>1. CASE i = k + 1
        <5>1. i - 1 = k /\ g[k] = f[k]
          BY <2>2, <4>1
        <5> QED BY <2>3, <4>1, <5>1
      <4>2. CASE i # k + 1
        <5>1. i \in 1..k /\ i \in 0..k /\ i - 1 \in 0..k
          BY <4>2
        <5> QED BY <2>1, <2>2, <5>1 DEF TurnsMade
      <4> QED BY <4>1, <4>2
    <3> QED BY <3>1, <3>2 DEF TurnsMade
  <2> QED BY <2>4, <2>5
<1> HIDE DEF P
<1>3. Nat \subseteq P
  BY <1>1, <1>2, NatInduct
<1> QED BY <1>3 DEF P

SamePrefix(chat, other, n) == \A i \in 1..n : other[i] = chat[i]

\* Only one function computes them.
LEMMA TurnsUnique ==
  ASSUME NEW chat, NEW other, NEW n \in Nat, SamePrefix(chat, other, n),
         NEW f, NEW g, TurnsMade(f, chat, n), TurnsMade(g, other, n)
  PROVE  \A i \in 0..n : f[i] = g[i]
<1> DEFINE P == {k \in Nat : k \in 0..n => f[k] = g[k]}
<1>1. 0 \in P
  BY DEF TurnsMade
<1>2. ASSUME NEW k \in Nat, k \in P PROVE k + 1 \in P
  <2> SUFFICES ASSUME k + 1 \in 0..n PROVE f[k + 1] = g[k + 1]
    OBVIOUS
  <2>1. f[k] = g[k] /\ k + 1 \in 1..n /\ (k + 1) - 1 = k
    BY <1>2
  <2>2. f[k + 1] = WithMessage(f[k], chat[k + 1]) /\ g[k + 1] = WithMessage(g[k], other[k + 1])
    BY <2>1 DEF TurnsMade
  <2>3. other[k + 1] = chat[k + 1]
    BY <2>1 DEF SamePrefix
  <2> QED BY <2>1, <2>2, <2>3
<1> HIDE DEF P
<1>3. Nat \subseteq P
  BY <1>1, <1>2, NatInduct
<1> QED BY <1>3 DEF P

\* Turns is what it computes for the last message.
LEMMA TurnsIs ==
  ASSUME NEW chat, Len(chat) \in Nat
  PROVE  \E f : TurnsMade(f, chat, Len(chat)) /\ Turns(chat) = f[Len(chat)]
<1> DEFINE n == Len(chat)
           Eq(f) == [i \in 0..n |-> IF i = 0 THEN <<>> ELSE WithMessage(f[i - 1], chat[i])]
           f == CHOOSE f : f = Eq(f)
<1>1. PICK g : g = [i \in 0..n |-> g[i]] /\ TurnsMade(g, chat, n)
  BY TurnsExist
<1>2. \A i \in 0..n : g[i] = IF i = 0 THEN <<>> ELSE WithMessage(g[i - 1], chat[i])
  <2> HIDE DEF f
  <2> TAKE i \in 0..n
  <2>1. CASE i = 0
    BY <1>1, <2>1 DEF TurnsMade
  <2>2. CASE i # 0
    <3>1. i \in 1..n
      BY <2>2
    <3>2. g[i] = WithMessage(g[i - 1], chat[i])
      BY <1>1, <3>1 DEF TurnsMade
    <3> QED BY <2>2, <3>2
  <2> QED BY <2>1, <2>2
<1>3. g = Eq(g)
  BY <1>1, <1>2
<1>4. f = Eq(f)
  BY <1>3
<1>5. Turns(chat) = f[n]
  BY DEF Turns
<1> HIDE DEF f
<1>6. TurnsMade(f, chat, n)
  <2>1. \A i \in 0..n : f[i] = IF i = 0 THEN <<>> ELSE WithMessage(f[i - 1], chat[i])
    BY <1>4
  <2> QED BY <2>1 DEF TurnsMade
<1> QED BY <1>5, <1>6

LEMMA TurnsEmpty == Turns(<<>>) = <<>>
<1>1. Len(<<>>) = 0
  OBVIOUS
<1>2. PICK f : TurnsMade(f, <<>>, 0) /\ Turns(<<>>) = f[0]
  BY <1>1, TurnsIs
<1> QED BY <1>2 DEF TurnsMade

\* The turns of a request with one message more.
LEMMA TurnsAppend ==
  ASSUME NEW S, NEW chat \in Seq(S), NEW m \in S
  PROVE  Turns(Append(chat, m)) = WithMessage(Turns(chat), m)
<1> DEFINE n == Len(chat)
           more == Append(chat, m)
<1>1. n \in Nat /\ Len(more) = n + 1 /\ more[n + 1] = m /\ \A i \in 1..n : more[i] = chat[i]
  BY AppendLast
<1> HIDE DEF more
<1>2. PICK f : TurnsMade(f, chat, n) /\ Turns(chat) = f[n]
  BY <1>1, TurnsIs
<1>3. PICK g : TurnsMade(g, more, n + 1) /\ Turns(more) = g[n + 1]
  <2>1. Len(more) \in Nat
    BY <1>1
  <2> QED BY <1>1, <2>1, TurnsIs
<1>4. TurnsMade(g, more, n)
  BY <1>1, <1>3 DEF TurnsMade
<1>5. f[n] = g[n]
  <2>1. SamePrefix(chat, more, n)
    BY <1>1 DEF SamePrefix
  <2>2. \A i \in 0..n : f[i] = g[i]
    BY <1>1, <1>2, <1>4, <2>1, TurnsUnique
  <2> QED BY <1>1, <2>2
<1>6. g[n + 1] = WithMessage(g[n], m)
  <2>1. n + 1 \in 1..(n + 1) /\ (n + 1) - 1 = n
    BY <1>1
  <2> QED BY <1>1, <1>3, <2>1 DEF TurnsMade
<1> QED BY <1>2, <1>3, <1>5, <1>6 DEF more

-----------------------------------------------------------------------------
(* Answers of tools.                                                       *)

MsgFn == [id \in IdsOf |-> ToolMsg(id)]
ResultFn == [id \in IdsOf |-> ToolResult(id)]
ResultAtomFn == [id \in IdsOf |-> <<"user", "tool_result", id>>]

\* A tool's message: its block, what it answers and what it says.
LEMMA ToolMsgFacts ==
  ASSUME NEW id \in IdsOf
  PROVE  /\ ToolMsg(id) \in ToolAnswers /\ ToolMsg(id) \in ChatMsgs
         /\ ToolMsg(id).role = "tool" /\ ToolMsg(id).answers = id /\ ToolMsg(id).calls = <<>>
         /\ TalkOfOne(ToolMsg(id)) = << <<"user", "tool_result", id>> >>
         /\ SaidInChat(ToolMsg(id)) = << <<"user", "tool_result", id>> >>
<1>1. ToolMsg(id) \in ToolAnswers /\ ToolMsg(id).role = "tool" /\ ToolMsg(id).answers = id /\ ToolMsg(id).calls = <<>>
  BY DEF ToolMsg, ChatMessage, ToolAnswers
<1>2. ToolMsg(id) \in ChatMsgs
  BY <1>1 DEF ChatMsgs
<1>3. ChatBlocks(ToolMsg(id)) = <<ToolResult(id)>>
  BY <1>1, ChatBlocksAre
<1>4. ToolResult(id) \in BlocksOfTypes({"tool_result"}) /\ ToolResult(id).id = id
  <2>1. <<>> \in Seq(Nat)
    BY EmptySeq
  <2> QED BY <2>1 DEF ToolResult, Block, BlocksOfTypes
<1>5. <<ToolResult(id)>> \in Seq(BlocksOfTypes({"tool_result"}))
  <2> DEFINE x == ToolResult(id)
  <2>1. x \in BlocksOfTypes({"tool_result"})
    BY <1>4
  <2> HIDE DEF x
  <2>2. <<x>> \in Seq(BlocksOfTypes({"tool_result"}))
    BY <2>1
  <2> QED BY <2>2 DEF x
<1>6. SaidIn("user", <<ToolResult(id)>>) = Spread(<<ToolResult(id)>>, AtomsOf("user"))
  BY <1>5, SaidOfKind DEF Roles
<1>7. Spread(<<ToolResult(id)>>, AtomsOf("user")) = IdAtoms("user", "tool_result", Ids(<<ToolResult(id)>>))
  BY <1>5, NamedSaid DEF Roles
<1>8. IdAtoms("user", "tool_result", Ids(<<ToolResult(id)>>)) = << <<"user", "tool_result", id>> >>
  <2>1. Ids(<<ToolResult(id)>>) = <<id>>
    BY <1>4 DEF Ids
  <2> QED BY <2>1 DEF IdAtoms
<1>9. SaidInChat(ToolMsg(id)) = SaidIn("user", <<ToolResult(id)>>)
  BY <1>1, <1>3 DEF SaidInChat, Speaker
<1>10. TalkOfOne(ToolMsg(id)) = SaidInChat(ToolMsg(id))
  BY <1>1 DEF TalkOfOne, IsSystem
<1> QED BY <1>1, <1>2, <1>6, <1>7, <1>8, <1>9, <1>10

\* The messages that answer some calls, one each.
LEMMA ToolMsgsAre ==
  ASSUME NEW ids \in Seq(IdsOf)
  PROVE  /\ ToolMsgs(ids) \in Seq(ToolAnswers) /\ ToolMsgs(ids) \in Seq(ChatMsgs) /\ Len(ToolMsgs(ids)) = Len(ids)
         /\ \A i \in 1..Len(ids) : ToolMsgs(ids)[i] = ToolMsg(ids[i])
         /\ ToolMsgs(ids) = MapSeq(ids, MsgFn) /\ MsgFn \in [IdsOf -> ToolAnswers]
         /\ ToolResults(ids) = MapSeq(ids, ResultFn)
<1>1. \A i \in DOMAIN ids : ids[i] \in IdsOf
  BY LenProperties, ElementOfSeq
<1>2. ToolMsgs(ids) = MapSeq(ids, MsgFn) /\ ToolResults(ids) = MapSeq(ids, ResultFn)
  BY <1>1 DEF ToolMsgs, ToolResults, MapSeq, MsgFn, ResultFn
<1>3. MsgFn \in [IdsOf -> ToolAnswers]
  BY ToolMsgFacts DEF MsgFn
<1>4. MapSeq(ids, MsgFn) \in Seq(ToolAnswers) /\ Len(MapSeq(ids, MsgFn)) = Len(ids)
  <2> DEFINE f == MsgFn
             S == IdsOf
             T == ToolAnswers
  <2>1. f \in [S -> T] /\ ids \in Seq(S)
    BY <1>3
  <2> HIDE DEF f, S, T
  <2>2. MapSeq(ids, f) \in Seq(T) /\ Len(MapSeq(ids, f)) = Len(ids)
    BY <2>1, MappedEach, MappedType
  <2> QED BY <2>2 DEF f, S, T
<1>5. ToolMsgs(ids) \in Seq(ChatMsgs)
  <2>1. ToolAnswers \subseteq ChatMsgs
    BY DEF ChatMsgs
  <2> QED BY <1>2, <1>4, <2>1, SeqMonotonic
<1>6. \A i \in 1..Len(ids) : ToolMsgs(ids)[i] = ToolMsg(ids[i])
  BY LenProperties DEF ToolMsgs
<1> QED BY <1>2, <1>3, <1>4, <1>5, <1>6

LEMMA ToolMsgsAppend ==
  ASSUME NEW ids \in Seq(IdsOf), NEW id \in IdsOf
  PROVE  /\ ToolMsgs(Append(ids, id)) = Append(ToolMsgs(ids), ToolMsg(id))
         /\ ToolResults(Append(ids, id)) = ToolResults(ids) \o <<ToolResult(id)>>
         /\ Append(ids, id) \in Seq(IdsOf) /\ Append(ids, id) # <<>>
<1>1. Append(ids, id) \in Seq(IdsOf) /\ Append(ids, id) = ids \o <<id>> /\ <<id>> \in Seq(IdsOf) /\ Append(ids, id) # <<>>
  BY AppendLast, AppendIsConcat
<1>2. MsgFn \in [IdsOf -> ToolAnswers] /\ ResultFn \in [IdsOf -> Blocks]
  <2>1. <<>> \in Seq(Nat)
    BY EmptySeq
  <2>2. \A x \in IdsOf : ToolResult(x) \in Blocks
    BY <2>1 DEF ToolResult, Block, Blocks, BlocksOfTypes, BlockTypes
  <2> QED BY <2>2, ToolMsgsAre DEF ResultFn
<1>3. /\ MapSeq(ids \o <<id>>, MsgFn) = MapSeq(ids, MsgFn) \o MapSeq(<<id>>, MsgFn)
      /\ MapSeq(ids \o <<id>>, ResultFn) = MapSeq(ids, ResultFn) \o MapSeq(<<id>>, ResultFn)
  <2> DEFINE D == IdsOf
             U == ToolAnswers
             V == Blocks
             f == MsgFn
             g == ResultFn
             one == <<id>>
  <2>1. f \in [D -> U] /\ g \in [D -> V] /\ ids \in Seq(D) /\ one \in Seq(D)
    BY <1>1, <1>2
  <2> HIDE DEF D, U, V, f, g, one
  <2>2. MapSeq(ids \o one, f) = MapSeq(ids, f) \o MapSeq(one, f)
    BY <2>1, MappedConcat
  <2>3. MapSeq(ids \o one, g) = MapSeq(ids, g) \o MapSeq(one, g)
    BY <2>1, MappedConcat
  <2> QED BY <2>2, <2>3 DEF f, g, one
<1>5. MapSeq(<<id>>, MsgFn) = <<ToolMsg(id)>> /\ MapSeq(<<id>>, ResultFn) = <<ToolResult(id)>>
  <2>1. MsgFn[id] = ToolMsg(id) /\ ResultFn[id] = ToolResult(id)
    BY DEF MsgFn, ResultFn
  <2> QED BY <2>1, MappedOne
<1>6. ToolMsgs(Append(ids, id)) = ToolMsgs(ids) \o <<ToolMsg(id)>>
  BY <1>1, <1>3, <1>5, ToolMsgsAre
<1>7. Append(ToolMsgs(ids), ToolMsg(id)) = ToolMsgs(ids) \o <<ToolMsg(id)>>
  <2>1. ToolMsgs(ids) \in Seq(ToolAnswers) /\ ToolMsg(id) \in ToolAnswers
    BY ToolMsgsAre, ToolMsgFacts
  <2> DEFINE x == ToolMsg(id)
  <2> HIDE DEF x
  <2>2. Append(ToolMsgs(ids), x) = ToolMsgs(ids) \o <<x>>
    BY <2>1, AppendIsConcat DEF x
  <2> QED BY <2>2 DEF x
<1>8. ToolResults(Append(ids, id)) = ToolResults(ids) \o <<ToolResult(id)>>
  BY <1>1, <1>3, <1>5, ToolMsgsAre
<1> QED BY <1>1, <1>6, <1>7, <1>8

LEMMA ToolMsgsEmpty == ToolMsgs(<<>>) = <<>> /\ ToolResults(<<>>) = <<>>
BY DEF ToolMsgs, ToolResults

\* Answers that follow calls make one turn of the user.
LEMMA ToolsTurned ==
  ASSUME NEW chat \in Seq(ChatMsgs), NEW T \in Seq(Turned), T = Turns(chat), Due(T) # <<>>, NEW ids \in Seq(IdsOf)
  PROVE  /\ chat \o ToolMsgs(ids) \in Seq(ChatMsgs)
         /\ Turns(chat \o ToolMsgs(ids)) = IF ids = <<>> THEN T ELSE Append(T, Message("user", ToolResults(ids)))
<1> DEFINE Longer(q) == IF q = <<>> THEN T ELSE Append(T, Message("user", ToolResults(q)))
           P == {q \in Seq(IdsOf) : chat \o ToolMsgs(q) \in Seq(ChatMsgs) /\ Turns(chat \o ToolMsgs(q)) = Longer(q)}
<1>l. T # <<>> /\ Last(T).role = "assistant"
  <2>1. T # <<>> /\ Calls(Last(T).content) # <<>>
    BY DEF Due
  <2>2. Last(T) \in Talked
    BY <2>1, LastIs, TurnedTalked
  <2> QED BY <2>1, <2>2, TurnFacts
<1>1. <<>> \in P
  BY EmptySeq, ToolMsgsEmpty, ConcatEmptySeq
<1>2. ASSUME NEW q \in Seq(IdsOf), NEW id \in IdsOf, q \in P PROVE Append(q, id) \in P
  <2> DEFINE c == chat \o ToolMsgs(q)
             m == ToolMsg(id)
             b == <<ToolResult(id)>>
  <2>1. c \in Seq(ChatMsgs) /\ Turns(c) = Longer(q) /\ m \in ChatMsgs /\ ToolMsgs(q) \in Seq(ChatMsgs)
    BY <1>2, ToolMsgFacts, ToolMsgsAre
  <2>2. /\ ToolMsgs(Append(q, id)) = Append(ToolMsgs(q), m) /\ ToolResults(Append(q, id)) = ToolResults(q) \o b
        /\ Append(q, id) \in Seq(IdsOf) /\ Append(q, id) # <<>>
    BY ToolMsgsAppend
  <2>3. chat \o Append(ToolMsgs(q), m) = Append(c, m)
    <3> DEFINE r == ToolMsgs(q)
    <3>1. r \in Seq(ChatMsgs) /\ m \in ChatMsgs
      BY <2>1
    <3> HIDE DEF m, r
    <3>2. chat \o Append(r, m) = Append(chat \o r, m)
      BY <3>1, AppendConcat
    <3> QED BY <3>2 DEF r
  <2>4. Append(c, m) \in Seq(ChatMsgs) /\ Turns(Append(c, m)) = WithMessage(Longer(q), m)
    <3>1. c \in Seq(ChatMsgs) /\ m \in ChatMsgs /\ Turns(c) = Longer(q)
      BY <2>1
    <3> HIDE DEF c, m, Longer
    <3>2. Append(c, m) \in Seq(ChatMsgs)
      BY <3>1, AppendProperties
    <3>3. Turns(Append(c, m)) = WithMessage(Turns(c), m)
      BY <3>1, TurnsAppend
    <3> QED BY <3>1, <3>2, <3>3
  <2>5. WithMessage(Longer(q), m) = AppendBlocks(Longer(q), "user", b)
    BY ToolMsgFacts DEF WithMessage, IsSystem, TurnOf, BlocksOf
  <2>6. b # <<>>
    OBVIOUS
  <2>7. AppendBlocks(Longer(q), "user", b) = Append(T, Message("user", ToolResults(Append(q, id))))
    <3>1. CASE q = <<>>
      <4>1. Longer(q) = T
        BY <3>1
      <4>2. AppendBlocks(T, "user", b) = Append(T, Message("user", b))
        BY <1>l, <2>6 DEF AppendBlocks
      <4>3. ToolResults(Append(q, id)) = b
        <5>1. b \in Seq({ToolResult(id)})
          OBVIOUS
        <5> QED BY <2>2, <3>1, <5>1, ToolMsgsEmpty, ConcatEmptySeq
      <4> QED BY <4>1, <4>2, <4>3
    <3>2. CASE q # <<>>
      <4> DEFINE x == Message("user", ToolResults(q))
      <4>1. x \in Turned /\ x.role = "user" /\ x.content = ToolResults(q)
        BY ToolsPicked, NewTurn DEF BlocksFor
      <4>2. Longer(q) = Append(T, x)
        BY <3>2
      <4> HIDE DEF x, b
      <4>3. AppendBlocks(Append(T, x), x.role, b) = Append(T, Message(x.role, x.content \o b))
        BY <2>6, <4>1, MergedIs
      <4> QED BY <2>2, <4>1, <4>2, <4>3
    <3> QED BY <3>1, <3>2
  <2>8. Longer(Append(q, id)) = Append(T, Message("user", ToolResults(Append(q, id))))
    BY <2>2
  <2> HIDE DEF Longer, m, b
  <2> QED BY <2>2, <2>3, <2>4, <2>5, <2>7, <2>8
<1> HIDE DEF P
<1>3. Seq(IdsOf) \subseteq P
  BY <1>1, <1>2, SeqInduct
<1> QED BY <1>3 DEF P

\* The messages that answer the calls due become one turn of results.
LEMMA ToolsAnswered ==
  ASSUME NEW chat \in Seq(ChatMsgs), NEW T \in Seq(Turned), T = Turns(chat), WellTurned(T), Due(T) # <<>>,
         NEW ids \in Seq(IdsOf), Answer(Due(T), ids)
  PROVE  WellGone(T, Turns(chat \o ToolMsgs(ids)), <<>>, IdAtoms("user", "tool_result", ids))
<1> DEFINE x == Message("user", ToolResults(ids))
           r == ToolResults(ids)
<1>t. T \in Seq(Talked) /\ \A m \in Turned : m \in Talked
  BY TurnedTalked
<1>l. T # <<>> /\ Last(T).role = "assistant"
  <2>1. T # <<>> /\ Calls(Last(T).content) # <<>>
    BY DEF Due
  <2>2. Last(T) \in Talked
    BY <2>1, LastIs, TurnedTalked
  <2> QED BY <2>1, <2>2, TurnFacts
<1>1. ids # <<>> /\ Len(ids) \in Nat /\ Len(ids) # 0
  <2>1. Due(T) \in Seq(IdsOf)
    BY <1>t, DueType
  <2>2. Len(Due(T)) # 0 /\ Len(Due(T)) = Len(ids)
    BY <2>1, EmptySeq, LenProperties DEF Answer
  <2> QED BY <2>2, EmptySeq, LenProperties
<1>2. r \in Seq(BlocksOfTypes({"tool_result"})) /\ Ids(r) = ids /\ Len(r) = Len(ids)
      /\ Results(r) = ids /\ Calls(r) = <<>> /\ r \in Seq(UserBlocks)
  BY ToolsType, ToolsPicked
<1>3. x \in Turned /\ x.role = "user" /\ x.content = r
  BY <1>2, NewTurn DEF BlocksFor
<1>4. r # <<>>
  BY <1>1, <1>2, EmptySeq
<1>5. ResultsFirst(r)
  <2> SUFFICES ASSUME NEW k \in 1..Len(ids) PROVE k \in DOMAIN r /\ r[k].type = "tool_result"
    BY <1>2 DEF ResultsFirst
  <2>1. k \in 1..Len(r)
    BY <1>2
  <2>2. r[k] \in BlocksOfTypes({"tool_result"}) /\ k \in DOMAIN r
    BY <1>2, <2>1, ElementOfSeq, LenProperties
  <2> QED BY <2>2 DEF BlocksOfTypes
<1>6. SaidIn("user", r) = IdAtoms("user", "tool_result", ids)
  <2>1. SaidIn("user", r) = Spread(r, AtomsOf("user"))
    BY <1>2, SaidOfKind DEF Roles
  <2>2. Spread(r, AtomsOf("user")) = IdAtoms("user", "tool_result", Ids(r))
    BY <1>2, NamedSaid DEF Roles
  <2> QED BY <1>2, <2>1, <2>2
<1> HIDE DEF x, r
<1>7. FollowsOn(T, x)
  BY <1>l, <1>2, <1>3, <1>4, <1>5 DEF FollowsOn
<1>8. Turns(chat \o ToolMsgs(ids)) = Append(T, x)
  BY <1>1, ToolsTurned DEF x, r
<1>9. /\ Append(T, x) \in Seq(Turned) /\ WellTurned(Append(T, x)) /\ Due(Append(T, x)) = <<>>
      /\ SpokenTurns(Append(T, x)) = SpokenTurns(T) \o IdAtoms("user", "tool_result", ids)
  BY <1>t, <1>2, <1>3, <1>6, <1>7, AppendProperties, WellTurnedAppend, DueAppend, SpokenTurnsAppend
<1> QED BY <1>8, <1>9 DEF WellGone

-----------------------------------------------------------------------------
(* What a chat says.                                                       *)

SaidFn == [m \in ChatMsgs |-> SaidInChat(m)]
SystemFn == [m \in ChatMsgs |-> IF IsSystem(m) THEN TextOf(m.parts) ELSE <<>>]

\* What chat messages say, message by message.
LEMMA ChatFunctions ==
  /\ Spreads(TalkFn, ChatMsgs, AtomSet) /\ TalkFn \in [ChatMsgs -> Seq(AtomSet)]
  /\ Spreads(SaidFn, ChatMsgs, AtomSet) /\ SaidFn \in [ChatMsgs -> Seq(AtomSet)]
  /\ Spreads(SystemFn, ChatMsgs, Nat) /\ SystemFn \in [ChatMsgs -> Seq(Nat)]
<1>1. TalkFn \in [ChatMsgs -> Seq(AtomSet)]
  BY ChatBlocksType DEF TalkFn
<1>2. SaidFn \in [ChatMsgs -> Seq(AtomSet)]
  BY ChatBlocksType DEF SaidFn
<1>3. \A m \in ChatMsgs : (IF IsSystem(m) THEN TextOf(m.parts) ELSE <<>>) \in Seq(Nat)
  <2> TAKE m \in ChatMsgs
  <2>1. <<>> \in Seq(Nat)
    BY EmptySeq
  <2>2. CASE m \in SystemMsgs
    BY <2>1, <2>2, RoleFacts, TextOfTexts
  <2>3. CASE m \notin SystemMsgs
    <3>1. m.role \in {"user", "assistant", "tool"}
      BY <2>3, RoleFacts DEF ChatMsgs, Uttered
    <3> QED BY <2>1, <3>1 DEF IsSystem
  <2> QED BY <2>2, <2>3
<1>4. SystemFn \in [ChatMsgs -> Seq(Nat)]
  BY <1>3 DEF SystemFn
<1> QED BY <1>1, <1>2, <1>4 DEF Spreads

LEMMA ChatSpreads ==
  ASSUME NEW chat \in Seq(ChatMsgs)
  PROVE  /\ TalkOf(chat) = Spread(chat, TalkFn) /\ TalkOf(chat) \in Seq(AtomSet)
         /\ SpokenInChat(chat) = Spread(chat, SaidFn) /\ SpokenInChat(chat) \in Seq(AtomSet)
         /\ SystemOf(chat) = Spread(chat, SystemFn) /\ SystemOf(chat) \in Seq(Nat)
<1>1. \A i \in DOMAIN chat : chat[i] \in ChatMsgs
  BY LenProperties, ElementOfSeq
<1>2. TalkOf(chat) = Spread(chat, TalkFn)
  <2>1. [i \in DOMAIN chat |-> TalkOfOne(chat[i])] = MapSeq(chat, TalkFn)
    BY <1>1 DEF MapSeq, TalkFn
  <2> QED BY <2>1 DEF TalkOf, Spread
<1>3. SpokenInChat(chat) = Spread(chat, SaidFn)
  <2>1. [i \in DOMAIN chat |-> SaidIn(IF chat[i].role = "tool" THEN "user" ELSE chat[i].role, ChatBlocks(chat[i]))] = MapSeq(chat, SaidFn)
    BY <1>1 DEF MapSeq, SaidFn, SaidInChat, Speaker
  <2> QED BY <2>1 DEF SpokenInChat, Spread
<1>4. SystemOf(chat) = Spread(chat, SystemFn)
  <2>1. [i \in DOMAIN chat |-> IF IsSystem(chat[i]) THEN TextOf(chat[i].parts) ELSE <<>>] = MapSeq(chat, SystemFn)
    BY <1>1 DEF MapSeq, SystemFn
  <2> QED BY <2>1 DEF SystemOf, Spread
<1>5. Spread(chat, TalkFn) \in Seq(AtomSet)
  BY ChatFunctions, SpreadType
<1>6. Spread(chat, SaidFn) \in Seq(AtomSet)
  BY ChatFunctions, SpreadType
<1>7. Spread(chat, SystemFn) \in Seq(Nat)
  BY ChatFunctions, SpreadType
<1> QED BY <1>2, <1>3, <1>4, <1>5, <1>6, <1>7

\* Two parts of a chat say what each says.
LEMMA ChatConcat ==
  ASSUME NEW chat \in Seq(ChatMsgs), NEW more \in Seq(ChatMsgs)
  PROVE  /\ TalkOf(chat \o more) = TalkOf(chat) \o TalkOf(more)
         /\ SpokenInChat(chat \o more) = SpokenInChat(chat) \o SpokenInChat(more)
         /\ SystemOf(chat \o more) = SystemOf(chat) \o SystemOf(more)
<1>1. chat \o more \in Seq(ChatMsgs)
  BY ConcatProperties
<1> DEFINE D == ChatMsgs
           f == TalkFn
           g == SaidFn
           h == SystemFn
<1>0. Spreads(f, D, AtomSet) /\ Spreads(g, D, AtomSet) /\ Spreads(h, D, Nat) /\ chat \in Seq(D) /\ more \in Seq(D)
  BY ChatFunctions
<1> HIDE DEF D, f, g, h
<1>2. Spread(chat \o more, f) = Spread(chat, f) \o Spread(more, f)
  BY <1>0, SpreadsConcat
<1>3. Spread(chat \o more, g) = Spread(chat, g) \o Spread(more, g)
  BY <1>0, SpreadsConcat
<1>4. Spread(chat \o more, h) = Spread(chat, h) \o Spread(more, h)
  BY <1>0, SpreadsConcat
<1> QED BY <1>1, <1>2, <1>3, <1>4, ChatSpreads DEF f, g, h

LEMMA ChatOne ==
  ASSUME NEW m \in ChatMsgs
  PROVE  /\ TalkOf(<<m>>) = TalkOfOne(m) /\ SpokenInChat(<<m>>) = SaidInChat(m)
         /\ SystemOf(<<m>>) = (IF IsSystem(m) THEN TextOf(m.parts) ELSE <<>>)
         /\ <<m>> \in Seq(ChatMsgs)
<1>1. <<m>> \in Seq(ChatMsgs)
  OBVIOUS
<1>2. Spread(<<m>>, TalkFn) = TalkFn[m]
  BY ChatFunctions, SpreadOne
<1>3. Spread(<<m>>, SaidFn) = SaidFn[m]
  BY ChatFunctions, SpreadOne
<1>4. Spread(<<m>>, SystemFn) = SystemFn[m]
  BY ChatFunctions, SpreadOne
<1>5. TalkFn[m] = TalkOfOne(m)
  BY DEF TalkFn
<1>6. SaidFn[m] = SaidInChat(m)
  BY DEF SaidFn
<1>7. SystemFn[m] = IF IsSystem(m) THEN TextOf(m.parts) ELSE <<>>
  BY DEF SystemFn
<1> QED BY <1>1, <1>2, <1>3, <1>4, <1>5, <1>6, <1>7, ChatSpreads

LEMMA ChatAppend ==
  ASSUME NEW chat \in Seq(ChatMsgs), NEW m \in ChatMsgs
  PROVE  /\ TalkOf(Append(chat, m)) = TalkOf(chat) \o TalkOfOne(m)
         /\ SpokenInChat(Append(chat, m)) = SpokenInChat(chat) \o SaidInChat(m)
         /\ SystemOf(Append(chat, m)) = SystemOf(chat) \o (IF IsSystem(m) THEN TextOf(m.parts) ELSE <<>>)
<1>1. Append(chat, m) = chat \o <<m>>
  BY AppendIsConcat
<1>2. <<m>> \in Seq(ChatMsgs)
  BY ChatOne
<1> QED BY <1>1, <1>2, ChatConcat, ChatOne

LEMMA ChatEmpty ==
  TalkOf(<<>>) = <<>> /\ SpokenInChat(<<>>) = <<>> /\ SystemOf(<<>>) = <<>> /\ <<>> \in Seq(ChatMsgs)
BY EmptySeq, ChatSpreads, SpreadEmpty

\* What tools' messages say is the results.
LEMMA ToolsTalk ==
  ASSUME NEW ids \in Seq(IdsOf)
  PROVE  /\ TalkOf(ToolMsgs(ids)) = IdAtoms("user", "tool_result", ids)
         /\ SpokenInChat(ToolMsgs(ids)) = IdAtoms("user", "tool_result", ids)
         /\ SystemOf(ToolMsgs(ids)) = <<>>
<1> DEFINE P == {q \in Seq(IdsOf) : /\ TalkOf(ToolMsgs(q)) = MapSeq(q, ResultAtomFn)
                                    /\ SpokenInChat(ToolMsgs(q)) = MapSeq(q, ResultAtomFn)
                                    /\ SystemOf(ToolMsgs(q)) = <<>>}
<1>1. <<>> \in P
  BY EmptySeq, ToolMsgsEmpty, ChatEmpty, MappedEmpty
<1>2. ASSUME NEW q \in Seq(IdsOf), NEW id \in IdsOf, q \in P PROVE Append(q, id) \in P
  <2>1. ToolMsgs(Append(q, id)) = Append(ToolMsgs(q), ToolMsg(id)) /\ Append(q, id) \in Seq(IdsOf)
    BY ToolMsgsAppend
  <2>2. ToolMsgs(q) \in Seq(ChatMsgs)
    BY ToolMsgsAre
  <2> DEFINE m == ToolMsg(id)
             a == << <<"user", "tool_result", id>> >>
  <2>3. m \in ChatMsgs /\ TalkOfOne(m) = a /\ SaidInChat(m) = a /\ ~IsSystem(m)
    BY ToolMsgFacts DEF IsSystem
  <2>4. MapSeq(Append(q, id), ResultAtomFn) = MapSeq(q, ResultAtomFn) \o a
    <3>1. ResultAtomFn \in [IdsOf -> AtomSet]
      BY DEF ResultAtomFn, AtomSet, Roles, BlockTypes
    <3>2. Append(q, id) = q \o <<id>> /\ <<id>> \in Seq(IdsOf)
      BY AppendIsConcat
    <3>3. MapSeq(q \o <<id>>, ResultAtomFn) = MapSeq(q, ResultAtomFn) \o MapSeq(<<id>>, ResultAtomFn)
      BY <3>1, <3>2, MappedConcat
    <3>4. MapSeq(<<id>>, ResultAtomFn) = a
      <4>1. ResultAtomFn[id] = <<"user", "tool_result", id>>
        BY DEF ResultAtomFn
      <4> QED BY <4>1, MappedOne
    <3> QED BY <3>2, <3>3, <3>4
  <2> HIDE DEF m, a
  <2>5. /\ TalkOf(Append(ToolMsgs(q), m)) = TalkOf(ToolMsgs(q)) \o a
        /\ SpokenInChat(Append(ToolMsgs(q), m)) = SpokenInChat(ToolMsgs(q)) \o a
        /\ SystemOf(Append(ToolMsgs(q), m)) = SystemOf(ToolMsgs(q)) \o <<>>
    BY <2>2, <2>3, ChatAppend
  <2>6. <<>> \o <<>> = <<>>
    BY Concats
  <2> QED BY <1>2, <2>1, <2>4, <2>5, <2>6 DEF m
<1> HIDE DEF P
<1>3. Seq(IdsOf) \subseteq P
  BY <1>1, <1>2, SeqInduct
<1>4. MapSeq(ids, ResultAtomFn) = IdAtoms("user", "tool_result", ids)
  <2>1. \A i \in DOMAIN ids : ids[i] \in IdsOf
    BY LenProperties, ElementOfSeq
  <2> QED BY <2>1 DEF MapSeq, IdAtoms, ResultAtomFn
<1> QED BY <1>3, <1>4 DEF P

-----------------------------------------------------------------------------
(* Calls and answers in a chat.                                            *)

AnsweredAt(chat, i) ==
  /\ i + Len(chat[i].calls) <= Len(chat)
  /\ {chat[j].answers : j \in Answers(chat, i)} = ToSet(chat[i].calls)
  /\ \A j \in Answers(chat, i) : chat[j].role = "tool"

CallsKept(chat, due) ==
  \A i \in 1..Len(chat) : chat[i].calls # <<>> => (i = Len(chat) /\ due = chat[i].calls) \/ AnsweredAt(chat, i)
AnswersKept(chat) ==
  \A j \in 1..Len(chat) : chat[j].role = "tool" => \E i \in 1..Len(chat) : j \in Answers(chat, i)
ChatPaired(chat, due) ==
  /\ CallsKept(chat, due) /\ AnswersKept(chat)
  /\ due # <<>> => Len(chat) # 0 /\ chat[Len(chat)].calls = due

Grows(chat, more) == Len(chat) <= Len(more) /\ SamePrefix(chat, more, Len(chat))

\* The messages that answer a message's calls are as many that follow it.
LEMMA AnswersIs ==
  ASSUME NEW chat \in Seq(ChatMsgs), NEW i \in 1..Len(chat)
  PROVE  /\ Answers(chat, i) = {j \in 1..Len(chat) : j > i /\ j <= i + Len(chat[i].calls)}
         /\ Len(chat[i].calls) \in Nat
<1>1. DOMAIN chat = 1..Len(chat)
  BY LenProperties
<1>2. chat[i] \in ChatMsgs
  BY ElementOfSeq
<1>3. chat[i].calls \in Seq(IdsOf)
  BY <1>2, RoleFacts
<1> QED BY <1>1, <1>3, LenProperties DEF Answers

\* Calls that were answered remain so when messages are added.
LEMMA StillAnswered ==
  ASSUME NEW chat \in Seq(ChatMsgs), NEW more \in Seq(ChatMsgs), Grows(chat, more), NEW i \in 1..Len(chat), AnsweredAt(chat, i)
  PROVE  AnsweredAt(more, i)
<1>1. Len(chat) \in Nat /\ Len(more) \in Nat /\ Len(chat) <= Len(more) /\ i \in 1..Len(more)
      /\ \A j \in 1..Len(chat) : more[j] = chat[j]
  BY LenProperties DEF Grows, SamePrefix
<1>2. more[i] = chat[i] /\ Len(chat[i].calls) \in Nat
  BY <1>1, AnswersIs
<1>3. i + Len(chat[i].calls) <= Len(chat)
  BY DEF AnsweredAt
<1>4. Answers(more, i) = Answers(chat, i)
  <2>1. Answers(chat, i) = {j \in 1..Len(chat) : j > i /\ j <= i + Len(chat[i].calls)}
    BY AnswersIs
  <2>2. Answers(more, i) = {j \in 1..Len(more) : j > i /\ j <= i + Len(chat[i].calls)}
    BY <1>1, <1>2, AnswersIs
  <2> QED BY <1>1, <1>2, <1>3, <2>1, <2>2
<1>5. \A j \in Answers(chat, i) : more[j] = chat[j]
  BY <1>1, AnswersIs
<1>6. {more[j].answers : j \in Answers(more, i)} = {chat[j].answers : j \in Answers(chat, i)}
  BY <1>4, <1>5
<1>7. \A j \in Answers(more, i) : more[j].role = "tool"
  BY <1>4, <1>5 DEF AnsweredAt
<1>8. {chat[j].answers : j \in Answers(chat, i)} = ToSet(chat[i].calls)
  BY DEF AnsweredAt
<1>9. i + Len(more[i].calls) <= Len(more)
  BY <1>1, <1>2, <1>3
<1> QED BY <1>2, <1>6, <1>7, <1>8, <1>9 DEF AnsweredAt

\* A tool's message that answered a call still does.
LEMMA StillAnswers ==
  ASSUME NEW chat \in Seq(ChatMsgs), NEW more \in Seq(ChatMsgs), Grows(chat, more), AnswersKept(chat),
         NEW j \in 1..Len(chat), more[j].role = "tool"
  PROVE  \E i \in 1..Len(more) : j \in Answers(more, i)
<1>1. Len(chat) \in Nat /\ Len(more) \in Nat /\ Len(chat) <= Len(more) /\ \A k \in 1..Len(chat) : more[k] = chat[k]
  BY LenProperties DEF Grows, SamePrefix
<1>2. PICK i \in 1..Len(chat) : j \in Answers(chat, i)
  BY <1>1 DEF AnswersKept
<1>3. j > i /\ j <= i + Len(chat[i].calls)
  BY <1>2, AnswersIs
<1>4. i \in 1..Len(more) /\ j \in 1..Len(more) /\ more[i] = chat[i]
  BY <1>1
<1>5. j \in Answers(more, i)
  BY <1>3, <1>4, AnswersIs
<1> QED BY <1>4, <1>5

\* A message that is uttered when nothing is due leaves its calls due.
LEMMA UtteredPaired ==
  ASSUME NEW chat \in Seq(ChatMsgs), ChatPaired(chat, <<>>), NEW m \in Uttered
  PROVE  ChatPaired(Append(chat, m), m.calls)
<1> DEFINE more == Append(chat, m)
           n == Len(chat)
<1>1. m \in ChatMsgs /\ m.role # "tool"
  BY RoleFacts DEF ChatMsgs
<1>2. more \in Seq(ChatMsgs) /\ Len(more) = n + 1 /\ n \in Nat /\ more[n + 1] = m /\ \A i \in 1..n : more[i] = chat[i]
  BY <1>1, AppendLast
<1> HIDE DEF more
<1>3. Grows(chat, more)
  BY <1>2 DEF Grows, SamePrefix
<1>4. CallsKept(more, m.calls)
  <2> SUFFICES ASSUME NEW i \in 1..(n + 1), more[i].calls # <<>>
               PROVE (i = n + 1 /\ m.calls = more[i].calls) \/ AnsweredAt(more, i)
    BY <1>2 DEF CallsKept
  <2>1. CASE i = n + 1
    BY <1>2, <2>1
  <2>2. CASE i # n + 1
    <3>1. i \in 1..n /\ chat[i].calls # <<>>
      BY <1>2, <2>2
    <3>2. AnsweredAt(chat, i)
      BY <3>1 DEF ChatPaired, CallsKept
    <3> QED BY <1>2, <1>3, <3>1, <3>2, StillAnswered
  <2> QED BY <2>1, <2>2
<1>5. AnswersKept(more)
  <2> SUFFICES ASSUME NEW j \in 1..(n + 1), more[j].role = "tool" PROVE \E i \in 1..Len(more) : j \in Answers(more, i)
    BY <1>2 DEF AnswersKept
  <2>1. j \in 1..n
    BY <1>1, <1>2
  <2> QED BY <1>2, <1>3, <2>1, StillAnswers DEF ChatPaired
<1>6. Len(more) # 0 /\ more[Len(more)].calls = m.calls
  BY <1>2
<1> QED BY <1>4, <1>5, <1>6 DEF ChatPaired, more

\* The tools' messages leave nothing due.
LEMMA ToolsPaired ==
  ASSUME NEW chat \in Seq(ChatMsgs), NEW due \in Seq(IdsOf), due # <<>>, ChatPaired(chat, due),
         NEW ids \in Seq(IdsOf), Answer(due, ids)
  PROVE  ChatPaired(chat \o ToolMsgs(ids), <<>>)
<1> DEFINE more == chat \o ToolMsgs(ids)
           n == Len(chat)
           k == Len(ids)
<1>1. n \in Nat /\ k \in Nat /\ n # 0 /\ chat[n].calls = due /\ Len(due) = k /\ ToSet(due) = ToSet(ids) /\ k # 0
  BY LenProperties, EmptySeq DEF ChatPaired, Answer
<1>2. ToolMsgs(ids) \in Seq(ChatMsgs) /\ Len(ToolMsgs(ids)) = k /\ \A i \in 1..k : ToolMsgs(ids)[i] = ToolMsg(ids[i])
  BY ToolMsgsAre
<1>3. /\ more \in Seq(ChatMsgs) /\ Len(more) = n + k
      /\ \A i \in 1..(n + k) : more[i] = IF i <= n THEN chat[i] ELSE ToolMsgs(ids)[i - n]
  <2> DEFINE t == ToolMsgs(ids)
  <2>1. t \in Seq(ChatMsgs) /\ Len(t) = k
    BY <1>2
  <2> HIDE DEF t
  <2>2. chat \o t \in Seq(ChatMsgs) /\ Len(chat \o t) = n + k
    <3>1. chat \o t \in Seq(ChatMsgs)
      BY <2>1, Concats
    <3>2. Len(chat \o t) = Len(chat) + Len(t)
      BY <2>1, ConcatProperties
    <3> QED BY <2>1, <3>1, <3>2
  <2>3. \A i \in 1..(n + k) : (chat \o t)[i] = IF i <= n THEN chat[i] ELSE t[i - n]
    BY <2>1, ConcatProperties
  <2> QED BY <2>2, <2>3 DEF t
<1> HIDE DEF more
<1>4. \A i \in 1..n : more[i] = chat[i]
  BY <1>1, <1>3
<1>5. \A i \in 1..k : more[n + i] = ToolMsg(ids[i])
  <2> TAKE i \in 1..k
  <2>1. n + i \in 1..(n + k) /\ ~(n + i <= n) /\ (n + i) - n = i
    BY <1>1
  <2> QED BY <1>2, <1>3, <2>1
<1>6. \A i \in 1..k : ids[i] \in IdsOf
  BY ElementOfSeq
<1>7. \A i \in 1..k : more[n + i].role = "tool" /\ more[n + i].calls = <<>> /\ more[n + i].answers = ids[i]
  BY <1>5, <1>6, ToolMsgFacts
<1>8. Grows(chat, more)
  BY <1>1, <1>3, <1>4 DEF Grows, SamePrefix
<1>9. \A i \in 1..(n + k) : i \in 1..n \/ \E j \in 1..k : i = n + j
  <2> TAKE i \in 1..(n + k)
  <2>1. CASE i <= n
    BY <1>1, <2>1
  <2>2. CASE ~(i <= n)
    <3> DEFINE j == i - n
    <3>1. j \in 1..k /\ i = n + j
      BY <1>1, <2>2
    <3> HIDE DEF j
    <3> QED BY <3>1
  <2> QED BY <2>1, <2>2
<1>10. more[n].calls = due /\ n \in 1..Len(more)
  BY <1>1, <1>3, <1>4
<1>11. Answers(more, n) = {n + j : j \in 1..k}
  <2>1. Answers(more, n) = {j \in 1..(n + k) : j > n /\ j <= n + k}
    BY <1>1, <1>3, <1>10, AnswersIs
  <2> QED BY <1>1, <1>9, <2>1
<1>12. AnsweredAt(more, n)
  <2>1. n + Len(more[n].calls) <= Len(more)
    BY <1>1, <1>3, <1>10
  <2>2. {more[j].answers : j \in Answers(more, n)} = ToSet(more[n].calls)
    <3>1. ToSet(ids) = {ids[j] : j \in 1..k}
      BY LenProperties DEF ToSet
    <3>2. \A j \in Answers(more, n) : \E l \in 1..k : j = n + l /\ more[j].answers = ids[l]
      BY <1>7, <1>11
    <3>3. \A l \in 1..k : n + l \in Answers(more, n) /\ more[n + l].answers = ids[l]
      BY <1>7, <1>11
    <3>4. {more[j].answers : j \in Answers(more, n)} = {ids[j] : j \in 1..k}
      <4> DEFINE A == Answers(more, n)
      <4> HIDE DEF A, k
      <4>1. \A v : v \in {more[j].answers : j \in A} => v \in {ids[j] : j \in 1..k}
        BY <3>2 DEF A
      <4>2. \A v : v \in {ids[j] : j \in 1..k} => v \in {more[j].answers : j \in A}
        BY <3>3 DEF A
      <4> QED BY <4>1, <4>2 DEF A
    <3> QED BY <1>1, <1>10, <3>1, <3>4
  <2>3. \A j \in Answers(more, n) : more[j].role = "tool"
    BY <1>7, <1>11
  <2> QED BY <2>1, <2>2, <2>3 DEF AnsweredAt
<1>13. CallsKept(more, <<>>)
  <2> SUFFICES ASSUME NEW i \in 1..(n + k), more[i].calls # <<>> PROVE AnsweredAt(more, i)
    BY <1>3 DEF CallsKept
  <2>1. i \in 1..n
    BY <1>7, <1>9
  <2>2. CASE i = n
    BY <1>12, <2>2
  <2>3. CASE i # n
    <3>1. AnsweredAt(chat, i)
      BY <1>4, <2>1, <2>3 DEF ChatPaired, CallsKept
    <3> QED BY <1>3, <1>8, <2>1, <3>1, StillAnswered
  <2> QED BY <2>2, <2>3
<1>14. AnswersKept(more)
  <2> SUFFICES ASSUME NEW j \in 1..(n + k), more[j].role = "tool" PROVE \E i \in 1..Len(more) : j \in Answers(more, i)
    BY <1>3 DEF AnswersKept
  <2>1. CASE j \in 1..n
    BY <1>3, <1>8, <2>1, StillAnswers DEF ChatPaired
  <2>2. CASE j \notin 1..n
    <3>1. j \in Answers(more, n)
      BY <1>9, <1>11, <2>2
    <3> QED BY <1>10, <3>1
  <2> QED BY <2>1, <2>2
<1> QED BY <1>13, <1>14 DEF ChatPaired, more

LEMMA EmptyPaired == ChatPaired(<<>>, <<>>)
<1>1. Len(<<>>) = 0
  OBVIOUS
<1> QED BY <1>1 DEF ChatPaired, CallsKept, AnswersKept

\* A chat that is well formed on either side of the translation, up to the calls in its
\* last message.
ChatOK(chat, due) ==
  /\ chat \in Seq(ChatMsgs) /\ due \in Seq(IdsOf) /\ ChatPaired(chat, due)
  /\ Turns(chat) \in Seq(Turned) /\ WellTurned(Turns(chat)) /\ Due(Turns(chat)) = due
  /\ SpokenTurns(Turns(chat)) = TalkOf(chat)

\* A chat without messages is well made.
LEMMA EmptyOK == ChatOK(<<>>, <<>>)
BY EmptySeq, EmptyPaired, TurnsEmpty, EmptyTurns, ChatEmpty DEF ChatOK

\* A message that is uttered when nothing is due keeps a chat well made.
LEMMA UtteredOK ==
  ASSUME NEW chat, ChatOK(chat, <<>>), NEW m \in Uttered
  PROVE  ChatOK(Append(chat, m), m.calls)
<1> DEFINE T == Turns(chat)
           U == Turns(Append(chat, m))
<1>1. chat \in Seq(ChatMsgs) /\ ChatPaired(chat, <<>>) /\ T \in Seq(Turned) /\ WellTurned(T) /\ Due(T) = <<>>
      /\ SpokenTurns(T) = TalkOf(chat)
  BY DEF ChatOK
<1>2. m \in ChatMsgs /\ m.calls \in Seq(IdsOf)
  BY RoleFacts DEF ChatMsgs
<1>3. U = WithMessage(T, m)
  BY <1>1, <1>2, TurnsAppend
<1> HIDE DEF T, U
<1>4. WellGone(T, U, m.calls, TalkOfOne(m))
  BY <1>1, <1>3, UtteredTurned
<1>5. TalkOf(Append(chat, m)) = TalkOf(chat) \o TalkOfOne(m) /\ Append(chat, m) \in Seq(ChatMsgs)
  BY <1>1, <1>2, ChatAppend, AppendProperties
<1>6. ChatPaired(Append(chat, m), m.calls)
  BY <1>1, UtteredPaired
<1>7. U \in Seq(Turned) /\ WellTurned(U) /\ Due(U) = m.calls /\ SpokenTurns(U) = TalkOf(Append(chat, m))
  BY <1>1, <1>4, <1>5 DEF WellGone
<1> QED BY <1>2, <1>5, <1>6, <1>7 DEF ChatOK, U

\* The tools' messages for the calls due keep a chat well made.
LEMMA ToolsOK ==
  ASSUME NEW chat, NEW due, ChatOK(chat, due), NEW ids \in Seq(IdsOf), Answer(due, ids)
  PROVE  ChatOK(chat \o ToolMsgs(ids), <<>>)
<1> DEFINE T == Turns(chat)
           more == chat \o ToolMsgs(ids)
           U == Turns(more)
<1>1. chat \in Seq(ChatMsgs) /\ due \in Seq(IdsOf) /\ ChatPaired(chat, due) /\ T \in Seq(Turned) /\ WellTurned(T) /\ Due(T) = due
      /\ SpokenTurns(T) = TalkOf(chat)
  BY DEF ChatOK
<1>2. CASE due = <<>>
  <2>1. ids = <<>>
    BY <1>2, AnswerEmpty
  <2>2. more = chat
    BY <1>1, <2>1, ToolMsgsEmpty, ConcatEmptySeq
  <2> QED BY <1>2, <2>2
<1>3. CASE due # <<>>
  <2>1. WellGone(T, U, <<>>, IdAtoms("user", "tool_result", ids))
    BY <1>1, <1>3, ToolsAnswered
  <2>2. more \in Seq(ChatMsgs)
    BY <1>1, ToolMsgsAre, ConcatProperties
  <2>3. TalkOf(more) = TalkOf(chat) \o IdAtoms("user", "tool_result", ids)
    BY <1>1, ToolMsgsAre, ChatConcat, ToolsTalk
  <2>4. ChatPaired(more, <<>>)
    BY <1>1, <1>3, ToolsPaired
  <2> HIDE DEF T, U, more
  <2>5. U \in Seq(Turned) /\ WellTurned(U) /\ Due(U) = <<>> /\ SpokenTurns(U) = TalkOf(more)
    BY <1>1, <2>1, <2>3 DEF WellGone
  <2>6. <<>> \in Seq(IdsOf)
    BY EmptySeq
  <2> QED BY <2>2, <2>4, <2>5, <2>6 DEF ChatOK, U, more
<1> QED BY <1>2, <1>3

-----------------------------------------------------------------------------
(* The translation of one Anthropic message.                               *)

UserRest(content) ==
  IF OfType(content, {"text", "image"}) = <<>> THEN <<>>
  ELSE IF OfType(OfType(content, {"text", "image"}), {"image"}) = <<>>
  THEN <<ChatMessage("user", <<Text(Joined(OfType(content, {"text", "image"})))>>, <<>>, None)>>
  ELSE <<ChatMessage("user", OfType(content, {"text", "image"}), <<>>, None)>>

RestOf(m) ==
  IF m.plain THEN <<ChatMessage(m.role, m.content, <<>>, None)>>
  ELSE IF m.role = "assistant" THEN AssistantToChat(m.content)
  ELSE UserRest(m.content)

\* The tools' messages a user turn begins with (_anthropic_message_to_chat).
LEMMA ToolMessagesAre ==
  ASSUME NEW content \in Seq(Blocks) PROVE ToolMessages(content) = ToolMsgs(Results(content))
<1> DEFINE results == OfType(content, {"tool_result"})
<1>1. ToolMessages(content) = [i \in DOMAIN results |-> ChatMessage("tool", <<>>, <<>>, results[i].id)]
  BY DEF ToolMessages
<1>2. Results(content) = Ids(results)
  BY DEF Results
<1> HIDE DEF results
<1>3. DOMAIN Ids(results) = DOMAIN results /\ \A i \in DOMAIN results : Ids(results)[i] = results[i].id
  BY DEF Ids
<1> QED BY <1>1, <1>2, <1>3 DEF ToolMsgs, ToolMsg

\* The rest of a message that is translated, after the answers in it.
Rests(rest, m) ==
  \/ rest = <<>> /\ Calls(m.content) = <<>>
  \/ \E u \in Uttered : rest = <<u>> /\ u.calls = Calls(m.content) /\ ~IsSystem(u)

Says(rest, m) ==
  SaidIn(m.role, m.content) = IdAtoms("user", "tool_result", Results(m.content)) \o TalkOf(rest)

LEMMA ImagelessTexts ==
  ASSUME NEW s \in Seq(PartBlocks), OfType(s, {"image"}) = <<>> PROVE s \in Seq(TextBlocks)
<1> DEFINE P == {r \in Seq(PartBlocks) : OfType(r, {"image"}) = <<>> => r \in Seq(TextBlocks)}
<1>1. <<>> \in P
  BY EmptySeq
<1>2. ASSUME NEW r \in Seq(PartBlocks), NEW x \in PartBlocks, r \in P PROVE Append(r, x) \in P
  <2>0. r \in Seq(Blocks) /\ x \in Blocks /\ <<x>> \in Seq(Blocks) /\ Append(r, x) = r \o <<x>> /\ Append(r, x) \in Seq(PartBlocks)
    <3>1. r \in Seq(Blocks)
      BY KindsOf
    <3>2. x \in Blocks
      BY DEF PartBlocks, Blocks, BlocksOfTypes, BlockTypes
    <3>3. <<x>> \in Seq(Blocks)
      BY <3>2
    <3> QED BY <3>1, <3>2, <3>3, AppendIsConcat, AppendProperties
  <2>1. OfType(r \o <<x>>, {"image"}) = OfType(r, {"image"}) \o OfType(<<x>>, {"image"})
    BY <2>0, OfTypeConcat, SortsOfTypes
  <2>2. OfType(<<x>>, {"image"}) = IF x.type \in {"image"} THEN <<x>> ELSE <<>>
    BY <2>0, OfTypeOne, SortsOfTypes
  <2> SUFFICES ASSUME OfType(Append(r, x), {"image"}) = <<>> PROVE Append(r, x) \in Seq(TextBlocks)
    BY <2>0
  <2> DEFINE a == OfType(r, {"image"})
             b == OfType(<<x>>, {"image"})
  <2>3. a \in Seq(Blocks) /\ b \in Seq(Blocks)
    BY <2>0, OfTypeType, SortsOfTypes
  <2>4. a \o b = <<>>
    BY <2>0, <2>1
  <2>5. a = <<>> /\ b = <<>>
    <3> HIDE DEF a, b
    <3>1. Len(a \o b) = Len(a) + Len(b) /\ Len(a) \in Nat /\ Len(b) \in Nat
      BY <2>3, ConcatProperties, LenProperties
    <3>2. Len(a) = 0 /\ Len(b) = 0
      BY <2>4, <3>1, EmptySeq
    <3> QED BY <2>3, <3>2, EmptySeq
  <2>6. x.type # "image"
    <3>1. <<x>> # <<>>
      OBVIOUS
    <3>2. OfType(<<x>>, {"image"}) = <<>>
      BY <2>5
    <3> HIDE DEF a, b
    <3> QED BY <2>2, <3>1, <3>2
  <2>7. x \in TextBlocks
    BY <2>6 DEF PartBlocks, TextBlocks, BlocksOfTypes
  <2>8. r \in Seq(TextBlocks)
    BY <1>2, <2>5
  <2> QED BY <2>7, <2>8, AppendProperties
<1> HIDE DEF P
<1>3. Seq(PartBlocks) \subseteq P
  BY <1>1, <1>2, SeqInduct
<1> QED BY <1>3 DEF P

\* A user's message made of parts says the parts.
LEMMA UserMessage ==
  ASSUME NEW parts \in Seq(PartBlocks)
  PROVE  /\ ChatMessage("user", parts, <<>>, None) \in UserMsgs
         /\ TalkOf(<<ChatMessage("user", parts, <<>>, None)>>) = Spread(parts, AtomsOf("user"))
<1> DEFINE u == ChatMessage("user", parts, <<>>, None)
<1>1. u \in UserMsgs /\ u.parts = parts /\ u.role = "user"
  BY DEF ChatMessage, UserMsgs
<1> HIDE DEF u
<1>2. u \in ChatMsgs
  BY <1>1 DEF ChatMsgs, Uttered
<1>3. TalkOf(<<u>>) = TalkOfOne(u)
  BY <1>2, ChatOne
<1>4. TalkOfOne(u) = SaidIn("user", parts)
  BY <1>1, ChatBlocksAre DEF TalkOfOne, SaidInChat, Speaker, IsSystem
<1>5. SaidIn("user", parts) = Spread(parts, AtomsOf("user"))
  BY PartsSaid DEF Roles
<1> QED BY <1>1, <1>3, <1>4, <1>5 DEF u

\* A message with the turn's calls is what remains of the turn.
LEMMA UtteredRests ==
  ASSUME NEW m, NEW u \in UserMsgs \cup AssistantMsgs, u.calls = Calls(m.content) PROVE Rests(<<u>>, m)
<1>1. u \in Uttered /\ ~IsSystem(u)
  BY RoleFacts DEF Uttered, IsSystem
<1> QED BY <1>1 DEF Rests

\* What remains of a turn whose content is a text.
LEMMA PlainRest ==
  ASSUME NEW m \in PlainTurns
  PROVE  Rests(RestOf(m), m) /\ Says(RestOf(m), m)
<1>1. m.plain /\ m.role = "user" /\ m.content \in Seq(TextBlocks) /\ m.content \in Seq(PartBlocks) /\ m.content \in Seq(UserBlocks)
  BY KindsOf DEF PlainTurns
<1> DEFINE u == ChatMessage("user", m.content, <<>>, None)
<1>2. RestOf(m) = <<u>>
  BY <1>1 DEF RestOf
<1>3. u \in UserMsgs /\ TalkOf(<<u>>) = Spread(m.content, AtomsOf("user"))
  BY <1>1, UserMessage
<1>4. Calls(m.content) = <<>> /\ Results(m.content) = <<>>
  BY <1>1, NothingPicked
<1>5. u.calls = <<>>
  BY DEF ChatMessage
<1>6. SaidIn("user", m.content) = Spread(m.content, AtomsOf("user"))
  BY <1>1, PartsSaid DEF Roles
<1>7. SaidIn("user", m.content) \in Seq(AtomSet)
  BY <1>1, KindsOf, SaidType DEF Roles
<1>8. <<>> \o SaidIn("user", m.content) = SaidIn("user", m.content)
  BY <1>7, ConcatEmptySeq
<1> HIDE DEF u
<1>9. Rests(<<u>>, m)
  BY <1>3, <1>4, <1>5, UtteredRests
<1>10. Says(<<u>>, m)
  BY <1>1, <1>3, <1>4, <1>6, <1>8, IdAtomsEmpty DEF Says
<1> QED BY <1>2, <1>9, <1>10

\* What remains of an assistant's turn (_anthropic_message_to_chat).
LEMMA AssistantRest ==
  ASSUME NEW m \in AssistantTurns
  PROVE  Rests(RestOf(m), m) /\ Says(RestOf(m), m)
<1>1. ~m.plain /\ m.role = "assistant" /\ m.content \in Seq(AssistantBlocks) /\ m.content \in Seq(Blocks)
  BY KindsOf DEF AssistantTurns
<1> DEFINE t == TextOf(m.content)
           c == Calls(m.content)
           u == ChatMessage("assistant", Optional(t), c, None)
           a == TextAtoms("assistant", t) \o IdAtoms("assistant", "tool_use", c)
<1>2. t \in Seq(Nat) /\ c \in Seq(IdsOf) /\ Results(m.content) = <<>>
  BY <1>1, TextOfType, PickedType, NothingPicked
<1>3. SaidIn(m.role, m.content) = a
  BY <1>1, AssistantSaid DEF Roles
<1>4. RestOf(m) = IF t = <<>> /\ c = <<>> THEN <<>> ELSE <<u>>
  BY <1>1 DEF RestOf, AssistantToChat, Calls
<1>5. a \in Seq(AtomSet)
  <2>1. TextAtoms("assistant", t) \in Seq(AtomSet) /\ IdAtoms("assistant", "tool_use", c) \in Seq(AtomSet)
    BY <1>2, TextAtomsIs, IdAtomsType DEF Roles, BlockTypes
  <2> DEFINE p == TextAtoms("assistant", t)
             q == IdAtoms("assistant", "tool_use", c)
  <2> HIDE DEF p, q
  <2>2. p \o q \in Seq(AtomSet)
    BY <2>1, ConcatProperties DEF p, q
  <2> QED BY <2>2 DEF p, q
<1>6. <<>> \o a = a
  BY <1>5, ConcatEmptySeq
<1>7. CASE t = <<>> /\ c = <<>>
  <2>1. a = <<>>
    BY <1>7, TextAtomsEmpty, IdAtomsEmpty, Concats
  <2>2. Rests(<<>>, m)
    BY <1>7 DEF Rests
  <2>3. Says(<<>>, m)
    BY <1>2, <1>3, <2>1, IdAtomsEmpty, ChatEmpty, Concats DEF Says
  <2> QED BY <1>4, <1>7, <2>2, <2>3
<1>8. CASE ~(t = <<>> /\ c = <<>>)
  <2>1. u \in AssistantMsgs /\ u.parts = Optional(t) /\ u.calls = c
    BY <1>2, TextBlock DEF ChatMessage, AssistantMsgs
  <2>2. TextOf(Optional(t)) = t
    <3>1. Optional(t) \in Seq(TextBlocks)
      BY <1>2, TextBlock
    <3>2. Joined(Optional(t)) = t
      <4>1. CASE t = <<>>
        <5>1. Joined(<<>>) = Spread(<<>>, TextFn)
          BY JoinedIs, EmptySeq
        <5> QED BY <4>1, <5>1, SpreadEmpty DEF Optional
      <4>2. CASE t # <<>>
        BY <1>2, <4>2, JoinedOne DEF Optional
      <4> QED BY <4>1, <4>2
    <3> QED BY <3>1, <3>2, TextOfTexts
  <2> HIDE DEF u
  <2>3. TalkOfOne(u) = a
    BY <2>1, <2>2, AssistantTalk
  <2>4. TalkOf(<<u>>) = a
    <3>1. u \in ChatMsgs
      BY <2>1 DEF ChatMsgs, Uttered
    <3> QED BY <2>3, <3>1, ChatOne
  <2>5. Rests(<<u>>, m)
    BY <2>1, UtteredRests
  <2>6. Says(<<u>>, m)
    BY <1>2, <1>3, <1>6, <2>4, IdAtomsEmpty DEF Says
  <2> QED BY <1>4, <1>8, <2>5, <2>6
<1> QED BY <1>7, <1>8

\* What remains of a user's turn when its results are taken out.
LEMMA UserRestIs ==
  ASSUME NEW m \in UserTurns
  PROVE  Rests(RestOf(m), m) /\ Says(RestOf(m), m)
<1>1. ~m.plain /\ m.role = "user" /\ m.content \in Seq(UserBlocks) /\ m.content \in Seq(Blocks) /\ "user" \in Roles
  BY KindsOf DEF UserTurns, Roles
<1> DEFINE p == OfType(m.content, {"text", "image"})
<1>2. p \in Seq(PartBlocks)
  BY <1>1, OfTypeType, SortsOfTypes DEF PartBlocks
<1>3. Calls(m.content) = <<>>
  BY <1>1, NothingPicked
<1>4. SaidIn("user", m.content) = IdAtoms("user", "tool_result", Results(m.content)) \o Spread(p, AtomsOf("user"))
  BY <1>1, UserSaid DEF PartAtoms
<1>5. RestOf(m) = UserRest(m.content)
  BY <1>1 DEF RestOf
<1>6. UserRest(m.content) = IF p = <<>> THEN <<>>
        ELSE IF OfType(p, {"image"}) = <<>> THEN <<ChatMessage("user", <<Text(Joined(p))>>, <<>>, None)>>
        ELSE <<ChatMessage("user", p, <<>>, None)>>
  BY DEF UserRest
<1> HIDE DEF p
<1>s. ASSUME NEW rest, TalkOf(rest) = Spread(p, AtomsOf("user")) PROVE Says(rest, m)
  BY <1>1, <1>4, <1>s DEF Says
<1>7. CASE p = <<>>
  <2>1. Rests(<<>>, m)
    BY <1>3 DEF Rests
  <2>2. Says(<<>>, m)
    BY <1>7, <1>s, SpreadEmpty, ChatEmpty
  <2> QED BY <1>5, <1>6, <1>7, <2>1, <2>2
<1>8. CASE p # <<>> /\ OfType(p, {"image"}) = <<>>
  <2> DEFINE q == <<Text(Joined(p))>>
             u == ChatMessage("user", q, <<>>, None)
  <2>1. p \in Seq(TextBlocks)
    BY <1>2, <1>8, ImagelessTexts
  <2>2. Joined(p) \in Seq(Nat)
    BY <2>1, TextOfTexts
  <2>3. q \in Seq(TextBlocks) /\ q \in Seq(PartBlocks)
    BY <2>2, TextBlock, KindsOf
  <2>4. u \in UserMsgs /\ TalkOf(<<u>>) = Spread(q, AtomsOf("user"))
    BY <2>3, UserMessage
  <2>5. Spread(q, AtomsOf("user")) = TextAtoms("user", Joined(q)) /\ Spread(p, AtomsOf("user")) = TextAtoms("user", Joined(p))
    BY <1>1, <2>1, <2>3, TextsSaid
  <2>6. Joined(q) = Joined(p)
    BY <2>2, JoinedOne
  <2>7. u.calls = <<>>
    BY DEF ChatMessage
  <2> HIDE DEF u, q
  <2>8. Rests(<<u>>, m) /\ Says(<<u>>, m)
    BY <1>3, <1>s, <2>4, <2>5, <2>6, <2>7, UtteredRests
  <2> QED BY <1>5, <1>6, <1>8, <2>8 DEF u, q
<1>9. CASE p # <<>> /\ OfType(p, {"image"}) # <<>>
  <2> DEFINE u == ChatMessage("user", p, <<>>, None)
  <2>4. u \in UserMsgs /\ TalkOf(<<u>>) = Spread(p, AtomsOf("user"))
    BY <1>2, UserMessage
  <2>7. u.calls = <<>>
    BY DEF ChatMessage
  <2> HIDE DEF u
  <2>8. Rests(<<u>>, m) /\ Says(<<u>>, m)
    BY <1>3, <1>s, <2>4, <2>7, UtteredRests
  <2> QED BY <1>5, <1>6, <1>9, <2>8 DEF u
<1> QED BY <1>7, <1>8, <1>9

\* Whatever the turn, what remains has its calls and says what its results do not.
LEMMA RestFacts ==
  ASSUME NEW m \in Talked PROVE Rests(RestOf(m), m) /\ Says(RestOf(m), m)
BY PlainRest, AssistantRest, UserRestIs DEF Talked, Turned

\* A turn becomes the messages of its results, and what remains.
LEMMA MessageIs ==
  ASSUME NEW m \in Talked
  PROVE  /\ MessageToChat(m) = ToolMsgs(Results(m.content)) \o RestOf(m)
         /\ RestOf(m) \in Seq(ChatMsgs) /\ MessageToChat(m) \in Seq(ChatMsgs)
<1>1. m.content \in Seq(Blocks) /\ Results(m.content) \in Seq(IdsOf)
  BY TurnFacts
<1>2. RestOf(m) \in Seq(ChatMsgs)
  <2>1. RestOf(m) = <<>> \/ \E u \in Uttered : RestOf(m) = <<u>>
    BY RestFacts DEF Rests
  <2>2. CASE RestOf(m) = <<>>
    BY <2>2, EmptySeq
  <2>3. CASE \E u \in Uttered : RestOf(m) = <<u>>
    <3>1. PICK u \in Uttered : RestOf(m) = <<u>>
      BY <2>3
    <3>2. u \in ChatMsgs
      BY DEF ChatMsgs
    <3> QED BY <3>1, <3>2
  <2> QED BY <2>1, <2>2, <2>3
<1>3. <<>> \o RestOf(m) = RestOf(m)
  BY <1>2, ConcatEmptySeq
<1>4. CASE m.plain
  <2>1. m \in PlainTurns
    BY <1>4 DEF Talked, Turned, UserTurns, AssistantTurns
  <2>2. Results(m.content) = <<>>
    <3>1. m.content \in Seq(PartBlocks)
      BY <2>1, KindsOf DEF PlainTurns
    <3> QED BY <3>1, NothingPicked
  <2>3. MessageToChat(m) = RestOf(m)
    BY <1>4 DEF MessageToChat, RestOf
  <2> QED BY <1>2, <1>3, <2>2, <2>3, ToolMsgsEmpty
<1>5. CASE ~m.plain /\ m.role = "assistant"
  <2>2. Results(m.content) = <<>>
    BY <1>5, TurnFacts
  <2>3. MessageToChat(m) = RestOf(m)
    BY <1>5 DEF MessageToChat, RestOf
  <2> QED BY <1>2, <1>3, <2>2, <2>3, ToolMsgsEmpty
<1>6. CASE ~m.plain /\ m.role # "assistant"
  <2>1. MessageToChat(m) = UserToChat(m.content) /\ RestOf(m) = UserRest(m.content)
    BY <1>6 DEF MessageToChat, RestOf
  <2>2. UserToChat(m.content) = ToolMessages(m.content) \o UserRest(m.content)
    BY DEF UserToChat, UserRest
  <2>3. ToolMessages(m.content) = ToolMsgs(Results(m.content))
    BY <1>1, ToolMessagesAre
  <2>4. ToolMsgs(Results(m.content)) \in Seq(ChatMsgs)
    BY <1>1, ToolMsgsAre
  <2>5. ToolMsgs(Results(m.content)) \o RestOf(m) \in Seq(ChatMsgs)
    BY <1>2, <2>4, Concats
  <2> QED BY <1>2, <2>1, <2>2, <2>3, <2>5
<1> QED BY <1>4, <1>5, <1>6

-----------------------------------------------------------------------------
(* The translation of an Anthropic request.                                *)

\* What a request of turns T and system prompt becomes.
Translated(chat, prompt, T) ==
  /\ ChatOK(chat, Due(T))
  /\ TalkOf(chat) = SpokenTurns(T)
  /\ SpokenInChat(chat) = TextAtoms("system", prompt) \o SpokenTurns(T)
  /\ SystemOf(chat) = prompt

\* What is not a system message says the same as talk.
LEMMA NotSystem ==
  ASSUME NEW m \in ChatMsgs, ~IsSystem(m)
  PROVE  TalkOfOne(m) = SaidInChat(m)
BY DEF TalkOfOne

\* The rest of a message says what it says, and has no system prompt.
LEMMA RestTalk ==
  ASSUME NEW m, NEW rest, Rests(rest, m)
  PROVE  /\ rest \in Seq(ChatMsgs) /\ TalkOf(rest) \in Seq(AtomSet)
         /\ SpokenInChat(rest) = TalkOf(rest) /\ SystemOf(rest) = <<>>
<1>1. CASE rest = <<>>
  BY <1>1, ChatEmpty, EmptySeq
<1>2. ASSUME NEW u \in Uttered, rest = <<u>>, ~IsSystem(u) PROVE rest \in Seq(ChatMsgs) /\ TalkOf(rest) \in Seq(AtomSet)
         /\ SpokenInChat(rest) = TalkOf(rest) /\ SystemOf(rest) = <<>>
  <2>1. u \in ChatMsgs
    BY DEF ChatMsgs
  <2>2. TalkOf(<<u>>) = TalkOfOne(u) /\ SpokenInChat(<<u>>) = SaidInChat(u) /\ SystemOf(<<u>>) = <<>> /\ <<u>> \in Seq(ChatMsgs)
    BY <1>2, <2>1, ChatOne
  <2>3. TalkOfOne(u) = SaidInChat(u)
    BY <1>2, <2>1, NotSystem
  <2>4. TalkOfOne(u) \in Seq(AtomSet)
    BY <2>1, ChatBlocksType
  <2> QED BY <1>2, <2>2, <2>3, <2>4
<1> QED BY <1>1, <1>2 DEF Rests

\* What remains of a turn, when nothing is due, keeps a chat well made.
LEMMA RestOK ==
  ASSUME NEW m, NEW rest, Rests(rest, m), NEW chat, ChatOK(chat, <<>>)
  PROVE  ChatOK(chat \o rest, Calls(m.content))
<1>0. chat \in Seq(ChatMsgs)
  BY DEF ChatOK
<1>1. CASE rest = <<>> /\ Calls(m.content) = <<>>
  <2>1. chat \o rest = chat
    BY <1>0, <1>1, ConcatEmptySeq
  <2> QED BY <1>1, <2>1
<1>2. ASSUME NEW u \in Uttered, rest = <<u>>, u.calls = Calls(m.content) PROVE ChatOK(chat \o rest, Calls(m.content))
  <2>1. u \in ChatMsgs
    BY DEF ChatMsgs
  <2>2. chat \o <<u>> = Append(chat, u)
    BY <1>0, <2>1, AppendIsConcat
  <2>3. ChatOK(Append(chat, u), u.calls)
    BY UtteredOK
  <2> QED BY <1>2, <2>2, <2>3
<1> QED BY <1>1, <1>2 DEF Rests

\* One more message.
LEMMA TranslatedMore ==
  ASSUME NEW chat, NEW prompt \in Seq(Nat), NEW T \in Seq(Talked), Translated(chat, prompt, T),
         NEW m \in Talked, Answer(Due(T), Results(m.content))
  PROVE  Translated(chat \o MessageToChat(m), prompt, Append(T, m))
<1> DEFINE ids == Results(m.content)
           rest == RestOf(m)
           tools == ToolMsgs(ids)
           due == Due(T)
<1>0. ids \in Seq(IdsOf)
  BY TurnFacts
<1>1. Rests(rest, m) /\ Says(rest, m)
  BY RestFacts
<1>2. MessageToChat(m) = tools \o rest
  BY MessageIs
<1>3. chat \in Seq(ChatMsgs) /\ ChatOK(chat, due)
  BY DEF Translated, ChatOK
<1>4. tools \in Seq(ChatMsgs)
  BY <1>0, ToolMsgsAre
<1>5. rest \in Seq(ChatMsgs) /\ TalkOf(rest) \in Seq(AtomSet) /\ SpokenInChat(rest) = TalkOf(rest) /\ SystemOf(rest) = <<>>
  BY <1>1, RestTalk
<1>6. TalkOf(tools) = IdAtoms("user", "tool_result", ids) /\ SpokenInChat(tools) = IdAtoms("user", "tool_result", ids)
      /\ SystemOf(tools) = <<>>
  BY <1>0, ToolsTalk
<1>7. SaidIn(m.role, m.content) = IdAtoms("user", "tool_result", ids) \o TalkOf(rest)
  BY <1>1 DEF Says
<1>8. Due(Append(T, m)) = Calls(m.content) /\ SpokenTurns(Append(T, m)) = SpokenTurns(T) \o SaidIn(m.role, m.content)
  BY DueAppend, SpokenTurnsAppend
<1>9. SpokenTurns(T) \in Seq(AtomSet) /\ SystemOf(chat) \in Seq(Nat)
  BY <1>3, SpokenTurnsIs, ChatSpreads
<1>10. Answer(due, ids)
  OBVIOUS
<1> HIDE DEF ids, rest, tools, due
<1>11. ChatOK(chat \o tools, <<>>)
  BY <1>0, <1>3, <1>10, ToolsOK DEF tools
<1>12. ChatOK((chat \o tools) \o rest, Calls(m.content))
  BY <1>1, <1>11, RestOK
<1>13. (chat \o tools) \o rest = chat \o (tools \o rest) /\ chat \o tools \in Seq(ChatMsgs) /\ tools \o rest \in Seq(ChatMsgs)
  <2>1. Associate(chat, tools, rest)
    BY <1>3, <1>4, <1>5, Associates
  <2>2. chat \o tools \in Seq(ChatMsgs) /\ tools \o rest \in Seq(ChatMsgs)
    BY <1>3, <1>4, <1>5, ConcatProperties
  <2> QED BY <2>1, <2>2 DEF Associate
<1> DEFINE a == TalkOf(tools)
           b == TalkOf(rest)
           both == tools \o rest
<1>14. TalkOf(chat \o both) = TalkOf(chat) \o TalkOf(both) /\ SpokenInChat(chat \o both) = SpokenInChat(chat) \o SpokenInChat(both)
       /\ SystemOf(chat \o both) = SystemOf(chat) \o SystemOf(both)
  BY <1>3, <1>13, ChatConcat
<1>15. TalkOf(both) = a \o b /\ SpokenInChat(both) = SpokenInChat(tools) \o SpokenInChat(rest)
       /\ SystemOf(both) = SystemOf(tools) \o SystemOf(rest)
  BY <1>4, <1>5, ChatConcat
<1>16. SpokenInChat(both) = a \o b /\ SystemOf(both) = <<>> /\ SaidIn(m.role, m.content) = a \o b
  BY <1>5, <1>6, <1>7, <1>15, Concats
<1>17. a \o b \in Seq(AtomSet)
  BY <1>4, <1>5, ChatSpreads, Concats
<1>18. TextAtoms("system", prompt) \in Seq(AtomSet)
  BY TextAtomsIs DEF Roles
<1> DEFINE more == a \o b
           S == SpokenTurns(T)
           p == TextAtoms("system", prompt)
           whole == chat \o both
<1>19. TalkOf(chat) = S /\ SpokenInChat(chat) = p \o S /\ SystemOf(chat) = prompt
  BY DEF Translated
<1>20. TalkOf(whole) = S \o more
  BY <1>14, <1>15, <1>19
<1>21. SpokenTurns(Append(T, m)) = S \o more
  BY <1>8, <1>16
<1>22. SpokenInChat(whole) = (p \o S) \o more
  BY <1>14, <1>16, <1>19
<1>23. (p \o S) \o more = p \o (S \o more)
  <2>1. p \in Seq(AtomSet) /\ S \in Seq(AtomSet) /\ more \in Seq(AtomSet)
    BY <1>9, <1>17, <1>18
  <2> HIDE DEF p, S, more
  <2>2. Associate(p, S, more)
    BY <2>1, Associates
  <2> QED BY <2>2 DEF Associate
<1>24. SystemOf(whole) = prompt
  <2>1. prompt \o <<>> = prompt
    BY Concats
  <2> QED BY <1>14, <1>16, <1>19, <2>1
<1>25. ChatOK(whole, Due(Append(T, m)))
  BY <1>8, <1>12, <1>13
<1>26. chat \o MessageToChat(m) = whole
  BY <1>2
<1> HIDE DEF whole, more, S, p, both
<1> QED BY <1>20, <1>21, <1>22, <1>23, <1>24, <1>25, <1>26 DEF Translated, p

\* The system prompt.
Prompt(prompt) == IF prompt = <<>> THEN <<>> ELSE <<ChatMessage("system", <<Text(prompt)>>, <<>>, None)>>

\* The system prompt becomes a system message, and is said first.
LEMMA PromptIs ==
  ASSUME NEW prompt \in Seq(Nat)
  PROVE  Translated(Prompt(prompt), prompt, <<>>)
<1>0. Due(<<>>) = <<>> /\ SpokenTurns(<<>>) = <<>>
  BY EmptyTurns
<1>p. TextAtoms("system", prompt) \o <<>> = TextAtoms("system", prompt)
  BY TextAtomsIs, Concats DEF Roles
<1>1. CASE prompt = <<>>
  <2>1. Prompt(prompt) = <<>>
    BY <1>1 DEF Prompt
  <2>2. TextAtoms("system", prompt) = <<>>
    BY <1>1, TextAtomsEmpty
  <2> QED BY <1>0, <1>1, <1>p, <2>1, <2>2, EmptyOK, ChatEmpty DEF Translated
<1>2. CASE prompt # <<>>
  <2> DEFINE m == ChatMessage("system", <<Text(prompt)>>, <<>>, None)
  <2>1. Prompt(prompt) = <<m>>
    BY <1>2 DEF Prompt
  <2>2. m \in SystemMsgs /\ m.role = "system" /\ m.parts = <<Text(prompt)>> /\ m.calls = <<>>
    BY TextBlock DEF SystemMsgs, ChatMessage
  <2> HIDE DEF m
  <2>3. m \in Uttered /\ m \in ChatMsgs /\ IsSystem(m)
    BY <2>2 DEF Uttered, ChatMsgs, IsSystem
  <2>4. ChatOK(Append(<<>>, m), <<>>)
    BY <2>2, <2>3, EmptyOK, UtteredOK
  <2>5. Append(<<>>, m) = <<m>>
    OBVIOUS
  <2>6. TalkOf(<<m>>) = <<>>
    BY <2>3, ChatOne DEF TalkOfOne
  <2>7. SpokenInChat(<<m>>) = SaidInChat(m) /\ SystemOf(<<m>>) = TextOf(m.parts)
    BY <2>3, ChatOne
  <2>8. SaidInChat(m) = SaidIn("system", <<Text(prompt)>>)
    BY <2>2, ChatBlocksAre DEF SaidInChat, Speaker
  <2>9. SaidIn("system", <<Text(prompt)>>) = TextAtoms("system", prompt)
    BY OptionalSaid DEF Roles
  <2>10. TextOf(<<Text(prompt)>>) = prompt
    BY TextBlock, TextOfTexts, JoinedOne
  <2> QED BY <1>0, <1>p, <2>1, <2>2, <2>4, <2>5, <2>6, <2>7, <2>8, <2>9, <2>10 DEF Translated
<1> QED BY <1>1, <1>2

ToChatFn == [m \in Talked |-> MessageToChat(m)]

\* A translated request: the prompt, and each turn's messages.
LEMMA RequestIs ==
  ASSUME NEW prompt, NEW T \in Seq(Talked)
  PROVE  /\ RequestToChat(prompt, T) = Prompt(prompt) \o Spread(T, ToChatFn)
         /\ ToChatFn \in [Talked -> Seq(ChatMsgs)]
         /\ Spread(T, ToChatFn) \in Seq(ChatMsgs)
<1>1. \A i \in DOMAIN T : MessageToChat(T[i]) = ToChatFn[T[i]]
  BY ElementOfSeq DEF ToChatFn
<1>2. [i \in DOMAIN T |-> MessageToChat(T[i])] = MapSeq(T, ToChatFn)
  BY <1>1 DEF MapSeq
<1>3. ToChatFn \in [Talked -> Seq(ChatMsgs)]
  BY MessageIs DEF ToChatFn
<1>4. Spread(T, ToChatFn) \in Seq(ChatMsgs)
  BY <1>3, SpreadType
<1> QED BY <1>2, <1>3, <1>4 DEF RequestToChat, Prompt, Spread

LEMMA PairedEmpty == Paired(<<>>)
BY EmptyTurns DEF WellTurned

\* A request whose results are answers is translated.
LEMMA RequestTranslated ==
  ASSUME NEW prompt \in Seq(Nat), NEW T \in Seq(Talked), Paired(T)
  PROVE  Translated(RequestToChat(prompt, T), prompt, T)
<1> DEFINE P == {U \in Seq(Talked) : Paired(U) => Translated(RequestToChat(prompt, U), prompt, U)}
<1>1. <<>> \in P
  <2>1. <<>> \in Seq(Talked)
    BY EmptyTurns
  <2>2. RequestToChat(prompt, <<>>) = Prompt(prompt) \o <<>>
    BY <2>1, RequestIs, SpreadEmpty
  <2>3. Translated(Prompt(prompt), prompt, <<>>)
    BY PromptIs
  <2>4. Prompt(prompt) \in Seq(ChatMsgs)
    BY <2>3 DEF Translated, ChatOK
  <2>5. Prompt(prompt) \o <<>> = Prompt(prompt)
    BY <2>4, Concats
  <2> QED BY <2>1, <2>2, <2>3, <2>5
<1>2. ASSUME NEW U \in Seq(Talked), NEW m \in Talked, U \in P PROVE Append(U, m) \in P
  <2>0. Append(U, m) \in Seq(Talked)
    BY AppendProperties
  <2> SUFFICES ASSUME Paired(Append(U, m)) PROVE Translated(RequestToChat(prompt, Append(U, m)), prompt, Append(U, m))
    BY <2>0
  <2>1. Paired(U) /\ Answer(Due(U), Results(m.content))
    BY PairedAppend
  <2>2. Translated(RequestToChat(prompt, U), prompt, U)
    BY <1>2, <2>1
  <2> DEFINE p == Prompt(prompt)
             s == Spread(U, ToChatFn)
             x == MessageToChat(m)
  <2>3. RequestToChat(prompt, U) = p \o s /\ s \in Seq(ChatMsgs) /\ ToChatFn \in [Talked -> Seq(ChatMsgs)]
    BY RequestIs
  <2>4. ToChatFn[m] = x
    BY DEF ToChatFn
  <2>5. Spread(Append(U, m), ToChatFn) = s \o x
    BY <2>3, <2>4, SpreadAppend
  <2>6. RequestToChat(prompt, Append(U, m)) = p \o (s \o x)
    BY <2>0, <2>5, RequestIs
  <2>7. p \in Seq(ChatMsgs)
    BY PromptIs DEF Translated, ChatOK
  <2>8. x \in Seq(ChatMsgs)
    BY MessageIs
  <2>9. p \o (s \o x) = (p \o s) \o x
    <3>1. p \in Seq(ChatMsgs) /\ s \in Seq(ChatMsgs) /\ x \in Seq(ChatMsgs)
      BY <2>3, <2>7, <2>8
    <3> HIDE DEF p, s, x
    <3>2. Associate(p, s, x)
      BY <3>1, Associates
    <3> QED BY <3>2 DEF Associate
  <2>10. Translated(RequestToChat(prompt, U) \o x, prompt, Append(U, m))
    BY <2>1, <2>2, TranslatedMore
  <2> QED BY <2>3, <2>6, <2>9, <2>10
<1> HIDE DEF P
<1>3. Seq(Talked) \subseteq P
  BY <1>1, <1>2, SeqInduct
<1> QED BY <1>3 DEF P

-----------------------------------------------------------------------------
(* What is heard of what is said.                                          *)

AtomsBy(role) == {role} \X BlockTypes \X IdsOf
HearFn(roles) == [a \in AtomSet |-> IF a[1] \in roles /\ a[3] # 0 THEN <<a>> ELSE <<>>]
Talkers == {"user", "assistant"}

\* What is heard of what was said, as a spreading.
LEMMA HeardIs ==
  ASSUME NEW roles, NEW s \in Seq(AtomSet)
  PROVE  /\ Heard(s, roles) = Spread(s, HearFn(roles))
         /\ HearFn(roles) \in [AtomSet -> Seq(AtomSet)]
         /\ Heard(s, roles) \in Seq(AtomSet)
<1>1. \A i \in DOMAIN s : HearFn(roles)[s[i]] = IF s[i][1] \in roles /\ s[i][3] # 0 THEN <<s[i]>> ELSE <<>>
  BY ElementOfSeq DEF HearFn
<1>2. MapSeq(s, HearFn(roles)) = [i \in DOMAIN s |-> IF s[i][1] \in roles /\ s[i][3] # 0 THEN <<s[i]>> ELSE <<>>]
  BY <1>1 DEF MapSeq
<1>3. HearFn(roles) \in [AtomSet -> Seq(AtomSet)]
  <2>1. ASSUME NEW a \in AtomSet PROVE (IF a[1] \in roles /\ a[3] # 0 THEN <<a>> ELSE <<>>) \in Seq(AtomSet)
    <3>1. <<a>> \in Seq(AtomSet) /\ <<>> \in Seq(AtomSet)
      <4> HIDE DEF AtomSet
      <4> QED OBVIOUS
    <3> QED BY <3>1
  <2> QED BY <2>1 DEF HearFn
<1>4. Spread(s, HearFn(roles)) \in Seq(AtomSet)
  BY <1>3, SpreadType
<1> QED BY <1>2, <1>3, <1>4 DEF Heard, Spread

\* Of what is said one after the other is heard one after the other.
LEMMA HeardConcat ==
  ASSUME NEW roles, NEW s \in Seq(AtomSet), NEW t \in Seq(AtomSet)
  PROVE  Heard(s \o t, roles) = Heard(s, roles) \o Heard(t, roles)
<1>1. s \o t \in Seq(AtomSet)
  BY Concats
<1>2. Spread(s \o t, HearFn(roles)) = Spread(s, HearFn(roles)) \o Spread(t, HearFn(roles))
  <2>1. HearFn(roles) \in [AtomSet -> Seq(AtomSet)]
    BY HeardIs
  <2> QED BY <2>1, SpreadConcat
<1> QED BY <1>1, <1>2, HeardIs

LEMMA HeardEmpty == ASSUME NEW roles PROVE Heard(<<>>, roles) = <<>>
<1>1. <<>> \in Seq(AtomSet)
  BY EmptySeq
<1> QED BY <1>1, HeardIs, SpreadEmpty

LEMMA AtomsByOf == ASSUME NEW role \in Roles PROVE AtomsBy(role) \subseteq AtomSet
BY DEF AtomsBy, AtomSet

\* Those who listen to others hear nothing of it.
LEMMA Unheard ==
  ASSUME NEW role \in Roles, NEW roles, role \notin roles, NEW s \in Seq(AtomsBy(role))
  PROVE  Heard(s, roles) = <<>> /\ s \in Seq(AtomSet)
<1> DEFINE f == [a \in AtomsBy(role) |-> <<>>]
<1>1. AtomsBy(role) \subseteq AtomSet
  BY AtomsByOf
<1>2. s \in Seq(AtomSet)
  BY <1>1, ElementOfSeq, SeqDef
<1>3. ASSUME NEW a \in AtomsBy(role) PROVE HearFn(roles)[a] = f[a]
  <2>1. a[1] = role /\ a \in AtomSet
    BY <1>1 DEF AtomsBy
  <2> QED BY <2>1 DEF HearFn
<1>4. f \in [AtomsBy(role) -> {<<>>}]
  OBVIOUS
<1> HIDE DEF f
<1>5. Spread(s, HearFn(roles)) = Spread(s, f)
  BY <1>3, SpreadAgree
<1>6. Spread(s, f) = <<>>
  BY <1>4, SpreadNothing
<1> QED BY <1>2, <1>5, <1>6, HeardIs

\* What a role's content says, the role says.
LEMMA SaidBy ==
  ASSUME NEW role \in Roles, NEW s \in Seq(Blocks) PROVE SaidIn(role, s) \in Seq(AtomsBy(role))
<1>1. AtomsOf(role) \in [Blocks -> Seq(AtomsBy(role))]
  <2>1. ASSUME NEW b \in Blocks PROVE Atoms(role, b) \in Seq(AtomsBy(role))
    <3>1. b.type \in BlockTypes /\ b.text \in Seq(Nat) /\ b.id \in IdsOf
      BY DEF Blocks, BlocksOfTypes
    <3>2. CASE b.type = "text"
      <4> DEFINE t == b.text
      <4>1. t \in Seq(Nat) /\ DOMAIN t = 1..Len(t) /\ Len(t) \in Nat
        BY <3>1, LenProperties
      <4>2. \A i \in 1..Len(t) : <<role, "text", t[i]>> \in AtomsBy(role)
        BY <4>1, ElementOfSeq DEF AtomsBy, BlockTypes, IdsOf
      <4>3. Atoms(role, b) = [i \in 1..Len(t) |-> <<role, "text", t[i]>>]
        BY <3>2, <4>1 DEF Atoms
      <4> HIDE DEF t
      <4> QED BY <4>1, <4>2, <4>3
    <3>3. CASE b.type # "text"
      <4>1. <<role, b.type, b.id>> \in AtomsBy(role)
        BY <3>1 DEF AtomsBy
      <4>2. << <<role, b.type, b.id>> >> \in Seq(AtomsBy(role)) /\ <<>> \in Seq(AtomsBy(role))
        BY <4>1
      <4> QED BY <3>3, <4>2 DEF Atoms
    <3> QED BY <3>2, <3>3
  <2> QED BY <2>1 DEF AtomsOf
<1> DEFINE r == OfType(s, {"tool_result"})
           p == OfType(s, {"text", "image"})
           c == OfType(s, {"tool_use"})
<1>2. r \in Seq(Blocks) /\ p \in Seq(Blocks) /\ c \in Seq(Blocks)
  BY OfTypeType, SortsOfTypes
<1> HIDE DEF r, p, c
<1> DEFINE A == Seq(AtomsBy(role))
<1>3. Spread(r, AtomsOf(role)) \in A /\ Spread(p, AtomsOf(role)) \in A /\ Spread(c, AtomsOf(role)) \in A
  BY <1>1, <1>2, SpreadType
<1>4. ResultAtoms(role, s) \in A /\ PartAtoms(role, s) \in A /\ CallAtoms(role, s) \in A
  BY <1>3 DEF ResultAtoms, PartAtoms, CallAtoms, r, p, c
<1>5. (ResultAtoms(role, s) \o PartAtoms(role, s)) \o CallAtoms(role, s) \in A
  BY <1>4, Concats
<1> QED BY <1>5, SaidIs

LEMMA TextAtomsBy ==
  ASSUME NEW role \in Roles, NEW text \in Seq(Nat)
  PROVE  TextAtoms(role, text) \in Seq(AtomsBy(role))
<1>1. Optional(text) \in Seq(Blocks)
  BY TextBlock, KindsOf
<1> QED BY <1>1, SaidBy, OptionalSaid

\* Two texts say what each says.
LEMMA TextAtomsConcat ==
  ASSUME NEW role \in Roles, NEW s \in Seq(Nat), NEW t \in Seq(Nat)
  PROVE  TextAtoms(role, s \o t) = TextAtoms(role, s) \o TextAtoms(role, t)
<1>1. s \o t \in Seq(Nat)
  BY Concats
<1>2. PieceAtom(role) \in [Nat -> AtomSet]
  BY TextAtomsIs
<1>3. MapSeq(s \o t, PieceAtom(role)) = MapSeq(s, PieceAtom(role)) \o MapSeq(t, PieceAtom(role))
  BY <1>2, MappedConcat
<1> QED BY <1>1, <1>3, TextAtomsIs

\* Turns have no system prompt.
LEMMA TurnsUnheard ==
  ASSUME NEW T \in Seq(Talked) PROVE Heard(SpokenTurns(T), {"system"}) = <<>>
<1> DEFINE P == {U \in Seq(Talked) : Heard(SpokenTurns(U), {"system"}) = <<>>}
<1>1. <<>> \in P
  BY EmptyTurns, HeardEmpty
<1>2. ASSUME NEW U \in Seq(Talked), NEW m \in Talked, U \in P PROVE Append(U, m) \in P
  <2>1. SpokenTurns(Append(U, m)) = SpokenTurns(U) \o SaidIn(m.role, m.content)
    BY SpokenTurnsAppend
  <2>2. SpokenTurns(U) \in Seq(AtomSet)
    BY SpokenTurnsIs
  <2>3. m.role \in Roles /\ m.content \in Seq(Blocks) /\ m.role \notin {"system"}
    BY TurnFacts
  <2>4. Heard(SaidIn(m.role, m.content), {"system"}) = <<>> /\ SaidIn(m.role, m.content) \in Seq(AtomSet)
    BY <2>3, SaidBy, Unheard
  <2>5. Heard(SpokenTurns(U), {"system"}) = <<>>
    BY <1>2
  <2>6. Heard(SpokenTurns(Append(U, m)), {"system"}) = <<>> \o <<>>
    BY <2>1, <2>2, <2>4, <2>5, HeardConcat
  <2>7. Append(U, m) \in Seq(Talked)
    BY AppendProperties
  <2> QED BY <2>6, <2>7, Concats
<1> HIDE DEF P
<1>3. Seq(Talked) \subseteq P
  BY <1>1, <1>2, SeqInduct
<1> QED BY <1>3 DEF P

\* What one chat message says, to each kind of listener.
LEMMA SaidOfOne ==
  ASSUME NEW m \in ChatMsgs
  PROVE  /\ Heard(SaidInChat(m), {"system"})
              = Heard(TextAtoms("system", IF IsSystem(m) THEN TextOf(m.parts) ELSE <<>>), {"system"})
         /\ Heard(SaidInChat(m), Talkers) = Heard(TalkOfOne(m), Talkers)
<1>0. ChatBlocks(m) \in Seq(Blocks) /\ Speaker(m) \in Roles
  BY ChatBlocksType
<1>1. CASE IsSystem(m)
  <2>1. m \in SystemMsgs
    BY <1>1, RoleFacts DEF ChatMsgs, Uttered, IsSystem
  <2>2. m.role = "system" /\ m.parts \in Seq(TextBlocks) /\ ChatBlocks(m) = m.parts /\ Speaker(m) = "system"
    BY <2>1, RoleFacts, ChatBlocksAre DEF Speaker
  <2>3. SaidInChat(m) = Spread(m.parts, AtomsOf("system"))
    BY <2>2, KindsOf, PartsSaid DEF SaidInChat, Roles
  <2>4. SaidInChat(m) = TextAtoms("system", TextOf(m.parts))
    BY <2>2, <2>3, TextsSaid, TextOfTexts DEF Roles
  <2>5. Heard(SaidInChat(m), Talkers) = <<>>
    <3>1. SaidInChat(m) \in Seq(AtomsBy("system"))
      BY <1>0, <2>2, SaidBy DEF SaidInChat
    <3>2. "system" \in Roles /\ "system" \notin Talkers
      BY DEF Roles, Talkers
    <3> QED BY <3>1, <3>2, Unheard
  <2>6. TalkOfOne(m) = <<>>
    BY <1>1 DEF TalkOfOne
  <2> QED BY <1>1, <2>4, <2>5, <2>6, HeardEmpty
<1>2. CASE ~IsSystem(m)
  <2>1. Speaker(m) # "system"
    BY <1>2 DEF IsSystem, Speaker
  <2>2. SaidInChat(m) \in Seq(AtomsBy(Speaker(m)))
    BY <1>0, SaidBy DEF SaidInChat
  <2>3. Heard(SaidInChat(m), {"system"}) = <<>>
    BY <1>0, <2>1, <2>2, Unheard
  <2>4. TextAtoms("system", <<>>) = <<>>
    BY TextAtomsEmpty
  <2>5. TalkOfOne(m) = SaidInChat(m)
    BY <1>2 DEF TalkOfOne
  <2> QED BY <1>2, <2>3, <2>4, <2>5, HeardEmpty
<1> QED BY <1>1, <1>2

\* Of a chat, the system prompts are what SystemOf finds, and the rest is its talk.
LEMMA ChatHeard ==
  ASSUME NEW chat \in Seq(ChatMsgs)
  PROVE  /\ Heard(SpokenInChat(chat), {"system"}) = Heard(TextAtoms("system", SystemOf(chat)), {"system"})
         /\ Heard(SpokenInChat(chat), Talkers) = Heard(TalkOf(chat), Talkers)
<1> DEFINE Q(c) == /\ Heard(SpokenInChat(c), {"system"}) = Heard(TextAtoms("system", SystemOf(c)), {"system"})
                   /\ Heard(SpokenInChat(c), Talkers) = Heard(TalkOf(c), Talkers)
           P == {c \in Seq(ChatMsgs) : Q(c)}
<1>1. <<>> \in P
  <2>1. TextAtoms("system", <<>>) = <<>>
    BY TextAtomsEmpty
  <2> QED BY <2>1, ChatEmpty
<1>2. ASSUME NEW c \in Seq(ChatMsgs), NEW m \in ChatMsgs, c \in P PROVE Append(c, m) \in P
  <2> DEFINE d == IF IsSystem(m) THEN TextOf(m.parts) ELSE <<>>
  <2>1. /\ TalkOf(Append(c, m)) = TalkOf(c) \o TalkOfOne(m)
        /\ SpokenInChat(Append(c, m)) = SpokenInChat(c) \o SaidInChat(m)
        /\ SystemOf(Append(c, m)) = SystemOf(c) \o d
    BY ChatAppend
  <2>2. TalkOf(c) \in Seq(AtomSet) /\ SpokenInChat(c) \in Seq(AtomSet) /\ SystemOf(c) \in Seq(Nat)
    BY ChatSpreads
  <2>3. SaidInChat(m) \in Seq(AtomSet) /\ TalkOfOne(m) \in Seq(AtomSet)
    BY ChatBlocksType
  <2>4. d \in Seq(Nat)
    <3>1. SystemOf(<<m>>) = d /\ <<m>> \in Seq(ChatMsgs)
      BY ChatOne
    <3> QED BY <3>1, ChatSpreads
  <2> HIDE DEF d
  <2>5. TextAtoms("system", SystemOf(c) \o d) = TextAtoms("system", SystemOf(c)) \o TextAtoms("system", d)
    BY <2>2, <2>4, TextAtomsConcat DEF Roles
  <2>6. TextAtoms("system", SystemOf(c)) \in Seq(AtomSet) /\ TextAtoms("system", d) \in Seq(AtomSet)
    BY <2>2, <2>4, TextAtomsIs DEF Roles
  <2>7. Heard(SaidInChat(m), {"system"}) = Heard(TextAtoms("system", d), {"system"})
        /\ Heard(SaidInChat(m), Talkers) = Heard(TalkOfOne(m), Talkers)
    BY SaidOfOne DEF d
  <2>8. Heard(SpokenInChat(c), {"system"}) = Heard(TextAtoms("system", SystemOf(c)), {"system"})
        /\ Heard(SpokenInChat(c), Talkers) = Heard(TalkOf(c), Talkers)
    BY <1>2
  <2>9. /\ Heard(SpokenInChat(c) \o SaidInChat(m), {"system"}) = Heard(SpokenInChat(c), {"system"}) \o Heard(SaidInChat(m), {"system"})
        /\ Heard(SpokenInChat(c) \o SaidInChat(m), Talkers) = Heard(SpokenInChat(c), Talkers) \o Heard(SaidInChat(m), Talkers)
        /\ Heard(TalkOf(c) \o TalkOfOne(m), Talkers) = Heard(TalkOf(c), Talkers) \o Heard(TalkOfOne(m), Talkers)
    BY <2>2, <2>3, HeardConcat
  <2>10. Heard(TextAtoms("system", SystemOf(c)) \o TextAtoms("system", d), {"system"})
           = Heard(TextAtoms("system", SystemOf(c)), {"system"}) \o Heard(TextAtoms("system", d), {"system"})
    BY <2>6, HeardConcat
  <2>11. Append(c, m) \in Seq(ChatMsgs)
    BY AppendProperties
  <2>12. Q(Append(c, m))
    BY <2>1, <2>5, <2>7, <2>8, <2>9, <2>10
  <2> QED BY <2>11, <2>12
<1> HIDE DEF P
<1>3. Seq(ChatMsgs) \subseteq P
  BY <1>1, <1>2, SeqInduct
<1> QED BY <1>3 DEF P

-----------------------------------------------------------------------------
(* A conversation that has begun.                                          *)

\* The turn that is put first: a user's, with nothing to answer.
LEMMA PlaceholderIs ==
  /\ Placeholder \in Turned /\ Placeholder.role = "user" /\ Placeholder.content # <<>>
  /\ Calls(Placeholder.content) = <<>> /\ Results(Placeholder.content) = <<>>
  /\ SaidIn("user", Placeholder.content) = << <<"user", "text", 0>> >>
<1>0. <<0>> \in Seq(Nat)
  OBVIOUS
<1>1. Placeholder.role = "user" /\ Placeholder.content = <<Text(<<0>>)>> /\ Placeholder.plain = FALSE
  BY DEF Placeholder, Message
<1>2. Placeholder = Message("user", <<Text(<<0>>)>>)
  BY DEF Placeholder
<1>3. <<Text(<<0>>)>> \in Seq(TextBlocks) /\ <<Text(<<0>>)>> \in Seq(UserBlocks) /\ <<Text(<<0>>)>> \in Seq(PartBlocks)
  BY <1>0, TextBlock, KindsOf
<1>4. Placeholder \in Turned
  BY <1>2, <1>3, NewTurn DEF BlocksFor
<1>5. Calls(<<Text(<<0>>)>>) = <<>> /\ Results(<<Text(<<0>>)>>) = <<>>
  BY <1>3, NothingPicked
<1>6. SaidIn("user", <<Text(<<0>>)>>) = TextAtoms("user", <<0>>)
  BY <1>0, OptionalSaid DEF Roles
<1>7. TextAtoms("user", <<0>>) = << <<"user", "text", 0>> >>
  BY DEF TextAtoms
<1> QED BY <1>1, <1>4, <1>5, <1>6, <1>7

\* With a turn before it, a conversation that began with the assistant begins well.
LEMMA PlaceholderBefore ==
  ASSUME NEW T \in Seq(Turned), WellTurned(T), T # <<>> => T[1].role # "user"
  PROVE  LET B == <<Placeholder>> \o T
         IN  /\ B \in Seq(Turned) /\ WellTurned(B) /\ Due(B) = Due(T) /\ B # <<>> /\ B[1].role = "user"
             /\ SpokenTurns(B) = << <<"user", "text", 0>> >> \o SpokenTurns(T)
<1> DEFINE p == Placeholder
           B == <<p>> \o T
           c == p.content
<1>1. p \in Turned /\ p.role = "user" /\ c # <<>> /\ Calls(c) = <<>> /\ Results(c) = <<>>
      /\ SaidIn("user", c) = << <<"user", "text", 0>> >>
  BY PlaceholderIs
<1> HIDE DEF p
<1>2. <<p>> \in Seq(Turned) /\ <<p>> \in Seq(Talked) /\ T \in Seq(Talked)
  <2>1. <<p>> \in Seq(Turned)
    BY <1>1
  <2> QED BY <2>1, TurnedTalked
<1>3. /\ B \in Seq(Turned) /\ Len(B) = Len(T) + 1 /\ Len(T) \in Nat /\ B[1] = p
      /\ \A i \in 1..Len(T) : B[i + 1] = T[i]
  <2>1. B \in Seq(Turned)
    BY <1>2, Concats
  <2>2. Len(<<p>>) = 1 /\ <<p>>[1] = p
    OBVIOUS
  <2>3. Len(B) = Len(<<p>>) + Len(T) /\ \A i \in 1..Len(<<p>>) + Len(T) : B[i] = IF i <= Len(<<p>>) THEN <<p>>[i] ELSE T[i - Len(<<p>>)]
    BY <1>2, ConcatProperties
  <2>4. Len(T) \in Nat
    BY LenProperties
  <2> HIDE DEF B
  <2>5. \A i \in 1..(1 + Len(T)) : B[i] = IF i <= 1 THEN p ELSE T[i - 1]
    BY <2>2, <2>3
  <2>6. B[1] = p
    BY <2>4, <2>5
  <2>7. ASSUME NEW i \in 1..Len(T) PROVE B[i + 1] = T[i]
    <3>1. i + 1 \in 1..(1 + Len(T)) /\ ~(i + 1 <= 1) /\ (i + 1) - 1 = i
      BY <2>4
    <3> QED BY <2>5, <3>1
  <2> QED BY <2>1, <2>2, <2>3, <2>4, <2>6, <2>7
<1> HIDE DEF B
<1>4. B # <<>>
  BY <1>3, EmptySeq
<1>5. Paired(T) /\ \A i \in 1..Len(T) : Placed(T, i)
  BY DEF WellTurned
<1>6. ASSUME NEW i \in 1..Len(B) PROVE Answered(B, i) /\ Placed(B, i)
  <2>1. CASE i = 1
    <3>1. ResultsFirst(c)
      BY <1>1 DEF ResultsFirst
    <3> QED BY <1>1, <1>3, <2>1, <3>1 DEF Answered, Placed
  <2>2. CASE i = 2
    <3>1. 1 \in 1..Len(T) /\ T # <<>>
      BY <1>3, <2>2, EmptySeq
    <3>2. B[2] = T[1] /\ B[1] = p
      <4>1. 1 + 1 = 2
        OBVIOUS
      <4> QED BY <1>3, <3>1, <4>1
    <3>3. Results(T[1].content) = <<>> /\ T[1].content # <<>> /\ ResultsFirst(T[1].content)
      BY <1>5, <3>1 DEF Paired, Answered, Placed
    <3>4. Answer(<<>>, <<>>)
      BY AnswerEmpty, EmptySeq
    <3> QED BY <1>1, <2>2, <3>1, <3>2, <3>3, <3>4 DEF Answered, Placed
  <2>3. CASE i # 1 /\ i # 2
    <3> DEFINE j == i - 1
    <3>1. j \in 1..Len(T) /\ j # 1 /\ j + 1 = i /\ j - 1 \in 1..Len(T) /\ (j - 1) + 1 = i - 1 /\ j > 1 /\ i > 1
      BY <1>3, <2>3
    <3>2. B[i] = T[j] /\ B[i - 1] = T[j - 1]
      <4> HIDE DEF j
      <4>1. B[j + 1] = T[j]
        BY <1>3, <3>1
      <4>2. B[(j - 1) + 1] = T[j - 1]
        BY <1>3, <3>1
      <4> QED BY <3>1, <4>1, <4>2
    <3>3. Answered(T, j) /\ Placed(T, j)
      BY <1>5, <3>1 DEF Paired
    <3> HIDE DEF j
    <3> QED BY <2>3, <3>1, <3>2, <3>3 DEF Answered, Placed
  <2> QED BY <2>1, <2>2, <2>3
<1>7. WellTurned(B)
  BY <1>6 DEF WellTurned, Paired
<1>8. Due(B) = Due(T)
  <2>1. CASE T = <<>>
    <3>1. Len(B) = 1
      BY <1>3, <2>1, EmptySeq
    <3>2. Last(B) = p
      BY <1>3, <1>4, <3>1, LastIs
    <3> QED BY <1>1, <1>4, <2>1, <3>2 DEF Due
  <2>2. CASE T # <<>>
    <3>1. Last(T) = T[Len(T)] /\ Len(T) \in Nat \ {0} /\ Last(B) = B[Len(B)]
      BY <1>3, <1>4, <2>2, LastIs
    <3>2. Len(T) \in 1..Len(T) /\ Len(B) = Len(T) + 1
      BY <1>3, <3>1
    <3>3. B[Len(T) + 1] = T[Len(T)]
      BY <1>3, <3>2
    <3> QED BY <1>4, <2>2, <3>1, <3>2, <3>3 DEF Due
  <2> QED BY <2>1, <2>2
<1>9. SpokenTurns(B) = << <<"user", "text", 0>> >> \o SpokenTurns(T)
  <2>0. p \in Talked /\ B \in Seq(Talked)
    BY <1>1, <1>3, TurnedTalked
  <2>1. SpokenTurns(B) = Spread(B, SaidOf) /\ SaidOf \in [Talked -> Seq(AtomSet)]
    BY <2>0, SpokenTurnsIs
  <2>2. SpokenTurns(T) = Spread(T, SaidOf)
    BY <1>2, SpokenTurnsIs
  <2>3. Spread(<<p>> \o T, SaidOf) = Spread(<<p>>, SaidOf) \o Spread(T, SaidOf)
    BY <1>2, <2>1, SpreadConcat
  <2>4. Spread(<<p>>, SaidOf) = SaidOf[p]
    BY <2>0, <2>1, SpreadOne
  <2>5. SaidOf[p] = SaidIn(p.role, p.content)
    BY <2>0 DEF SaidOf
  <2> QED BY <1>1, <2>1, <2>2, <2>3, <2>4, <2>5 DEF B
<1> QED BY <1>1, <1>3, <1>4, <1>7, <1>8, <1>9 DEF B, p

\* With the placeholder, if need be, the user begins; nothing else is heard.
LEMMA BegunIs ==
  ASSUME NEW T \in Seq(Turned), WellTurned(T)
  PROVE  /\ Begun(T) \in Seq(Turned) /\ WellTurned(Begun(T)) /\ Due(Begun(T)) = Due(T)
         /\ Begun(T) # <<>> /\ Begun(T)[1].role = "user"
         /\ \A roles \in { {"system"}, Talkers } : Heard(SpokenTurns(Begun(T)), roles) = Heard(SpokenTurns(T), roles)
<1>0. T # <<>> => Head(T) = T[1]
  BY HeadTailProperties
<1>1. CASE T = <<>> \/ T[1].role # "user"
  <2> DEFINE B == <<Placeholder>> \o T
  <2>1. Begun(T) = B
    BY <1>0, <1>1 DEF Begun
  <2>2. /\ B \in Seq(Turned) /\ WellTurned(B) /\ Due(B) = Due(T) /\ B # <<>> /\ B[1].role = "user"
        /\ SpokenTurns(B) = << <<"user", "text", 0>> >> \o SpokenTurns(T)
    BY <1>1, PlaceholderBefore
  <2> DEFINE a == <<"user", "text", 0>>
  <2>3. a \in AtomSet /\ a[3] = 0
    BY DEF AtomSet, Roles, BlockTypes, IdsOf
  <2> HIDE DEF a, B
  <2>4. <<a>> \in Seq(AtomSet)
    BY <2>3
  <2>5. SpokenTurns(T) \in Seq(AtomSet)
    BY TurnedTalked, SpokenTurnsIs
  <2>6. ASSUME NEW roles PROVE Heard(SpokenTurns(B), roles) = Heard(SpokenTurns(T), roles)
    <3>1. HearFn(roles)[a] = <<>>
      BY <2>3 DEF HearFn
    <3>2. HearFn(roles) \in [AtomSet -> Seq(AtomSet)] /\ Heard(<<a>>, roles) = Spread(<<a>>, HearFn(roles))
      BY <2>4, HeardIs
    <3>3. Heard(<<a>>, roles) = <<>>
      BY <2>3, <3>1, <3>2, SpreadOne
    <3>4. Heard(<<a>> \o SpokenTurns(T), roles) = Heard(<<a>>, roles) \o Heard(SpokenTurns(T), roles)
      BY <2>4, <2>5, HeardConcat
    <3>5. Heard(SpokenTurns(T), roles) \in Seq(AtomSet)
      BY <2>5, HeardIs
    <3>6. <<>> \o Heard(SpokenTurns(T), roles) = Heard(SpokenTurns(T), roles)
      BY <3>5, Concats
    <3> QED BY <2>2, <3>3, <3>4, <3>6 DEF a
  <2> QED BY <2>1, <2>2, <2>6
<1>2. CASE T # <<>> /\ T[1].role = "user"
  <2>1. Begun(T) = T
    BY <1>0, <1>2 DEF Begun
  <2> QED BY <1>2, <2>1
<1> QED BY <1>1, <1>2

-----------------------------------------------------------------------------
(* A well-formed conversation, in the words of the property.               *)

TurnsTaken(turns) ==
  \A i \in DOMAIN turns : turns[i].role = (IF i % 2 = 1 THEN "user" ELSE "assistant")

\* Well made turns alternate.
LEMMA TakeTurns ==
  ASSUME NEW T \in Seq(Turned), WellTurned(T), T # <<>>, T[1].role = "user"
  PROVE  TurnsTaken(T)
<1>0. Len(T) \in Nat /\ DOMAIN T = 1..Len(T)
  BY LenProperties
<1>r. \A i \in 1..Len(T) : T[i].role \in {"user", "assistant"}
  BY ElementOfSeq, TurnFacts, TurnedTalked
<1> DEFINE P == {n \in Nat : n + 1 <= Len(T) => T[n + 1].role = (IF (n + 1) % 2 = 1 THEN "user" ELSE "assistant")}
<1>1. 0 \in P
  OBVIOUS
<1>2. ASSUME NEW n \in Nat, n \in P PROVE n + 1 \in P
  <2> SUFFICES ASSUME (n + 1) + 1 <= Len(T) PROVE T[(n + 1) + 1].role = (IF ((n + 1) + 1) % 2 = 1 THEN "user" ELSE "assistant")
    OBVIOUS
  <2>1. (n + 1) + 1 \in 1..Len(T) /\ n + 1 \in 1..Len(T) /\ (n + 1) + 1 > 1 /\ ((n + 1) + 1) - 1 = n + 1 /\ n + 1 <= Len(T)
    BY <1>0
  <2>2. Placed(T, (n + 1) + 1)
    BY <2>1 DEF WellTurned
  <2>3. T[(n + 1) + 1].role # T[n + 1].role
    BY <2>1, <2>2 DEF Placed
  <2>4. T[n + 1].role = (IF (n + 1) % 2 = 1 THEN "user" ELSE "assistant")
    BY <1>2, <2>1
  <2>5. ((n + 1) + 1) % 2 = 1 <=> (n + 1) % 2 # 1
    OBVIOUS
  <2>6. T[(n + 1) + 1].role \in {"user", "assistant"} /\ T[n + 1].role \in {"user", "assistant"}
    BY <1>r, <2>1
  <2> QED BY <2>3, <2>4, <2>5, <2>6
<1> HIDE DEF P
<1>3. Nat \subseteq P
  BY <1>1, <1>2, NatInduct
<1>4. ASSUME NEW i \in 1..Len(T) PROVE T[i].role = (IF i % 2 = 1 THEN "user" ELSE "assistant")
  <2>1. i - 1 \in Nat /\ (i - 1) + 1 = i /\ i <= Len(T)
    BY <1>0
  <2>2. i - 1 \in P
    BY <1>3, <2>1
  <2>3. (i - 1) + 1 <= Len(T) => T[(i - 1) + 1].role = (IF ((i - 1) + 1) % 2 = 1 THEN "user" ELSE "assistant")
    BY <2>2 DEF P
  <2> QED BY <2>1, <2>3
<1> QED BY <1>0, <1>4 DEF TurnsTaken

\* A sequence has no more elements than places.
LEMMA SetOfSeq ==
  ASSUME NEW S, NEW s \in Seq(S)
  PROVE  IsFiniteSet(ToSet(s)) /\ Cardinality(ToSet(s)) \in Nat /\ Cardinality(ToSet(s)) <= Len(s)
<1>0. Len(s) \in Nat /\ DOMAIN s = 1..Len(s)
  BY LenProperties
<1>1. IsFiniteSet(1..Len(s)) /\ Cardinality(1..Len(s)) = Len(s)
  <2> DEFINE n == Len(s)
  <2>1. n \in Int /\ 1 \in Int
    BY <1>0
  <2>2. IsFiniteSet(1..n) /\ Cardinality(1..n) = IF 1 > n THEN 0 ELSE n - 1 + 1
    <3> HIDE DEF n
    <3> QED BY <2>1, FS_Interval
  <2> QED BY <1>0, <2>2
<1>2. s \in Surjection(1..Len(s), ToSet(s))
  BY <1>0 DEF Surjection, ToSet
<1>3. IsFiniteSet(ToSet(s)) /\ Cardinality(ToSet(s)) <= Cardinality(1..Len(s))
  BY <1>1, <1>2, FS_Surjection
<1>4. Cardinality(ToSet(s)) \in Nat
  BY <1>3, FS_CardinalityType
<1> QED BY <1>1, <1>3, <1>4

WellMade(turns, i) ==
  LET Asked == IF i = 1 THEN {} ELSE CallsIn(turns[i - 1])
  IN  /\ turns[i].content # <<>>
      /\ ResultsIn(turns[i]) = Asked
      /\ \A k \in 1..Cardinality(Asked) : turns[i].content[k].type = "tool_result"

\* A well made turn has its results first, one for each call of the turn before.
LEMMA TurnsWellMade ==
  ASSUME NEW T \in Seq(Turned), WellTurned(T), NEW i \in 1..Len(T)
  PROVE  WellMade(T, i)
<1>0. Len(T) \in Nat
  BY LenProperties
<1>1. Placed(T, i) /\ Answered(T, i)
  BY DEF WellTurned, Paired
<1>2. T[i] \in Talked
  BY ElementOfSeq, TurnedTalked
<1> DEFINE r == Results(T[i].content)
           Asked == IF i = 1 THEN {} ELSE CallsIn(T[i - 1])
<1>3. r \in Seq(IdsOf) /\ Len(r) \in Nat
  BY <1>2, TurnFacts, LenProperties
<1>4. ResultsIn(T[i]) = ToSet(r)
  BY DEF ResultsIn, Results
<1>5. Asked = ToSet(r) /\ Cardinality(ToSet(r)) \in Nat /\ Cardinality(ToSet(r)) <= Len(r)
  <2>1. Cardinality(ToSet(r)) \in Nat /\ Cardinality(ToSet(r)) <= Len(r)
    BY <1>3, SetOfSeq
  <2>2. CASE i = 1
    <3>1. r = <<>>
      BY <1>1, <2>2 DEF Answered
    <3>2. ToSet(<<>>) = {}
      BY DEF ToSet
    <3> QED BY <2>1, <2>2, <3>1, <3>2
  <2>3. CASE i # 1
    <3>1. Answer(Calls(T[i - 1].content), r)
      BY <1>1, <2>3 DEF Answered
    <3>2. CallsIn(T[i - 1]) = ToSet(Calls(T[i - 1].content))
      BY DEF CallsIn, Calls
    <3> QED BY <2>1, <2>3, <3>1, <3>2 DEF Answer
  <2> QED BY <2>2, <2>3
<1>6. \A k \in 1..Len(r) : T[i].content[k].type = "tool_result"
  BY <1>1 DEF Placed, ResultsFirst
<1>7. T[i].content # <<>>
  BY <1>1 DEF Placed
<1> HIDE DEF r
<1>8. \A k \in 1..Cardinality(Asked) : T[i].content[k].type = "tool_result"
  <2> HIDE DEF Asked
  <2>1. Cardinality(Asked) <= Len(r) /\ Cardinality(Asked) \in Nat
    BY <1>5
  <2>2. \A k \in 1..Cardinality(Asked) : k \in 1..Len(r)
    BY <1>3, <2>1
  <2> QED BY <1>6, <2>2
<1> QED BY <1>4, <1>5, <1>7, <1>8 DEF WellMade

-----------------------------------------------------------------------------
(* The invariant.                                                          *)

AnthropicSide ==
  /\ messages \in Seq(Talked) /\ Paired(messages) /\ Due(messages) = open
  /\ said = TextAtoms("system", system) \o SpokenTurns(messages)

ChatSide == system = <<>> /\ ChatOK(messages, open) /\ said = SpokenInChat(messages)

TalkInv ==
  /\ api \in {"anthropic", "chat"} /\ turn \in {"client", "server", "cut"}
  /\ system \in Seq(Nat) /\ open \in Seq(IdsOf) /\ named \in Nat \ {0}
  /\ Len(messages) <= MaxMessages /\ IsInjective(open) /\ (turn = "server" => open = <<>>)
  /\ api = "anthropic" => AnthropicSide
  /\ api = "chat" => ChatSide

\* The conversation in chat messages, wherever it is kept.
Sent == IF api = "chat" THEN messages ELSE RequestToChat(system, messages)

\* Whichever the client's API, what is sent as a chat is well made and says what was said.
LEMMA SentOK ==
  ASSUME TalkInv
  PROVE  /\ ChatOK(Sent, open) /\ SpokenInChat(Sent) = said /\ Sent \in Seq(ChatMsgs)
         /\ Anthropic.messages = Begun(Turns(Sent)) /\ Anthropic.system = SystemOf(Sent)
<1>1. Anthropic = RequestToAnthropic(Sent)
  BY DEF TalkInv, Anthropic, Sent
<1>2. Anthropic.messages = Begun(Turns(Sent)) /\ Anthropic.system = SystemOf(Sent)
  BY <1>1 DEF RequestToAnthropic
<1>3. ChatOK(Sent, open) /\ SpokenInChat(Sent) = said
  <2>1. CASE api = "chat"
    BY <2>1 DEF TalkInv, ChatSide, Sent
  <2>2. CASE api = "anthropic"
    <3>1. system \in Seq(Nat) /\ messages \in Seq(Talked) /\ Paired(messages) /\ Due(messages) = open
          /\ said = TextAtoms("system", system) \o SpokenTurns(messages)
      BY <2>2 DEF TalkInv, AnthropicSide
    <3>2. Translated(RequestToChat(system, messages), system, messages)
      BY <3>1, RequestTranslated
    <3>3. Sent = RequestToChat(system, messages)
      BY <2>2 DEF Sent
    <3> QED BY <3>1, <3>2, <3>3 DEF Translated
  <2> QED BY <2>1, <2>2 DEF TalkInv
<1> QED BY <1>2, <1>3 DEF ChatOK

\* What an Anthropic server gets.
LEMMA AnthropicIs ==
  ASSUME TalkInv
  PROVE  LET B == Anthropic.messages
         IN  /\ B \in Seq(Turned) /\ WellTurned(B) /\ Due(B) = open /\ B # <<>> /\ B[1].role = "user"
             /\ Anthropic.system \in Seq(Nat)
             /\ \A roles \in { {"system"}, Talkers } : Heard(SpokenTurns(B), roles) = Heard(TalkOf(Sent), roles)
<1> DEFINE T == Turns(Sent)
<1>1. ChatOK(Sent, open) /\ Anthropic.messages = Begun(T) /\ Anthropic.system = SystemOf(Sent) /\ Sent \in Seq(ChatMsgs)
  BY SentOK
<1>2. T \in Seq(Turned) /\ WellTurned(T) /\ Due(T) = open /\ SpokenTurns(T) = TalkOf(Sent)
  BY <1>1 DEF ChatOK
<1>3. SystemOf(Sent) \in Seq(Nat)
  BY <1>1, ChatSpreads
<1> HIDE DEF T
<1>4. /\ Begun(T) \in Seq(Turned) /\ WellTurned(Begun(T)) /\ Due(Begun(T)) = Due(T)
      /\ Begun(T) # <<>> /\ Begun(T)[1].role = "user"
      /\ \A roles \in { {"system"}, Talkers } : Heard(SpokenTurns(Begun(T)), roles) = Heard(SpokenTurns(T), roles)
  BY <1>2, BegunIs
<1> QED BY <1>1, <1>2, <1>3, <1>4

\* What a chat server gets, and what it says.
LEMMA ChatIs ==
  ASSUME TalkInv
  PROVE  /\ ChatOK(Chat, open)
         /\ SpokenInChat(Chat) = IF api = "anthropic" THEN said
                                 ELSE TextAtoms("system", Anthropic.system) \o SpokenTurns(Anthropic.messages)
<1>1. CASE api = "anthropic"
  <2>1. Chat = Sent
    BY <1>1 DEF Chat, Sent
  <2> QED BY <1>1, <2>1, SentOK
<1>2. CASE api = "chat"
  <2> DEFINE B == Anthropic.messages
             s == Anthropic.system
  <2>1. Chat = RequestToChat(s, B)
    BY <1>2 DEF Chat
  <2>2. B \in Seq(Turned) /\ WellTurned(B) /\ Due(B) = open /\ s \in Seq(Nat)
    BY AnthropicIs
  <2> HIDE DEF B, s
  <2>3. B \in Seq(Talked) /\ Paired(B)
    BY <2>2, TurnedTalked DEF WellTurned
  <2>4. Translated(RequestToChat(s, B), s, B)
    BY <2>2, <2>3, RequestTranslated
  <2> QED BY <1>2, <2>1, <2>2, <2>4 DEF Translated, B, s
<1> QED BY <1>1, <1>2 DEF TalkInv

LEMMA ChatDomain == \A chat \in Seq(ChatMsgs) : DOMAIN chat = 1..Len(chat)
BY LenProperties

\* What a chat server gets is well formed, because what was sent is.
LEMMA InvChatWellFormed == ASSUME TalkInv PROVE ChatWellFormed
<1> SUFFICES ASSUME open = <<>>
             PROVE  /\ \A i \in DOMAIN Chat :
                         Chat[i].calls # <<>> =>
                           /\ {Chat[j].answers : j \in Answers(Chat, i)} = ToSet(Chat[i].calls)
                           /\ \A j \in Answers(Chat, i) : Chat[j].role = "tool"
                    /\ \A j \in DOMAIN Chat : Chat[j].role = "tool" => \E i \in DOMAIN Chat : j \in Answers(Chat, i)
  BY DEF ChatWellFormed
<1>1. ChatPaired(Chat, <<>>) /\ Chat \in Seq(ChatMsgs)
  BY ChatIs DEF ChatOK
<1>2. DOMAIN Chat = 1..Len(Chat)
  BY <1>1, ChatDomain
<1>3. ASSUME NEW i \in DOMAIN Chat, Chat[i].calls # <<>> PROVE AnsweredAt(Chat, i)
  <2>1. i \in 1..Len(Chat) /\ CallsKept(Chat, <<>>)
    BY <1>1, <1>2 DEF ChatPaired
  <2>2. (i = Len(Chat) /\ <<>> = Chat[i].calls) \/ AnsweredAt(Chat, i)
    BY <1>3, <2>1 DEF CallsKept
  <2> QED BY <1>3, <2>2
<1>4. AnswersKept(Chat)
  BY <1>1 DEF ChatPaired
<1> QED BY <1>2, <1>3, <1>4 DEF AnsweredAt, AnswersKept

\* What an Anthropic server gets is well formed, because its turns are.
LEMMA InvAnthropicWellFormed == ASSUME TalkInv PROVE AnthropicWellFormed
<1> DEFINE B == Anthropic.messages
<1>1. B \in Seq(Turned) /\ WellTurned(B) /\ Due(B) = open /\ B # <<>> /\ B[1].role = "user"
  BY AnthropicIs
<1> HIDE DEF B
<1>2. DOMAIN B = 1..Len(B)
  BY <1>1, LenProperties
<1>3. \A i \in DOMAIN B : B[i].role = (IF i % 2 = 1 THEN "user" ELSE "assistant")
  BY <1>1, TakeTurns DEF TurnsTaken
<1>4. \A i \in DOMAIN B : WellMade(B, i)
  BY <1>1, <1>2, TurnsWellMade
<1>5. open = <<>> => CallsIn(Last(B)) = {}
  <2>1. Due(B) = Calls(Last(B).content)
    BY <1>1 DEF Due
  <2>2. CallsIn(Last(B)) = ToSet(Due(B))
    BY <2>1 DEF CallsIn, Calls
  <2>3. ToSet(<<>>) = {}
    BY DEF ToSet
  <2> QED BY <1>1, <2>2, <2>3
<1> QED BY <1>1, <1>3, <1>4, <1>5 DEF AnthropicWellFormed, WellMade, B

\* What an Anthropic request says: its prompt, then its turns.
LEMMA SpokenIs ==
  ASSUME TalkInv
  PROVE  Spoken(Anthropic) = TextAtoms("system", Anthropic.system) \o SpokenTurns(Anthropic.messages)
BY DEF Spoken, TextAtoms, SpokenTurns

\* Nothing that was said is lost or changed, because every translation says the same.
LEMMA InvTranscriptKept == ASSUME TalkInv PROVE TranscriptKept
<1> DEFINE B == Anthropic.messages
           s == Anthropic.system
           p == TextAtoms("system", s)
           R == { {"system"}, {"user", "assistant"} }
<1>1. B \in Seq(Turned) /\ s \in Seq(Nat) /\ \A roles \in R : Heard(SpokenTurns(B), roles) = Heard(TalkOf(Sent), roles)
  BY AnthropicIs DEF Talkers
<1>2. s = SystemOf(Sent) /\ SpokenInChat(Sent) = said /\ Sent \in Seq(ChatMsgs)
  BY SentOK
<1>3. /\ Heard(said, {"system"}) = Heard(p, {"system"})
      /\ Heard(said, {"user", "assistant"}) = Heard(TalkOf(Sent), {"user", "assistant"})
  BY <1>2, ChatHeard DEF Talkers
<1>4. SpokenInChat(Chat) = IF api = "anthropic" THEN said ELSE p \o SpokenTurns(B)
  BY ChatIs
<1>5. Spoken(Anthropic) = p \o SpokenTurns(B)
  BY SpokenIs
<1> HIDE DEF B, s
<1>6. B \in Seq(Talked)
  BY <1>1, TurnedTalked
<1>7. p \in Seq(AtomSet) /\ p \in Seq(AtomsBy("system")) /\ SpokenTurns(B) \in Seq(AtomSet)
  <2>1. "system" \in Roles
    BY DEF Roles
  <2> QED BY <1>1, <1>6, <2>1, TextAtomsIs, TextAtomsBy, SpokenTurnsIs
<1> HIDE DEF p
<1>8. ASSUME NEW roles \in R PROVE Heard(p \o SpokenTurns(B), roles) = Heard(said, roles)
  <2>1. Heard(p \o SpokenTurns(B), roles) = Heard(p, roles) \o Heard(SpokenTurns(B), roles)
    BY <1>7, HeardConcat
  <2>2. Heard(p, roles) \in Seq(AtomSet) /\ Heard(SpokenTurns(B), roles) \in Seq(AtomSet)
    BY <1>7, HeardIs
  <2>3. CASE roles = {"system"}
    <3>1. Heard(SpokenTurns(B), roles) = <<>>
      BY <1>6, <2>3, TurnsUnheard
    <3>2. Heard(p, roles) \o <<>> = Heard(p, roles)
      BY <2>2, Concats
    <3> QED BY <1>3, <2>1, <2>3, <3>1, <3>2
  <2>4. CASE roles = {"user", "assistant"}
    <3>1. "system" \in Roles /\ "system" \notin roles
      BY <2>4 DEF Roles
    <3>2. Heard(p, roles) = <<>>
      BY <1>7, <3>1, Unheard
    <3>3. <<>> \o Heard(SpokenTurns(B), roles) = Heard(SpokenTurns(B), roles)
      BY <2>2, Concats
    <3>4. Heard(SpokenTurns(B), roles) = Heard(TalkOf(Sent), roles)
      BY <1>1
    <3> QED BY <1>3, <2>1, <2>4, <3>2, <3>3, <3>4
  <2> QED BY <2>3, <2>4
<1>9. ASSUME NEW roles \in R
      PROVE  Heard(SpokenInChat(Chat), roles) = Heard(said, roles) /\ Heard(Spoken(Anthropic), roles) = Heard(said, roles)
  BY <1>4, <1>5, <1>8
<1> QED BY <1>9 DEF TranscriptKept

-----------------------------------------------------------------------------
(* Types.                                                                  *)

\* The last of some calls is among what was said.
LEMMA LastSaid ==
  ASSUME NEW q \in Seq(AtomSet), NEW ids \in Seq(IdsOf), ids # <<>>
  PROVE  LET s == q \o IdAtoms("assistant", "tool_use", ids)
         IN  \E i \in DOMAIN s : s[i] = <<"assistant", "tool_use", Last(ids)>>
<1> DEFINE t == IdAtoms("assistant", "tool_use", ids)
           s == q \o t
<1>1. t \in Seq(AtomSet) /\ Len(t) = Len(ids)
  BY IdAtomsType DEF Roles, BlockTypes
<1>2. Last(ids) = ids[Len(ids)] /\ Len(ids) \in Nat \ {0}
  BY LastIs
<1>3. t[Len(ids)] = <<"assistant", "tool_use", Last(ids)>>
  <2>1. Len(ids) \in DOMAIN ids
    BY <1>2, LenProperties
  <2> QED BY <1>2, <2>1 DEF IdAtoms
<1> HIDE DEF t
<1>4. Len(q) \in Nat
  BY LenProperties
<1> DEFINE i == Len(q) + Len(ids)
<1>5. s \in Seq(AtomSet) /\ Len(s) = i /\ \A k \in 1..Len(q) + Len(t) : s[k] = IF k <= Len(q) THEN q[k] ELSE t[k - Len(q)]
  <2>1. q \o t \in Seq(AtomSet) /\ Len(q \o t) = Len(q) + Len(t)
    BY <1>1, ConcatProperties
  <2>2. \A k \in 1..Len(q) + Len(t) : (q \o t)[k] = IF k <= Len(q) THEN q[k] ELSE t[k - Len(q)]
    BY <1>1, ConcatProperties
  <2>3. Len(t) = Len(ids)
    BY <1>1
  <2> HIDE DEF s
  <2>4. s = q \o t
    BY DEF s
  <2> QED BY <2>1, <2>2, <2>3, <2>4
<1>6. i \in 1..Len(q) + Len(t) /\ ~(i <= Len(q)) /\ i - Len(q) = Len(ids)
  BY <1>1, <1>2, <1>4
<1>7. s[i] = t[Len(ids)]
  <2> HIDE DEF i, s
  <2> QED BY <1>5, <1>6
<1>8. i \in DOMAIN s
  BY <1>1, <1>5, <1>6, LenProperties
<1> HIDE DEF i, s
<1> QED BY <1>3, <1>7, <1>8 DEF s, t

\* The last speaker said what is open.
LEMMA OpenSaid ==
  ASSUME TalkInv, open # <<>>
  PROVE  Last(messages).role = "assistant" /\ \E q \in Seq(AtomSet) : said = q \o IdAtoms("assistant", "tool_use", open)
<1>1. CASE api = "anthropic"
  <2>1. messages \in Seq(Talked) /\ Due(messages) = open /\ said = TextAtoms("system", system) \o SpokenTurns(messages)
        /\ system \in Seq(Nat) /\ open \in Seq(IdsOf)
    BY <1>1 DEF TalkInv, AnthropicSide
  <2>2. messages # <<>> /\ Calls(Last(messages).content) = open
    BY <2>1 DEF Due
  <2>3. PICK T \in Seq(Talked), m \in Talked : messages = Append(T, m)
    BY <2>1, <2>2, SeqSplit
  <2>4. Last(messages) = m
    BY <2>3, AppendLast
  <2>5. m.role = "assistant" /\ m.content \in Seq(AssistantBlocks) /\ Calls(m.content) = open
    BY <2>2, <2>4, TurnFacts
  <2> DEFINE t == TextAtoms("assistant", TextOf(m.content))
             c == IdAtoms("assistant", "tool_use", open)
             p == TextAtoms("system", system)
             S == SpokenTurns(T)
  <2>6. SaidIn(m.role, m.content) = t \o c
    BY <2>5, AssistantSaid DEF Roles
  <2>7. SpokenTurns(messages) = S \o (t \o c)
    BY <2>3, <2>6, SpokenTurnsAppend
  <2>8. t \in Seq(AtomSet) /\ c \in Seq(AtomSet) /\ p \in Seq(AtomSet) /\ S \in Seq(AtomSet)
    <3>1. TextOf(m.content) \in Seq(Nat)
      BY <2>5, KindsOf, TextOfType
    <3>2. "assistant" \in Roles /\ "system" \in Roles /\ "tool_use" \in BlockTypes
      BY DEF Roles, BlockTypes
    <3> QED BY <2>1, <3>1, <3>2, TextAtomsIs, IdAtomsType, SpokenTurnsIs
  <2> HIDE DEF t, c, p, S
  <2> DEFINE A == Seq(AtomSet)
             y == t \o c
             w == p \o S
             q == w \o t
  <2>80. \A f, g \in A : f \o g \in A
    BY Concats
  <2>81. \A f, g, h \in A : Associate(f, g, h)
    BY Associates
  <2>82. t \in A /\ c \in A /\ p \in A /\ S \in A
    BY <2>8
  <2> HIDE DEF A
  <2>9. y \in A /\ w \in A
    BY <2>80, <2>82
  <2>10. said = p \o (S \o y)
    BY <2>1, <2>7 DEF p
  <2>11. p \o (S \o y) = w \o y
    <3>1. Associate(p, S, y)
      <4> HIDE DEF y
      <4> QED BY <2>81, <2>82, <2>9
    <3> QED BY <3>1 DEF Associate
  <2>12. q \in A /\ w \o y = q \o c
    <3> HIDE DEF w
    <3>1. Associate(w, t, c)
      BY <2>81, <2>82, <2>9
    <3>2. q \in A
      BY <2>80, <2>82, <2>9
    <3> QED BY <3>1, <3>2 DEF Associate
  <2>13. said = q \o c
    <3> HIDE DEF q, w, y
    <3> QED BY <2>10, <2>11, <2>12
  <2> HIDE DEF q
  <2> QED BY <2>4, <2>5, <2>12, <2>13 DEF c, A
<1>2. CASE api = "chat"
  <2>1. ChatOK(messages, open) /\ said = SpokenInChat(messages) /\ open \in Seq(IdsOf)
    BY <1>2 DEF TalkInv, ChatSide
  <2>2. messages \in Seq(ChatMsgs) /\ Len(messages) # 0 /\ messages[Len(messages)].calls = open
    BY <2>1 DEF ChatOK, ChatPaired
  <2>3. messages # <<>>
    BY <2>2, EmptySeq
  <2>4. PICK C \in Seq(ChatMsgs), m \in ChatMsgs : messages = Append(C, m)
    BY <2>2, <2>3, SeqSplit
  <2>5. Last(messages) = m /\ m.calls = open
    <3>1. Last(messages) = messages[Len(messages)]
      BY <2>2, <2>3, LastIs
    <3>2. Last(messages) = m
      BY <2>4, AppendLast
    <3> QED BY <2>2, <3>1, <3>2
  <2>6. m \in AssistantMsgs /\ m.role = "assistant"
    BY <2>5, RoleFacts DEF ChatMsgs, Uttered
  <2> DEFINE t == TextAtoms("assistant", TextOf(m.parts))
             c == IdAtoms("assistant", "tool_use", open)
             S == SpokenInChat(C)
  <2>7. TalkOfOne(m) = t \o c /\ TalkOfOne(m) = SaidInChat(m)
    BY <2>5, <2>6, AssistantTalk DEF TalkOfOne, IsSystem
  <2>8. said = S \o (t \o c)
    BY <2>1, <2>4, <2>7, ChatAppend
  <2>9. t \in Seq(AtomSet) /\ c \in Seq(AtomSet) /\ S \in Seq(AtomSet)
    <3>1. TextOf(m.parts) \in Seq(Nat)
      BY <2>6, RoleFacts, KindsOf, TextOfType
    <3>2. "assistant" \in Roles /\ "system" \in Roles /\ "tool_use" \in BlockTypes
      BY DEF Roles, BlockTypes
    <3> QED BY <2>1, <3>1, <3>2, TextAtomsIs, IdAtomsType, ChatSpreads
  <2> HIDE DEF t, c, S
  <2>10. S \o (t \o c) = (S \o t) \o c /\ S \o t \in Seq(AtomSet)
    <3> DEFINE A == Seq(AtomSet)
    <3>1. (\A f, g, h \in A : Associate(f, g, h)) /\ \A f, g \in A : f \o g \in A
      BY Concats, Associates
    <3>2. S \in A /\ t \in A /\ c \in A
      BY <2>9
    <3>3. S \o (t \o c) = (S \o t) \o c /\ S \o t \in A
      <4>1. Associate(S, t, c) /\ S \o t \in A
        <5> HIDE DEF A
        <5> QED BY <3>1, <3>2
      <4> QED BY <4>1 DEF Associate
    <3> QED BY <3>3
  <2> QED BY <2>5, <2>6, <2>8, <2>10 DEF c
<1> QED BY <1>1, <1>2 DEF TalkInv

\* The invariant gives the types.
LEMMA InvTypeOK == ASSUME TalkInv PROVE TalkTypeOK
<1>1. ASSUME open # <<>>
      PROVE  Last(messages).role = "assistant" /\ \E i \in DOMAIN said : said[i] = <<"assistant", "tool_use", Last(open)>>
  <2>1. Last(messages).role = "assistant"
    BY <1>1, OpenSaid
  <2>2. PICK q \in Seq(AtomSet) : said = q \o IdAtoms("assistant", "tool_use", open)
    BY <1>1, OpenSaid
  <2>3. open \in Seq(IdsOf)
    BY DEF TalkInv
  <2>4. \E i \in DOMAIN said : said[i] = <<"assistant", "tool_use", Last(open)>>
    BY <1>1, <2>2, <2>3, LastSaid
  <2> QED BY <2>1, <2>4
<1> QED BY <1>1 DEF TalkInv, TalkTypeOK

\* The calls that are open are the client's to answer, and it has seen them.
LEMMA InvCallsSeen == ASSUME TalkInv PROVE CallsSeen
BY DEF TalkInv, CallsSeen

-----------------------------------------------------------------------------
(* What the clients say.                                                   *)

Splits(S, r, i, x) == \E a, b \in Seq(S) : r = a \o b /\ InsertAt(r, i, x) = (a \o <<x>>) \o b

\* Inserting splits a sequence in two.
LEMMA InsertSplit ==
  ASSUME NEW S, NEW r \in Seq(S), NEW i \in 1..(Len(r) + 1), NEW x \in S
  PROVE  Splits(S, r, i, x)
<1>0. Len(r) \in Nat /\ \A j \in 1..Len(r) : r[j] \in S
  BY LenProperties, ElementOfSeq
<1> DEFINE a == SubSeq(r, 1, i - 1)
           b == SubSeq(r, i, Len(r))
<1> DEFINE k == i - 1
           n == Len(r)
           Within(l, m) == \A j \in l..m : r[j] \in S
<1>10. /\ k \in Int /\ i \in Int /\ n \in Int /\ 1 \in Int
       /\ Within(1, k) /\ Within(i, n)
  BY <1>0
<1>11. \A l, m \in Int : Within(l, m) => SubSeq(r, l, m) \in Seq(S)
  BY SubSeqProperties
<1> HIDE DEF Within
<1>1. a \in Seq(S)
  <2>1. SubSeq(r, 1, k) \in Seq(S)
    <3> HIDE DEF k
    <3> QED BY <1>10, <1>11, Zenon
  <2> QED BY <2>1
<1>2. b \in Seq(S)
  <2>1. SubSeq(r, i, n) \in Seq(S)
    <3> HIDE DEF n
    <3> QED BY <1>10, <1>11, Zenon
  <2> QED BY <2>1
<1>3. a \o b = r
  <2>1. k \in (1 - 1)..Len(r) /\ k + 1 = i /\ Len(r) \in k..Len(r) /\ 1 \in 1..(Len(r) + 1)
    BY <1>0
  <2>2. SubSeq(r, 1, k) \o SubSeq(r, k + 1, Len(r)) = SubSeq(r, 1, Len(r))
    <3> HIDE DEF k
    <3> QED BY <2>1, ConcatAdjacentSubSeq
  <2>3. SubSeq(r, 1, Len(r)) = r
    BY SubSeqFull
  <2> QED BY <2>1, <2>2, <2>3
<1>4. InsertAt(r, i, x) = (a \o <<x>>) \o b
  BY DEF InsertAt
<1> HIDE DEF a, b
<1> QED BY <1>1, <1>2, <1>3, <1>4 DEF Splits

\* A text or an image is a part.
LEMMA UtteranceIs ==
  ASSUME NEW n \in Nat, NEW u \in Utterances(n)
  PROVE  /\ u \in PartBlocks /\ <<u>> \in Seq(PartBlocks) /\ <<u>> \in Seq(UserBlocks)
         /\ u.type = "text" => u \in TextBlocks /\ <<u>> \in Seq(TextBlocks)
<1>0. <<n>> \in Seq(Nat) /\ <<>> \in Seq(Nat)
  OBVIOUS
<1>1. Text(<<n>>) \in TextBlocks /\ Text(<<>>) \in TextBlocks
  BY <1>0, TextBlock
<1>2. Image(n) \in PartBlocks /\ Image(n).type = "image"
  BY <1>0 DEF Image, Block, PartBlocks, BlocksOfTypes, IdsOf
<1>3. TextBlocks \subseteq PartBlocks /\ PartBlocks \subseteq UserBlocks
  BY DEF TextBlocks, PartBlocks, UserBlocks, BlocksOfTypes
<1>4. u \in PartBlocks /\ (u.type = "text" => u \in TextBlocks)
  BY <1>1, <1>2, <1>3 DEF Utterances
<1>5. <<u>> \in Seq(PartBlocks) /\ (u.type = "text" => <<u>> \in Seq(TextBlocks))
  BY <1>4
<1> QED BY <1>4, <1>5, KindsOf

\* The answers in another order.
Permuted(ids, p) == [i \in DOMAIN ids |-> ids[p[i]]]

\* Results in any order answer the calls.
LEMMA PermutedIs ==
  ASSUME NEW ids \in Seq(IdsOf), NEW p \in [DOMAIN ids -> DOMAIN ids], IsInjective(p)
  PROVE  Permuted(ids, p) \in Seq(IdsOf) /\ Answer(ids, Permuted(ids, p))
<1> DEFINE D == DOMAIN ids
           s == Permuted(ids, p)
<1>0. D = 1..Len(ids) /\ Len(ids) \in Nat /\ \A i \in D : ids[i] \in IdsOf
  BY LenProperties, ElementOfSeq
<1>1. s = [i \in 1..Len(ids) |-> ids[p[i]]] /\ \A i \in 1..Len(ids) : ids[p[i]] \in IdsOf
  BY <1>0 DEF Permuted
<1>2. s \in Seq(IdsOf) /\ Len(s) = Len(ids) /\ DOMAIN s = D
  BY <1>0, <1>1
<1>3. IsFiniteSet(D)
  BY <1>0, FS_Interval
<1>4. p \in Injection(D, D)
  BY DEF Injection, IsInjective
<1>5. p \in Surjection(D, D)
  BY <1>3, <1>4, FS_Injection
<1>6. \A j \in D : \E i \in D : p[i] = j
  BY <1>5 DEF Surjection
<1>7. ToSet(ids) = {ids[i] : i \in D} /\ ToSet(s) = {s[i] : i \in D}
  BY <1>2 DEF ToSet
<1>8. \A i \in D : s[i] = ids[p[i]] /\ p[i] \in D
  BY <1>0, <1>1
<1> HIDE DEF s, D
<1>9. ToSet(ids) = ToSet(s)
  BY <1>6, <1>7, <1>8
<1> QED BY <1>2, <1>9 DEF Answer, s

\* A part put among results leaves the results.
LEMMA SaidBetween ==
  ASSUME NEW r \in Seq(UserBlocks), NEW i \in 1..(Len(r) + 1), NEW u \in PartBlocks
  PROVE  InsertAt(r, i, u) \in Seq(UserBlocks) /\ Results(InsertAt(r, i, u)) = Results(r)
<1>0. u \in UserBlocks
  BY DEF PartBlocks, UserBlocks, BlocksOfTypes
<1>p. Splits(UserBlocks, r, i, u)
  BY <1>0, InsertSplit
<1>1. PICK a \in Seq(UserBlocks), b \in Seq(UserBlocks) : r = a \o b /\ InsertAt(r, i, u) = (a \o <<u>>) \o b
  BY <1>p DEF Splits
<1> DEFINE x == <<u>>
           y == a \o x
<1>2. x \in Seq(UserBlocks) /\ x \in Seq(PartBlocks)
  BY <1>0
<1> HIDE DEF x
<1>3. y \in Seq(UserBlocks) /\ y \o b \in Seq(UserBlocks)
  BY <1>2, Concats
<1>4. Results(x) = <<>>
  BY <1>2, NothingPicked
<1>5. a \in Seq(Blocks) /\ b \in Seq(Blocks) /\ x \in Seq(Blocks) /\ y \in Seq(Blocks)
  BY <1>2, <1>3, KindsOf
<1>6. Results(y) = Results(a) \o Results(x) /\ Results(a) \in Seq(IdsOf)
  BY <1>5, PickedConcat, PickedType
<1>7. Results(y) = Results(a)
  BY <1>4, <1>6, Concats
<1>8. Results(r) = Results(a) \o Results(b)
  BY <1>1, <1>5, PickedConcat
<1>9. Results(y \o b) = Results(y) \o Results(b)
  <2> HIDE DEF y
  <2> QED BY <1>5, PickedConcat
<1> QED BY <1>1, <1>3, <1>7, <1>8, <1>9 DEF x

\* The user blocks of an Anthropic client answer the open calls.
LEMMA ContentsAre ==
  ASSUME NEW n \in Nat, open \in Seq(IdsOf), NEW content \in Contents(n)
  PROVE  content \in Seq(UserBlocks) /\ Answer(open, Results(content))
<1>1. CASE open = <<>>
  <2>1. content \in {<<u>> : u \in Utterances(n)} \cup {<<u, Text(<<n + 1>>)>> : u \in Utterances(n)}
    BY <1>1 DEF Contents
  <2>2. PICK u \in Utterances(n) : content = <<u>> \/ content = <<u, Text(<<n + 1>>)>>
    BY <2>1
  <2>3. u \in PartBlocks
    BY UtteranceIs
  <2>4. Text(<<n + 1>>) \in PartBlocks
    <3>1. <<n + 1>> \in Seq(Nat)
      OBVIOUS
    <3>2. TextBlocks \subseteq PartBlocks
      BY DEF TextBlocks, PartBlocks, BlocksOfTypes
    <3> QED BY <3>1, <3>2, TextBlock
  <2> DEFINE t == Text(<<n + 1>>)
  <2>5. content \in Seq(PartBlocks)
    <3> HIDE DEF t
    <3>1. t \in PartBlocks
      BY <2>4 DEF t
    <3>2. content = <<u>> \/ content = <<u, t>>
      BY <2>2 DEF t
    <3>3. <<u>> \in Seq(PartBlocks) /\ <<u, t>> \in Seq(PartBlocks)
      <4> HIDE DEF PartBlocks
      <4> QED BY <2>3, <3>1
    <3> QED BY <3>2, <3>3
  <2>6. Results(content) = <<>>
    BY <2>5, NothingPicked
  <2>7. Answer(<<>>, <<>>)
    BY AnswerEmpty, EmptySeq
  <2> QED BY <1>1, <2>5, <2>6, <2>7, KindsOf
<1>2. CASE open # <<>>
  <2>1. \/ content \in Shuffled
        \/ \E r \in Shuffled, i \in 1..(Len(open) + 1), u \in Utterances(n) : content = InsertAt(r, i, u)
    BY <1>2 DEF Contents
  <2>2. ASSUME NEW r \in Shuffled
        PROVE  r \in Seq(UserBlocks) /\ Answer(open, Results(r)) /\ Len(r) = Len(open)
    <3>1. PICK p \in [DOMAIN open -> DOMAIN open] : IsInjective(p) /\ r = [i \in DOMAIN open |-> ToolResult(open[p[i]])]
      BY DEF Shuffled
    <3> DEFINE ids == Permuted(open, p)
    <3>2. ids \in Seq(IdsOf) /\ Answer(open, ids)
      BY <3>1, PermutedIs
    <3>3. r = ToolResults(ids)
      BY <3>1 DEF Permuted, ToolResults
    <3> HIDE DEF ids
    <3>4. Results(ToolResults(ids)) = ids /\ ToolResults(ids) \in Seq(UserBlocks)
      BY <3>2, ToolsPicked
    <3>5. Len(ToolResults(ids)) = Len(ids)
      BY <3>2, ToolsType
    <3>6. Len(ids) = Len(open)
      BY <3>2 DEF Answer
    <3> QED BY <3>2, <3>3, <3>4, <3>5, <3>6
  <2>3. CASE content \in Shuffled
    BY <2>2, <2>3
  <2>4. ASSUME NEW r \in Shuffled, NEW i \in 1..(Len(open) + 1), NEW u \in Utterances(n), content = InsertAt(r, i, u)
        PROVE  content \in Seq(UserBlocks) /\ Answer(open, Results(content))
    <3>1. r \in Seq(UserBlocks) /\ Answer(open, Results(r)) /\ Len(r) = Len(open)
      BY <2>2
    <3>2. u \in PartBlocks
      BY UtteranceIs
    <3>3. i \in 1..(Len(r) + 1)
      BY <3>1
    <3>4. InsertAt(r, i, u) \in Seq(UserBlocks) /\ Results(InsertAt(r, i, u)) = Results(r)
      BY <3>1, <3>2, <3>3, SaidBetween
    <3> QED BY <2>4, <3>1, <3>4
  <2> QED BY <2>1, <2>3, <2>4
<1> QED BY <1>1, <1>2

-----------------------------------------------------------------------------
(* What the servers say.                                                   *)

Fresh(k, n) == [i \in 1..k |-> n + 1 + i]

\* New ids differ from each other.
LEMMA FreshIs ==
  ASSUME NEW k \in Nat, NEW n \in Nat
  PROVE  /\ Fresh(k, n) \in Seq(IdsOf) /\ Len(Fresh(k, n)) = k /\ DOMAIN Fresh(k, n) = 1..k
         /\ IsInjective(Fresh(k, n))
<1>1. \A i \in 1..k : n + 1 + i \in IdsOf
  BY DEF IdsOf
<1>2. IsInjective(Fresh(k, n))
  BY DEF IsInjective, Fresh
<1> QED BY <1>1, <1>2 DEF Fresh

LEMMA ThoughtIs ==
  ASSUME NEW text \in Seq(Nat)
  PROVE  /\ Thinking(text) \in BlocksOfTypes({"thinking"}) /\ <<Thinking(text)>> \in Seq(BlocksOfTypes({"thinking"}))
         /\ <<Thinking(text)>> \in Seq(AssistantBlocks) /\ <<>> \in Seq(BlocksOfTypes({"thinking"}))
<1>1. Thinking(text) \in BlocksOfTypes({"thinking"}) /\ Thinking(text) \in AssistantBlocks
  BY DEF Thinking, Block, BlocksOfTypes, AssistantBlocks, IdsOf
<1> QED BY <1>1

\* Blocks with calls, next to blocks without.
LEMMA CallsAmong ==
  ASSUME NEW a \in Seq(AssistantBlocks), NEW b \in Seq(AssistantBlocks), NEW ids \in Seq(IdsOf),
         (Calls(a) = <<>> /\ Calls(b) = ids) \/ (Calls(a) = ids /\ Calls(b) = <<>>)
  PROVE  a \o b \in Seq(AssistantBlocks) /\ Calls(a \o b) = ids
<1>1. a \in Seq(Blocks) /\ b \in Seq(Blocks)
  BY KindsOf
<1>2. Calls(a \o b) = Calls(a) \o Calls(b)
  BY <1>1, PickedConcat
<1>3. a \o b \in Seq(AssistantBlocks)
  BY Concats
<1> QED BY <1>2, <1>3, Concats

\* A server's content may have new calls, anywhere in it.
LEMMA ServerBlocksAre ==
  ASSUME NEW n \in Nat, NEW content \in ServerBlocks(n)
  PROVE  content \in Seq(AssistantBlocks) /\ \E k \in Nat : Calls(content) = Fresh(k, n)
<1>1. PICK k \in 0..MaxCalls : content \in CallingBlocks(k, n)
  BY DEF ServerBlocks
<1>2. k \in Nat
  BY ConversationAssumption
<1> DEFINE t == Text(<<n + 1>>)
           w == Thinking(<<n + 1>>)
           ids == Fresh(k, n)
           c == ToolUses(ids)
<1>3. ids \in Seq(IdsOf) /\ DOMAIN ids = 1..k
  BY <1>2, FreshIs
<1>4. [i \in 1..k |-> ToolUse(n + 1 + i)] = c
  BY <1>3 DEF ToolUses, Fresh
<1>5. content \in {c, <<t>> \o c, c \o <<t>>, <<w>> \o c, <<w, t>> \o c}
  BY <1>1, <1>4 DEF CallingBlocks
<1>6. c \in Seq(AssistantBlocks) /\ Calls(c) = ids
  BY <1>3, ToolsPicked
<1>n. <<n + 1>> \in Seq(Nat)
  OBVIOUS
<1>7. <<t>> \in Seq(AssistantBlocks) /\ Calls(<<t>>) = <<>>
  <2>1. <<t>> \in Seq(TextBlocks)
    BY <1>n, TextBlock
  <2> QED BY <2>1, KindsOf, NothingPicked
<1>8. <<w>> \in Seq(AssistantBlocks) /\ Calls(<<w>>) = <<>>
  <2>1. <<w>> \in Seq(BlocksOfTypes({"thinking"})) /\ <<w>> \in Seq(AssistantBlocks)
    BY <1>n, ThoughtIs
  <2> QED BY <2>1, NothingPicked
<1>9. <<w, t>> = <<w>> \o <<t>>
  <2> HIDE DEF w, t
  <2> QED OBVIOUS
<1> DEFINE x == <<t>>
           y == <<w>>
           z == y \o x
<1> HIDE DEF c, ids, x, y
<1>10. x \in Seq(AssistantBlocks) /\ Calls(x) = <<>> /\ y \in Seq(AssistantBlocks) /\ Calls(y) = <<>>
  BY <1>7, <1>8 DEF x, y
<1>11. z \in Seq(AssistantBlocks) /\ Calls(z) = <<>>
  <2>1. <<>> \in Seq(IdsOf)
    BY EmptySeq
  <2> QED BY <1>10, <2>1, CallsAmong
<1>12. content = c \/ content = x \o c \/ content = c \o x \/ content = y \o c \/ content = z \o c
  BY <1>5, <1>9 DEF x, y
<1> HIDE DEF z
<1>13. /\ x \o c \in Seq(AssistantBlocks) /\ Calls(x \o c) = ids
       /\ c \o x \in Seq(AssistantBlocks) /\ Calls(c \o x) = ids
       /\ y \o c \in Seq(AssistantBlocks) /\ Calls(y \o c) = ids
       /\ z \o c \in Seq(AssistantBlocks) /\ Calls(z \o c) = ids
  BY <1>3, <1>6, <1>10, <1>11, CallsAmong
<1>14. content \in Seq(AssistantBlocks) /\ Calls(content) = ids
  BY <1>6, <1>12, <1>13
<1> QED BY <1>2, <1>14 DEF ids

-----------------------------------------------------------------------------
(* The steps.                                                              *)

\* A client that keeps a turn more has answered what was due, and says it.
LEMMA OneMoreTurn ==
  ASSUME NEW prompt \in Seq(Nat), NEW T \in Seq(Talked), Paired(T), NEW m \in Talked, Answer(Due(T), Results(m.content))
  PROVE  /\ T \o <<m>> \in Seq(Talked) /\ Paired(T \o <<m>>) /\ Due(T \o <<m>>) = Calls(m.content)
         /\ (TextAtoms("system", prompt) \o SpokenTurns(T)) \o SaidIn(m.role, m.content)
              = TextAtoms("system", prompt) \o SpokenTurns(T \o <<m>>)
<1>1. T \o <<m>> = Append(T, m) /\ Append(T, m) \in Seq(Talked)
  BY AppendIsConcat, AppendProperties
<1>2. Paired(Append(T, m)) /\ Due(Append(T, m)) = Calls(m.content)
  BY PairedAppend, DueAppend
<1>3. SpokenTurns(Append(T, m)) = SpokenTurns(T) \o SaidIn(m.role, m.content)
  BY SpokenTurnsAppend
<1>4. SpokenTurns(T) \in Seq(AtomSet)
  BY SpokenTurnsIs
<1>5. SaidIn(m.role, m.content) \in Seq(AtomSet)
  BY TurnFacts, SaidType
<1>6. TextAtoms("system", prompt) \in Seq(AtomSet)
  BY TextAtomsIs DEF Roles
<1> DEFINE p == TextAtoms("system", prompt)
           q == SpokenTurns(T)
           r == SaidIn(m.role, m.content)
<1>7. (p \o q) \o r = p \o (q \o r)
  <2>1. p \in Seq(AtomSet) /\ q \in Seq(AtomSet) /\ r \in Seq(AtomSet)
    BY <1>4, <1>5, <1>6
  <2> HIDE DEF p, q, r
  <2>2. Associate(p, q, r)
    BY <2>1, Associates
  <2> QED BY <2>2 DEF Associate
<1> QED BY <1>1, <1>2, <1>3, <1>7

\* A step of a conversation that an Anthropic client keeps.
LEMMA AnthropicKeeps ==
  ASSUME TalkInv, api = "anthropic", NEW m \in Talked, Answer(open, Results(m.content)),
         Keep(<<m>>, SaidIn(m.role, m.content)), open' = Calls(m.content), UNCHANGED <<api, system>>
  PROVE  AnthropicSide' /\ Len(messages') <= MaxMessages /\ open' \in Seq(IdsOf)
<1>1. /\ system \in Seq(Nat) /\ messages \in Seq(Talked) /\ Paired(messages) /\ Due(messages) = open
      /\ said = TextAtoms("system", system) \o SpokenTurns(messages)
  BY DEF TalkInv, AnthropicSide
<1>2. /\ messages' = messages \o <<m>> /\ said' = said \o SaidIn(m.role, m.content)
      /\ Len(messages) + Len(<<m>>) <= MaxMessages /\ system' = system
  BY DEF Keep
<1>3. /\ messages \o <<m>> \in Seq(Talked) /\ Paired(messages \o <<m>>) /\ Due(messages \o <<m>>) = Calls(m.content)
      /\ (TextAtoms("system", system) \o SpokenTurns(messages)) \o SaidIn(m.role, m.content)
           = TextAtoms("system", system) \o SpokenTurns(messages \o <<m>>)
  BY <1>1, OneMoreTurn
<1>4. Len(messages \o <<m>>) = Len(messages) + Len(<<m>>)
  <2>1. <<m>> \in Seq(Talked)
    OBVIOUS
  <2> QED BY <1>1, <2>1, ConcatProperties
<1>5. Calls(m.content) \in Seq(IdsOf)
  BY TurnFacts
<1> QED BY <1>1, <1>2, <1>3, <1>4, <1>5 DEF AnthropicSide

\* A step of a conversation that a chat client keeps.
LEMMA ChatKeeps ==
  ASSUME TalkInv, api = "chat", NEW more \in Seq(ChatMsgs), NEW atoms, SpokenInChat(more) = atoms,
         ChatOK(messages \o more, open'), Keep(more, atoms), UNCHANGED <<api, system>>
  PROVE  ChatSide' /\ Len(messages') <= MaxMessages /\ open' \in Seq(IdsOf)
<1>1. system = <<>> /\ messages \in Seq(ChatMsgs) /\ said = SpokenInChat(messages)
  BY DEF TalkInv, ChatSide, ChatOK
<1>2. /\ messages' = messages \o more /\ said' = said \o atoms
      /\ Len(messages) + Len(more) <= MaxMessages /\ system' = system
  BY DEF Keep
<1>3. SpokenInChat(messages \o more) = SpokenInChat(messages) \o SpokenInChat(more)
  BY <1>1, ChatConcat
<1>4. Len(messages \o more) = Len(messages) + Len(more)
  BY <1>1, ConcatProperties
<1>5. open' \in Seq(IdsOf)
  BY DEF ChatOK
<1> QED BY <1>1, <1>2, <1>3, <1>4, <1>5 DEF ChatSide

LEMMA NoCalls == <<>> \in Seq(IdsOf) /\ IsInjective(<<>>) /\ Answer(<<>>, <<>>)
<1>1. <<>> \in Seq(IdsOf)
  BY EmptySeq
<1>2. Answer(<<>>, <<>>)
  BY <1>1, AnswerEmpty
<1>3. IsInjective(<<>>)
  BY DEF IsInjective
<1> QED BY <1>1, <1>2, <1>3

\* An Anthropic client answers, and speaks.
LEMMA AnthropicSpeaksInv ==
  ASSUME TalkInv, NEW content \in Contents(named + 1), AnthropicSpeaks(content)
  PROVE  TalkInv'
<1>0. open \in Seq(IdsOf) /\ named \in Nat \ {0} /\ named + 1 \in Nat /\ api = "anthropic" /\ system \in Seq(Nat)
  BY DEF TalkInv, AnthropicSpeaks
<1>1. content \in Seq(UserBlocks) /\ Answer(open, Results(content))
  BY <1>0, ContentsAre
<1> DEFINE m == Message("user", content)
<1>2. m \in UserTurns /\ m.role = "user" /\ m.content = content
  BY <1>1 DEF Message, UserTurns
<1> HIDE DEF m
<1>3. m \in Talked
  BY <1>2 DEF Talked, Turned
<1>4. Calls(m.content) = <<>>
  BY <1>2, <1>3, TurnFacts
<1>5. Keep(<<m>>, SaidIn(m.role, m.content)) /\ open' = <<>> /\ api' = api /\ system' = system
  BY <1>2 DEF AnthropicSpeaks, m
<1>6. AnthropicSide' /\ Len(messages') <= MaxMessages /\ open' \in Seq(IdsOf)
  BY <1>0, <1>1, <1>2, <1>3, <1>4, <1>5, AnthropicKeeps
<1>7. named' = named + 2 /\ turn' = "server"
  BY DEF AnthropicSpeaks
<1> QED BY <1>0, <1>5, <1>6, <1>7, NoCalls DEF TalkInv

\* An Anthropic client sends a text.
LEMMA AnthropicSpeaksPlainlyInv ==
  ASSUME TalkInv, AnthropicSpeaksPlainly
  PROVE  TalkInv'
<1>0. open = <<>> /\ named \in Nat \ {0} /\ named + 1 \in Nat /\ api = "anthropic" /\ system \in Seq(Nat)
  BY DEF TalkInv, AnthropicSpeaksPlainly
<1> DEFINE t == <<named + 1>>
           m == PlainMessage("user", t)
<1>1. t \in Seq(Nat)
  BY <1>0
<1>2. m \in PlainTurns /\ m.role = "user" /\ m.content = <<Text(t)>> /\ m.content \in Seq(PartBlocks)
  BY <1>1, TextBlock, KindsOf DEF PlainMessage, PlainTurns
<1>3. SaidIn("user", <<Text(t)>>) = TextAtoms("user", t)
  BY <1>1, OptionalSaid DEF Roles
<1>4. TextAtoms("user", t) = << <<"user", "text", named + 1>> >>
  BY DEF TextAtoms
<1>5. Keep(<<m>>, SaidIn("user", <<Text(t)>>))
  BY <1>3, <1>4 DEF AnthropicSpeaksPlainly
<1> HIDE DEF m, t
<1>6. m \in Talked /\ Calls(m.content) = <<>> /\ Results(m.content) = <<>>
  BY <1>2, NothingPicked DEF Talked
<1>7. Keep(<<m>>, SaidIn(m.role, m.content)) /\ open' = <<>> /\ api' = api /\ system' = system
  BY <1>0, <1>2, <1>5 DEF AnthropicSpeaksPlainly
<1>8. Answer(open, Results(m.content))
  BY <1>0, <1>6, NoCalls
<1>9. AnthropicSide' /\ Len(messages') <= MaxMessages /\ open' \in Seq(IdsOf)
  BY <1>0, <1>6, <1>7, <1>8, AnthropicKeeps
<1>10. named' = named + 1 /\ turn' = "server"
  BY DEF AnthropicSpeaksPlainly
<1> QED BY <1>0, <1>7, <1>9, <1>10, NoCalls DEF TalkInv

\* A chat client's tools answer.
LEMMA ChatAnswersCallsInv ==
  ASSUME TalkInv, ChatAnswersCalls
  PROVE  TalkInv'
<1>0. open \in Seq(IdsOf) /\ api = "chat" /\ ChatOK(messages, open) /\ system \in Seq(Nat)
  BY DEF TalkInv, ChatSide, ChatAnswersCalls
<1> DEFINE more == ToolMsgs(open)
           atoms == IdAtoms("user", "tool_result", open)
<1>1. Keep(more, atoms)
  BY DEF ChatAnswersCalls, ToolMsgs, ToolMsg, IdAtoms
<1>2. open' = <<>> /\ UNCHANGED <<api, system, turn, named>> /\ turn = "client"
  BY DEF ChatAnswersCalls
<1>3. Answer(open, open)
  BY DEF Answer
<1>4. ChatOK(messages \o more, <<>>)
  BY <1>0, <1>3, ToolsOK
<1>5. more \in Seq(ChatMsgs) /\ SpokenInChat(more) = atoms
  BY <1>0, ToolMsgsAre, ToolsTalk
<1> HIDE DEF more, atoms
<1>6. ChatSide' /\ Len(messages') <= MaxMessages /\ open' \in Seq(IdsOf)
  BY <1>0, <1>1, <1>2, <1>4, <1>5, ChatKeeps
<1> QED BY <1>0, <1>2, <1>6, NoCalls DEF TalkInv

\* A message uttered by itself says what it says, and leaves its calls due.
LEMMA UtteredSaid ==
  ASSUME NEW m \in Uttered, NEW chat, ChatOK(chat, <<>>)
  PROVE  /\ <<m>> \in Seq(ChatMsgs) /\ SpokenInChat(<<m>>) = SaidInChat(m)
         /\ ChatOK(chat \o <<m>>, m.calls)
<1>1. m \in ChatMsgs
  BY DEF ChatMsgs
<1>2. chat \in Seq(ChatMsgs)
  BY DEF ChatOK
<1>3. chat \o <<m>> = Append(chat, m)
  BY <1>1, <1>2, AppendIsConcat
<1> QED BY <1>1, <1>3, ChatOne, UtteredOK

\* A chat client adds a message.
LEMMA ChatSpeaksInv ==
  ASSUME TalkInv, NEW role \in {"system", "user", "assistant"}, NEW part \in Utterances(named + 1), ChatSpeaks(role, part)
  PROVE  TalkInv'
<1>0. /\ open = <<>> /\ api = "chat" /\ ChatOK(messages, <<>>) /\ system \in Seq(Nat) /\ turn = "client"
      /\ named \in Nat \ {0} /\ named + 1 \in Nat
  BY DEF TalkInv, ChatSide, ChatSpeaks
<1>1. <<part>> \in Seq(PartBlocks) /\ (role # "user" => <<part>> \in Seq(TextBlocks))
  BY <1>0, UtteranceIs DEF ChatSpeaks
<1> DEFINE parts == <<part>>
           m == ChatMessage(role, parts, <<>>, None)
<1>2. Keep(<<m>>, SaidIn(role, parts)) /\ named' = named + 1 /\ UNCHANGED <<api, system, turn, open>>
  BY DEF ChatSpeaks
<1> HIDE DEF parts
<1>3. parts \in Seq(PartBlocks) /\ (role # "user" => parts \in Seq(TextBlocks))
  BY <1>1 DEF parts
<1>4. m.role = role /\ m.parts = parts /\ m.calls = <<>>
  BY DEF ChatMessage
<1>5. m \in UserMsgs \cup AssistantMsgs \cup SystemMsgs
  BY <1>3, NoCalls DEF UserMsgs, AssistantMsgs, SystemMsgs, ChatMessage
<1> HIDE DEF m
<1>6. m \in Uttered
  BY <1>5 DEF Uttered
<1>7. SaidInChat(m) = SaidIn(role, parts)
  <2>1. Speaker(m) = role
    BY <1>4 DEF Speaker
  <2>2. ChatBlocks(m) = parts
    <3>1. CASE m \in UserMsgs \cup SystemMsgs
      BY <1>4, <3>1, ChatBlocksAre
    <3>2. CASE m \in AssistantMsgs
      <4>1. ChatBlocks(m) = parts \o ToolUses(<<>>)
        BY <1>4, <3>2, ChatBlocksAre
      <4>2. ToolUses(<<>>) = <<>>
        BY NoBlocks DEF ToolUses
      <4> QED BY <1>3, <4>1, <4>2, Concats
    <3> QED BY <1>5, <3>1, <3>2
  <2> QED BY <2>1, <2>2 DEF SaidInChat
<1>8. <<m>> \in Seq(ChatMsgs) /\ SpokenInChat(<<m>>) = SaidIn(role, parts) /\ ChatOK(messages \o <<m>>, <<>>)
  BY <1>0, <1>4, <1>6, <1>7, UtteredSaid
<1>9. open' = <<>>
  BY <1>0, <1>2
<1>10. ChatSide' /\ Len(messages') <= MaxMessages /\ open' \in Seq(IdsOf)
  BY <1>0, <1>2, <1>8, <1>9, ChatKeeps
<1> QED BY <1>0, <1>2, <1>9, <1>10, NoCalls DEF TalkInv

\* A chat client sends what it has.
LEMMA ChatSendsInv ==
  ASSUME TalkInv, ChatSends
  PROVE  TalkInv'
BY DEF TalkInv, ChatSends, ChatSide, AnthropicSide

-----------------------------------------------------------------------------
(* The answers.                                                            *)

\* The content of a chat server's answer, in Anthropic blocks.
AnswerBlocks(reasoning, text, ids) ==
  ((IF reasoning = <<>> THEN <<>> ELSE <<Thinking(reasoning)>>) \o Optional(text)) \o ToolUses(ids)

\* Thoughts are not said; text and calls are.
LEMMA AnswerBlocksAre ==
  ASSUME NEW reasoning \in Seq(Nat), NEW text \in Seq(Nat), NEW ids \in Seq(IdsOf)
  PROVE  LET content == AnswerBlocks(reasoning, text, ids)
         IN  /\ content \in Seq(AssistantBlocks) /\ Calls(content) = ids
             /\ SaidIn("assistant", content) = SaidIn("assistant", Optional(text) \o ToolUses(ids))
<1> DEFINE w == IF reasoning = <<>> THEN <<>> ELSE <<Thinking(reasoning)>>
           t == Optional(text)
           c == ToolUses(ids)
           x == t \o c
<1>1. w \in Seq(BlocksOfTypes({"thinking"})) /\ w \in Seq(AssistantBlocks)
  <2>1. <<>> \in Seq(AssistantBlocks)
    BY EmptySeq
  <2>2. <<Thinking(reasoning)>> \in Seq(BlocksOfTypes({"thinking"})) /\ <<Thinking(reasoning)>> \in Seq(AssistantBlocks)
        /\ <<>> \in Seq(BlocksOfTypes({"thinking"}))
    BY ThoughtIs
  <2> QED BY <2>1, <2>2
<1>2. t \in Seq(AssistantBlocks)
  BY TextBlock, KindsOf
<1>3. c \in Seq(AssistantBlocks)
  BY ToolsPicked
<1>4. x \in Seq(AssistantBlocks) /\ Calls(x) = ids
  BY AnswerSaid DEF Roles
<1> HIDE DEF w, t, c
<1>5. (w \o t) \o c = w \o x
  <2>1. w \in Seq(AssistantBlocks) /\ t \in Seq(AssistantBlocks) /\ c \in Seq(AssistantBlocks)
    BY <1>1, <1>2, <1>3
  <2>2. Associate(w, t, c)
    BY <2>1, Associates
  <2> QED BY <2>2 DEF Associate
<1> HIDE DEF x
<1>6. w \in Seq(Blocks) /\ x \in Seq(Blocks)
  BY <1>1, <1>4, KindsOf
<1>7. OfType(w, {"tool_use"}) = <<>> /\ Calls(w) = <<>>
  BY <1>1, NothingPicked
<1>8. OfType(x, {"tool_result"}) = <<>>
  BY <1>4, NothingPicked
<1>9. "assistant" \in Roles
  BY DEF Roles
<1>10. SaidIn("assistant", w \o x) = SaidIn("assistant", w) \o SaidIn("assistant", x)
  BY <1>6, <1>7, <1>8, <1>9, SaidConcat
<1>11. SaidIn("assistant", w) = <<>> /\ SaidIn("assistant", x) \in Seq(AtomSet)
  BY <1>1, <1>6, <1>9, ThoughtsUnsaid, SaidType
<1>12. SaidIn("assistant", w \o x) = SaidIn("assistant", x)
  <2> DEFINE r == SaidIn("assistant", x)
  <2>1. r \in Seq(AtomSet) /\ SaidIn("assistant", w \o x) = <<>> \o r
    BY <1>10, <1>11
  <2> HIDE DEF r
  <2>2. <<>> \o r = r
    BY <2>1, Concats
  <2> QED BY <2>1, <2>2 DEF r
<1>13. w \o x \in Seq(AssistantBlocks) /\ Calls(w \o x) = ids
  BY <1>1, <1>4, <1>7, CallsAmong
<1>14. AnswerBlocks(reasoning, text, ids) = (w \o t) \o c
  BY DEF AnswerBlocks, w, t, c
<1> QED BY <1>5, <1>12, <1>13, <1>14 DEF x, t, c

\* The ids a server names are new.
LEMMA NewIdsAre ==
  ASSUME NEW k \in Nat, named \in Nat
  PROVE  NewIds(k) = Fresh(k, named) /\ NewIds(k) \in Seq(IdsOf) /\ IsInjective(NewIds(k)) /\ DOMAIN NewIds(k) = 1..k
<1>1. NewIds(k) = Fresh(k, named)
  BY DEF NewIds, Fresh
<1> QED BY <1>1, FreshIs

\* A client of calls is told of them, also if a chat server gives stop for a reason; but not if it gives the length.
LEMMA StopTold ==
  ASSUME NEW response, NEW finish \in {"stop", "length", "tool_calls"}, response.finish = finish,
         response.calls # <<>>, finish # "length"
  PROVE  StopOf(response) = "tool_use"
<1>1. DOMAIN FinishToStop = {"stop", "length", "tool_calls", "function_call", "content_filter"}
  BY DEF FinishToStop
<1>2. FinishToStop["stop"] = "end_turn" /\ FinishToStop["tool_calls"] = "tool_use"
  BY DEF FinishToStop
<1>3. StopReason("stop") = "end_turn" /\ StopReason("tool_calls") = "tool_use"
  BY <1>1, <1>2 DEF StopReason
<1> QED BY <1>3 DEF StopOf

\* A reason to call tools is told a chat client as such.
LEMMA FinishReached == FinishReason("tool_use") = "tool_calls"
<1>1. "tool_use" \in DOMAIN StopToFinish /\ StopToFinish["tool_use"] = "tool_calls"
  BY DEF StopToFinish
<1> QED BY <1>1 DEF FinishReason

\* A chat server answers an Anthropic client.
LEMMA ChatServerAnswersInv ==
  ASSUME TalkInv, NEW reasoning \in {<<>>, <<named + 1>>}, NEW text \in {<<>>, <<named + 1>>}, NEW k \in 0..MaxCalls,
         NEW finish \in {"stop", "length", "tool_calls"}, ChatServerAnswers(reasoning, text, k, finish)
  PROVE  TalkInv'
<1>0. /\ named \in Nat \ {0} /\ named + 1 \in Nat /\ k \in Nat /\ api = "anthropic" /\ system \in Seq(Nat)
      /\ open = <<>>
  BY ConversationAssumption DEF TalkInv, ChatServerAnswers
<1>1. reasoning \in Seq(Nat) /\ text \in Seq(Nat)
  <2>1. <<>> \in Seq(Nat) /\ <<named + 1>> \in Seq(Nat)
    BY <1>0
  <2> QED BY <2>1
<1> DEFINE ids == NewIds(k)
           response == Response(reasoning, text, ids, finish)
           answer == ResponseToAnthropic(response)
           content == AnswerBlocks(reasoning, text, ids)
           m == Message("assistant", answer.content)
<1>2. ids \in Seq(IdsOf) /\ IsInjective(ids) /\ DOMAIN ids = 1..k
  BY <1>0, NewIdsAre
<1>3. response.reasoning = reasoning /\ response.text = text /\ response.calls = ids /\ response.finish = finish
  BY DEF Response
<1>4. answer.content = content /\ answer.stop = StopOf(response)
  BY <1>3 DEF ResponseToAnthropic, AnthropicResponse, AnswerBlocks, ToolUses
<1>5. Optional(text) \o [i \in 1..k |-> ToolUse(ids[i])] = Optional(text) \o ToolUses(ids)
  BY <1>2 DEF ToolUses
<1>6. /\ Keep(<<m>>, SaidIn("assistant", Optional(text) \o ToolUses(ids)))
      /\ open' = Calls(answer.content)
      /\ turn' = After(Calls(answer.content), answer.stop = "tool_use", finish = "length")
      /\ named' = named + 1 + k /\ UNCHANGED <<api, system>>
  BY <1>5 DEF ChatServerAnswers, Calls
<1> HIDE DEF ids, response, answer
<1>7. content \in Seq(AssistantBlocks) /\ Calls(content) = ids
      /\ SaidIn("assistant", content) = SaidIn("assistant", Optional(text) \o ToolUses(ids))
  BY <1>1, <1>2, AnswerBlocksAre
<1> HIDE DEF content
<1>8. m \in AssistantTurns /\ m.role = "assistant" /\ m.content = content
  BY <1>4, <1>7 DEF Message, AssistantTurns
<1> HIDE DEF m
<1>9. m \in Talked /\ Results(m.content) = <<>>
  BY <1>7, <1>8, NothingPicked DEF Talked, Turned
<1>10. Keep(<<m>>, SaidIn(m.role, m.content)) /\ open' = Calls(m.content)
  BY <1>4, <1>6, <1>7, <1>8
<1>11. Answer(open, Results(m.content))
  BY <1>0, <1>9, NoCalls
<1>12. AnthropicSide' /\ Len(messages') <= MaxMessages /\ open' \in Seq(IdsOf)
  BY <1>0, <1>6, <1>9, <1>10, <1>11, AnthropicKeeps
<1>13. open' = ids
  BY <1>7, <1>8, <1>10
<1>14. turn' \in {"client", "cut"}
  <2>1. ids # <<>> /\ finish # "length" => answer.stop = "tool_use"
    BY <1>3, <1>4, StopTold
  <2>2. turn' = After(ids, answer.stop = "tool_use", finish = "length")
    BY <1>4, <1>6, <1>7
  <2> QED BY <2>1, <2>2 DEF After
<1>15. named' \in Nat \ {0}
  BY <1>0, <1>6
<1> QED BY <1>0, <1>2, <1>6, <1>12, <1>13, <1>14, <1>15 DEF TalkInv

LEMMA TextOfOptional == ASSUME NEW text \in Seq(Nat) PROVE TextOf(Optional(text)) = text
<1>1. Optional(text) \in Seq(TextBlocks)
  BY TextBlock
<1>2. TextOf(Optional(text)) = Joined(Optional(text))
  BY <1>1, TextOfTexts
<1>3. CASE text = <<>>
  <2>1. Optional(text) = <<>> /\ <<>> \in Seq(Blocks)
    BY <1>3, EmptySeq DEF Optional
  <2>2. Joined(<<>>) = <<>>
    BY <2>1, JoinedIs, SpreadEmpty
  <2> QED BY <1>2, <1>3, <2>1, <2>2
<1>4. CASE text # <<>>
  <2>1. Optional(text) = <<Text(text)>>
    BY <1>4 DEF Optional
  <2> QED BY <1>2, <2>1, JoinedOne
<1> QED BY <1>3, <1>4

\* An Anthropic server answers a chat client.
LEMMA AnthropicServerAnswersInv ==
  ASSUME TalkInv, NEW content \in ServerBlocks(named),
         NEW stop \in IF OfType(content, {"tool_use"}) = <<>> THEN {"end_turn", "max_tokens"} ELSE {"tool_use", "max_tokens"},
         AnthropicServerAnswers(content, stop)
  PROVE  TalkInv'
<1>0. named \in Nat \ {0} /\ api = "chat" /\ system \in Seq(Nat) /\ open = <<>> /\ ChatOK(messages, <<>>)
  BY DEF TalkInv, ChatSide, AnthropicServerAnswers
<1>1. content \in Seq(AssistantBlocks)
  BY <1>0, ServerBlocksAre
<1>2. PICK k \in Nat : Calls(content) = Fresh(k, named)
  BY <1>0, ServerBlocksAre
<1> DEFINE ids == Calls(content)
           t == TextOf(content)
           response == ResponseToChat(AnthropicResponse(content, stop))
           m == ChatMessage("assistant", Optional(t), ids, None)
<1>3. ids \in Seq(IdsOf) /\ IsInjective(ids)
  BY <1>0, <1>2, FreshIs
<1>4. response.text = t /\ response.calls = ids /\ response.finish = FinishReason(stop)
  BY DEF ResponseToChat, AnthropicResponse, Response, Calls
<1>5. /\ Keep(<<ChatMessage("assistant", Optional(response.text), response.calls, None)>>, SaidIn("assistant", content))
      /\ open' = response.calls
      /\ turn' = After(response.calls, response.finish = "tool_calls", stop = "max_tokens")
      /\ named' = named + 1 + MaxCalls /\ UNCHANGED <<api, system>>
  BY DEF AnthropicServerAnswers
<1>6. Keep(<<m>>, SaidIn("assistant", content)) /\ open' = ids
      /\ turn' = After(ids, FinishReason(stop) = "tool_calls", stop = "max_tokens")
  BY <1>4, <1>5
<1>7. t \in Seq(Nat)
  BY <1>1, KindsOf, TextOfType
<1> HIDE DEF ids, t, response
<1>8. m \in AssistantMsgs /\ m.calls = ids /\ m.parts = Optional(t) /\ m.role = "assistant"
  BY <1>3, <1>7, TextBlock DEF ChatMessage, AssistantMsgs
<1> HIDE DEF m
<1>9. m \in Uttered
  BY <1>8 DEF Uttered
<1>10. SaidInChat(m) = SaidIn("assistant", content)
  <2>1. TalkOfOne(m) = SaidInChat(m)
    BY <1>8 DEF TalkOfOne, IsSystem
  <2>2. TalkOfOne(m) = TextAtoms("assistant", t) \o IdAtoms("assistant", "tool_use", ids)
    BY <1>7, <1>8, AssistantTalk, TextOfOptional
  <2>3. SaidIn("assistant", content) = TextAtoms("assistant", t) \o IdAtoms("assistant", "tool_use", ids)
    BY <1>1, AssistantSaid DEF Roles, t, ids
  <2> QED BY <2>1, <2>2, <2>3
<1>11. <<m>> \in Seq(ChatMsgs) /\ SpokenInChat(<<m>>) = SaidIn("assistant", content) /\ ChatOK(messages \o <<m>>, ids)
  BY <1>0, <1>8, <1>9, <1>10, UtteredSaid
<1>12. ChatSide' /\ Len(messages') <= MaxMessages /\ open' \in Seq(IdsOf)
  BY <1>0, <1>5, <1>6, <1>11, ChatKeeps
<1>13. turn' \in {"client", "cut"}
  <2>1. ids # <<>> => OfType(content, {"tool_use"}) # <<>>
    BY IdsEmpty DEF ids, Calls
  <2>2. ids # <<>> /\ stop # "max_tokens" => FinishReason(stop) = "tool_calls"
    BY <2>1, FinishReached
  <2> QED BY <1>6, <2>2 DEF After
<1>14. named' \in Nat \ {0}
  BY <1>0, <1>5, ConversationAssumption
<1> QED BY <1>0, <1>3, <1>5, <1>6, <1>12, <1>13, <1>14 DEF TalkInv

-----------------------------------------------------------------------------
(* The theorems.                                                           *)

\* The invariant holds before anything is said.
LEMMA TalkInitInv == ASSUME TalkInit PROVE TalkInv
<1>0. api \in {"anthropic", "chat"} /\ messages = <<>> /\ turn = "client" /\ open = <<>> /\ named = 1
      /\ said = (IF system = <<>> THEN <<>> ELSE << <<"system", "text", 1>> >>)
      /\ (system = <<>> \/ (system = <<1>> /\ api = "anthropic"))
  BY DEF TalkInit
<1>1. system \in Seq(Nat)
  <2>1. <<>> \in Seq(Nat) /\ <<1>> \in Seq(Nat)
    OBVIOUS
  <2> QED BY <1>0, <2>1
<1>2. said = TextAtoms("system", system)
  <2>1. CASE system = <<>>
    BY <1>0, <2>1, TextAtomsEmpty
  <2>2. CASE system = <<1>>
    BY <1>0, <2>2 DEF TextAtoms
  <2> QED BY <1>0, <2>1, <2>2
<1>3. TextAtoms("system", system) \o <<>> = TextAtoms("system", system)
  BY <1>1, TextAtomsIs, Concats DEF Roles
<1>4. AnthropicSide
  BY <1>0, <1>2, <1>3, EmptyTurns, PairedEmpty DEF AnthropicSide
<1>5. CASE api = "chat"
  <2>1. system = <<>> /\ said = <<>>
    BY <1>0, <1>5
  <2>2. ChatSide
    BY <1>0, <2>1, EmptyOK, ChatEmpty DEF ChatSide
  <2> QED BY <1>0, <1>1, <1>4, <2>2, NoCalls, ConversationAssumption DEF TalkInv
<1>6. CASE api = "anthropic"
  BY <1>0, <1>1, <1>4, <1>6, NoCalls, ConversationAssumption DEF TalkInv
<1> QED BY <1>0, <1>5, <1>6

\* Every step keeps the invariant.
LEMMA TalkNextInv == ASSUME TalkInv, [TalkNext]_talkVars PROVE TalkInv'
<1>1. CASE UNCHANGED talkVars
  <2>1. /\ api' = api /\ system' = system /\ messages' = messages /\ turn' = turn /\ open' = open
        /\ named' = named /\ said' = said
    BY <1>1 DEF talkVars
  <2> QED BY <2>1 DEF TalkInv, AnthropicSide, ChatSide
<1>2. CASE TalkNext
  <2>1. CASE \E content \in Contents(named + 1) : AnthropicSpeaks(content)
    BY <2>1, AnthropicSpeaksInv
  <2>2. CASE AnthropicSpeaksPlainly
    BY <2>2, AnthropicSpeaksPlainlyInv
  <2>3. CASE ChatAnswersCalls
    BY <2>3, ChatAnswersCallsInv
  <2>4. CASE \E role \in {"system", "user", "assistant"}, part \in Utterances(named + 1) : ChatSpeaks(role, part)
    BY <2>4, ChatSpeaksInv
  <2>5. CASE ChatSends
    BY <2>5, ChatSendsInv
  <2>6. CASE \E reasoning, text \in {<<>>, <<named + 1>>}, k \in 0..MaxCalls, finish \in {"stop", "length", "tool_calls"} :
               ChatServerAnswers(reasoning, text, k, finish)
    BY <2>6, ChatServerAnswersInv
  <2>7. CASE \E content \in ServerBlocks(named) :
               \E stop \in IF OfType(content, {"tool_use"}) = <<>> THEN {"end_turn", "max_tokens"} ELSE {"tool_use", "max_tokens"} :
                 AnthropicServerAnswers(content, stop)
    BY <2>7, AnthropicServerAnswersInv
  <2> QED BY <1>2, <2>1, <2>2, <2>3, <2>4, <2>5, <2>6, <2>7 DEF TalkNext
<1> QED BY <1>1, <1>2

\* The invariant of a conversation: what a client keeps and would send next is well made but for
\* the calls it is about to answer, and says what was said (Keep, and the translators of both ways).
THEOREM TalkInductive == TalkSpec => []TalkInv
<1>1. TalkInit => TalkInv
  BY TalkInitInv
<1>2. TalkInv /\ [TalkNext]_talkVars => TalkInv'
  BY TalkNextInv
<1> QED BY <1>1, <1>2, PTL DEF TalkSpec

\* The variables of a conversation have their types.
THEOREM TalkTypeCorrect == TalkSpec => []TalkTypeOK
<1>1. TalkInv => TalkTypeOK
  BY InvTypeOK
<1> QED BY <1>1, TalkInductive, PTL

\* A client always sees the calls it is to answer: the stop reason it is told says that tools were
\* called, of the reasons stop and tool_calls (tool_use), but not if its answer was cut short
\* (chat_response_to_anthropic, anthropic_response_to_chat).
THEOREM CallsAreSeen == TalkSpec => []CallsSeen
<1>1. TalkInv => CallsSeen
  BY InvCallsSeen
<1> QED BY <1>1, TalkInductive, PTL

\* A chat server gets the calls of every assistant message answered by the messages next to it, one
\* each, whoever the client (anthropic_request_to_chat, and both ways back).
THEOREM ChatsWellFormed == TalkSpec => []ChatWellFormed
<1>1. TalkInv => ChatWellFormed
  BY InvChatWellFormed
<1> QED BY <1>1, TalkInductive, PTL

\* An Anthropic server gets turns of user and assistant one after the other, the user's first, none
\* empty, and the results of a turn's calls at the head of the next (chat_request_to_anthropic).
THEOREM RequestsWellFormed == TalkSpec => []AnthropicWellFormed
<1>1. TalkInv => AnthropicWellFormed
  BY InvAnthropicWellFormed
<1> QED BY <1>1, TalkInductive, PTL

\* What the server is told in a request, there and back again, is what was said, by each role in
\* order (anthropic_request_to_chat, chat_request_to_anthropic).
THEOREM TranscriptsKept == TalkSpec => []TranscriptKept
<1>1. TalkInv => TranscriptKept
  BY InvTranscriptKept
<1> QED BY <1>1, TalkInductive, PTL
=============================================================================
