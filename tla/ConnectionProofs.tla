-------------------------- MODULE ConnectionProofs --------------------------
(***************************************************************************)
(* Theorems about one connection, for any messages, any sizes of them and  *)
(* any cuts of the stream.  No induction over the bytes is needed: what    *)
(* the stream looks like (Flow) is said of neighbours and of the beginnings*)
(* of messages, and both survive a cut at the end of a message.            *)
(***************************************************************************)
EXTENDS Connection, SequenceTheorems, TLAPS

Size(m) == HeaderSize + m.length

\* The bytes on their way: those the decoder holds, then those not yet read.
Stream == (IF pc = "decoding" THEN Rest ELSE buffer) \o transit

UnitAt(k, i) == [message |-> k, place |-> i]

\* s is what is left of the stream of the messages q when n of them have been
\* handled: it begins with the next message and ends with the last one, a
\* message follows a message, and its own bytes follow its beginning.
Begins(s, q, n) == IF s = <<>> THEN n = Len(q) ELSE s[1] = UnitAt(n + 1, 1)

Ends(s, q) == s # <<>> => s[Len(s)] = UnitAt(Len(q), Size(q[Len(q)]))

Follows(s, q) ==
    \A i \in 1..Len(s) - 1 :
        s[i].place = Size(q[s[i].message]) => s[i + 1] = UnitAt(s[i].message + 1, 1)

Unbroken(s, q) ==
    \A i, j \in 1..Len(s) :
        s[i].place = 1 /\ i <= j /\ j - i < Size(q[s[i].message])
            => s[j] = UnitAt(s[i].message, j - i + 1)

Flow(s, q, n) ==
    /\ s \in Seq(Unit)
    /\ \A i \in 1..Len(s) : s[i].message \in 1..Len(q)
    /\ Begins(s, q, n)
    /\ Ends(s, q)
    /\ Follows(s, q)
    /\ Unbroken(s, q)
-----------------------------------------------------------------------------
(* Cuts of a sequence *)

\* What remains when the first k elements are cut off, as the loop of
\* decodeMessages does with decoded bytes.
LEMMA CutBefore ==
    ASSUME NEW S, NEW s \in Seq(S), NEW k \in 0..Len(s)
    PROVE  /\ SubSeq(s, k + 1, Len(s)) \in Seq(S)
           /\ Len(SubSeq(s, k + 1, Len(s))) = Len(s) - k
           /\ \A i \in 1..Len(s) - k : SubSeq(s, k + 1, Len(s))[i] = s[k + i]
<1>1. Len(s) \in Nat /\ k \in Nat /\ k + 1 \in Int /\ Len(s) \in Int
      BY LenProperties
<1>2. \A i \in k + 1..Len(s) : s[i] \in S
      BY <1>1
<1>3. /\ SubSeq(s, k + 1, Len(s)) \in Seq(S)
      /\ Len(SubSeq(s, k + 1, Len(s))) = IF k + 1 <= Len(s) THEN Len(s) - (k + 1) + 1 ELSE 0
      /\ \A i \in 1..Len(s) - (k + 1) + 1 : SubSeq(s, k + 1, Len(s))[i] = s[(k + 1) + i - 1]
      BY <1>1, <1>2, SubSeqProperties
<1> QED
    BY <1>1, <1>3

\* Two cuts are one.
LEMMA CutTwice ==
    ASSUME NEW S, NEW s \in Seq(S), NEW k \in 0..Len(s), NEW l \in 0..Len(s) - k
    PROVE  SubSeq(SubSeq(s, k + 1, Len(s)), l + 1, Len(s) - k) = SubSeq(s, k + l + 1, Len(s))
<1> DEFINE r == SubSeq(s, k + 1, Len(s))
           x == SubSeq(r, l + 1, Len(s) - k)
           y == SubSeq(s, (k + l) + 1, Len(s))
<1>1. Len(s) \in Nat /\ k \in Nat /\ l \in Nat /\ k + l \in 0..Len(s)
      BY LenProperties
<1>2. /\ r \in Seq(S) /\ Len(r) = Len(s) - k
      /\ \A i \in 1..Len(s) - k : r[i] = s[k + i]
      BY CutBefore
<1>3. /\ y \in Seq(S) /\ Len(y) = Len(s) - (k + l)
      /\ \A i \in 1..Len(s) - (k + l) : y[i] = s[(k + l) + i]
      BY <1>1, CutBefore
<1> HIDE DEF r
<1>4. /\ x \in Seq(S) /\ Len(x) = Len(r) - l
      /\ \A i \in 1..Len(r) - l : x[i] = r[l + i]
      BY <1>1, <1>2, CutBefore
<1> HIDE DEF x, y
<1>5. Len(x) = Len(y)
      BY <1>1, <1>2, <1>3, <1>4
<1>6. ASSUME NEW i \in 1..Len(x)
      PROVE  x[i] = y[i]
      <2>1. i \in 1..Len(r) - l /\ l + i \in 1..Len(s) - k /\ i \in 1..Len(s) - (k + l)
            BY <1>1, <1>2, <1>4
      <2>2. x[i] = s[k + (l + i)] /\ y[i] = s[(k + l) + i] /\ k + (l + i) = (k + l) + i
            BY <2>1, <1>1, <1>2, <1>3, <1>4
      <2> QED
          BY <2>2
<1>7. x = y
      BY <1>3, <1>4, <1>5, <1>6, SeqEqual
<1> QED
    BY <1>1, <1>7 DEF x, y, r

\* A cut of the first part is a cut of the whole.
LEMMA CutFirst ==
    ASSUME NEW S, NEW r \in Seq(S), NEW t \in Seq(S), NEW l \in 1..Len(r)
    PROVE  SubSeq(r, l + 1, Len(r)) \o t = SubSeq(r \o t, l + 1, Len(r \o t))
<1> DEFINE s == r \o t
           a == SubSeq(r, l + 1, Len(r))
           x == a \o t
           y == SubSeq(s, l + 1, Len(s))
<1>1. Len(r) \in Nat /\ Len(t) \in Nat /\ l \in Nat /\ l \in 0..Len(r)
      BY LenProperties
<1>2. /\ s \in Seq(S) /\ Len(s) = Len(r) + Len(t)
      /\ \A i \in 1..Len(r) + Len(t) : s[i] = IF i <= Len(r) THEN r[i] ELSE t[i - Len(r)]
      BY ConcatProperties
<1>3. /\ a \in Seq(S) /\ Len(a) = Len(r) - l
      /\ \A i \in 1..Len(r) - l : a[i] = r[l + i]
      BY <1>1, CutBefore
<1> HIDE DEF s, a
<1>4. /\ x \in Seq(S) /\ Len(x) = Len(a) + Len(t)
      /\ \A i \in 1..Len(a) + Len(t) : x[i] = IF i <= Len(a) THEN a[i] ELSE t[i - Len(a)]
      BY <1>3, ConcatProperties
<1>5. /\ y \in Seq(S) /\ Len(y) = Len(s) - l
      /\ \A i \in 1..Len(s) - l : y[i] = s[l + i]
      BY <1>1, <1>2, CutBefore
<1> HIDE DEF x, y
<1>6. Len(x) = Len(y)
      BY <1>1, <1>2, <1>3, <1>4, <1>5
<1>7. ASSUME NEW i \in 1..Len(x)
      PROVE  x[i] = y[i]
      <2>1. /\ i \in 1..Len(a) + Len(t) /\ i \in 1..Len(s) - l
            /\ l + i \in 1..Len(r) + Len(t)
            BY <1>1, <1>2, <1>3, <1>4
      <2>2. y[i] = s[l + i]
            BY <2>1, <1>5
      <2>3. CASE i <= Len(a)
            <3>1. x[i] = a[i] /\ i \in 1..Len(r) - l /\ l + i <= Len(r)
                  BY <2>1, <2>3, <1>1, <1>3, <1>4
            <3> QED
                BY <3>1, <2>1, <2>2, <1>2, <1>3
      <2>4. CASE ~ (i <= Len(a))
            <3>1. ~ (l + i <= Len(r)) /\ (l + i) - Len(r) = i - Len(a)
                  BY <2>1, <2>4, <1>1, <1>3
            <3> QED
                BY <3>1, <2>1, <2>2, <2>4, <1>2, <1>4
      <2> QED
          BY <2>3, <2>4
<1>8. x = y
      BY <1>4, <1>5, <1>6, <1>7, SeqEqual
<1> QED
    BY <1>8 DEF x, y, s, a
-----------------------------------------------------------------------------
(* Messages and units *)

\* A message has at least the bytes of its header (the header read in
\* MessageDecoderImpl::decodeOneMessage).
LEMMA MessageFacts ==
    ASSUME NEW m \in Message
    PROVE  /\ m.length \in Nat
           /\ Size(m) \in Nat
           /\ Size(m) >= 1
           /\ Size(m) >= HeaderSize
<1>1. m \in [command : STRING, length : 0..Word - 1, good : BOOLEAN,
             wire : {"ok", "magic", "checksum"}]
      BY ConnectionAssumption
<1>2. m.length \in 0..Word - 1
      BY <1>1
<1> QED
      BY <1>2, ConnectionAssumption DEF Size

\* What the decoder takes for the size of a message is at most its size, and is
\* its size unless the sum wraps around (MessageCodec.cpp:160).
LEMMA TotalFacts ==
    ASSUME NEW m \in Message
    PROVE  /\ Total(m) \in Nat
           /\ Total(m) <= Size(m)
           /\ ~ WrapsAround(m) => Total(m) = Size(m)
<1> DEFINE x == HeaderSize + m.length
<1>1. x \in Nat /\ Word \in Nat /\ Word > 0
      BY MessageFacts, ConnectionAssumption
<1>2. Total(m) = x % Word /\ Size(m) = x /\ (WrapsAround(m) <=> x >= Word)
      BY DEF Total, Size, WrapsAround
<1> HIDE DEF x
<1>3. x % Word \in Nat /\ x % Word <= x /\ (x < Word => x % Word = x)
      BY <1>1
<1> QED
    BY <1>1, <1>2, <1>3

\* The bytes of a message are as many as its size, numbered from 1
\* (MessageEncoder::encodeMessage).
LEMMA UnitsFacts ==
    ASSUME NEW m \in Message, NEW k \in Nat
    PROVE  /\ Units(k, m) \in Seq(Unit)
           /\ Len(Units(k, m)) = Size(m)
           /\ \A i \in 1..Size(m) : Units(k, m)[i] = UnitAt(k, i)
<1> DEFINE size == HeaderSize + m.length
<1>1. size \in Nat /\ Size(m) = size
      BY MessageFacts, ConnectionAssumption DEF Size
<1>2. Units(k, m) = [i \in 1..size |-> UnitAt(k, i)]
      BY DEF Units, UnitAt
<1> HIDE DEF size
<1>3. \A i \in 1..size : UnitAt(k, i) \in Unit
      BY <1>1 DEF UnitAt, Unit
<1> QED
    BY <1>1, <1>2, <1>3

\* What a peer sends is added at the end of the stream (PendingNode and Node
\* read it with on_socket_receive).
LEMMA FlowGrows ==
    ASSUME NEW q \in Seq(Message), NEW s, NEW n \in Nat, NEW m \in Message,
           Flow(s, q, n)
    PROVE  Flow(s \o Units(Len(q) + 1, m), Append(q, m), n)
<1> DEFINE u == Units(Len(q) + 1, m)
           t == s \o u
           r == Append(q, m)
<1>1. /\ s \in Seq(Unit) /\ u \in Seq(Unit) /\ t \in Seq(Unit)
      /\ Len(u) = Size(m) /\ Len(t) = Len(s) + Len(u)
      /\ Len(s) \in Nat /\ Len(u) \in Nat /\ Len(q) \in Nat
      /\ Size(m) \in Nat /\ Size(m) >= 1
      BY UnitsFacts, MessageFacts DEF Flow
<1>2. \A i \in 1..Len(t) : t[i] = IF i <= Len(s) THEN s[i] ELSE UnitAt(Len(q) + 1, i - Len(s))
      <2> SUFFICES ASSUME NEW i \in 1..Len(t)
                   PROVE  t[i] = IF i <= Len(s) THEN s[i] ELSE UnitAt(Len(q) + 1, i - Len(s))
          OBVIOUS
      <2>1. CASE i <= Len(s)
            BY <1>1, <2>1
      <2>2. CASE ~ (i <= Len(s))
            <3>1. i - Len(s) \in 1..Size(m)
                  BY <1>1, <2>2
            <3>2. t[i] = u[i - Len(s)]
                  BY <1>1, <2>2
            <3> QED
                  BY <2>2, <3>1, <3>2, <1>1, UnitsFacts
      <2> QED
          BY <2>1, <2>2
<1>3. /\ Len(r) = Len(q) + 1
      /\ r[Len(r)] = m
      /\ \A k \in 1..Len(q) : r[k] = q[k]
      BY <1>1
<1>4. \A i \in 1..Len(s) : s[i].message \in 1..Len(q) /\ r[s[i].message] = q[s[i].message]
      BY <1>3 DEF Flow
<1>5. \A i \in 1..Size(m) : /\ UnitAt(Len(q) + 1, i).message = Len(q) + 1
                            /\ UnitAt(Len(q) + 1, i).place = i
      BY DEF UnitAt
<1> HIDE DEF u, t, r
<1>6. \A i \in 1..Len(t) : t[i].message \in 1..Len(r)
      <2> SUFFICES ASSUME NEW i \in 1..Len(t)
                   PROVE  t[i].message \in 1..Len(r)
          OBVIOUS
      <2>1. 1..Len(q) \subseteq 1..Len(r) /\ Len(q) + 1 \in 1..Len(r)
            BY <1>1, <1>3
      <2>2. CASE i <= Len(s)
            <3>1. i \in 1..Len(s) /\ t[i] = s[i]
                  BY <2>2, <1>1, <1>2
            <3> QED
                BY <3>1, <2>1, <1>4
      <2>3. CASE ~ (i <= Len(s))
            <3>1. t[i] = UnitAt(Len(q) + 1, i - Len(s))
                  BY <2>3, <1>2
            <3> QED
                BY <3>1, <2>1 DEF UnitAt
      <2> QED
          BY <2>2, <2>3
<1>7. Begins(t, r, n)
      <2>1. t # <<>>
            BY <1>1
      <2>2. CASE s = <<>>
            <3>1. n = Len(q) /\ Len(s) = 0 /\ 1 \in 1..Len(t)
                  BY <2>2, <1>1 DEF Flow, Begins
            <3>2. t[1] = UnitAt(Len(q) + 1, 1 - Len(s))
                  BY <3>1, <1>2
            <3> QED
                BY <2>1, <3>1, <3>2 DEF Begins
      <2>3. CASE s # <<>>
            <3>1. s[1] = UnitAt(n + 1, 1) /\ 1 \in 1..Len(t) /\ 1 <= Len(s)
                  BY <2>3, <1>1, EmptySeq DEF Flow, Begins
            <3>2. t[1] = s[1]
                  BY <3>1, <1>2
            <3> QED
                BY <2>1, <3>1, <3>2 DEF Begins
      <2> QED
          BY <2>2, <2>3
<1>8. Ends(t, r)
      <2>1. t[Len(t)] = UnitAt(Len(q) + 1, Size(m))
            BY <1>1, <1>2
      <2> QED
          BY <2>1, <1>3 DEF Ends
<1>9. Follows(t, r)
      <2> SUFFICES ASSUME NEW i \in 1..Len(t) - 1,
                          t[i].place = Size(r[t[i].message])
                   PROVE  t[i + 1] = UnitAt(t[i].message + 1, 1)
          BY DEF Follows
      <2>1. CASE i < Len(s)
            <3>1. i \in 1..Len(s) - 1 /\ i \in 1..Len(s) /\ i + 1 \in 1..Len(t)
                  BY <2>1, <1>1
            <3>2. t[i] = s[i] /\ t[i + 1] = s[i + 1]
                  BY <3>1, <2>1, <1>1, <1>2
            <3>3. s[i].place = Size(q[s[i].message])
                  BY <3>1, <3>2, <1>4
            <3> QED
                BY <3>1, <3>2, <3>3 DEF Flow, Follows
      <2>2. CASE i = Len(s)
            <3>1. t[i] = UnitAt(Len(q), Size(q[Len(q)])) /\ t[i + 1] = UnitAt(Len(q) + 1, 1)
                  BY <2>2, <1>1, <1>2 DEF Flow, Ends
            <3> QED
                BY <3>1 DEF UnitAt
      <2>3. CASE i > Len(s)
            <3>1. i \in 1..Len(t) /\ ~ (i <= Len(s)) /\ i - Len(s) < Size(m)
                  BY <2>3, <1>1
            <3>2. t[i] = UnitAt(Len(q) + 1, i - Len(s))
                  BY <3>1, <1>2
            <3>3. t[i].message = Len(r) /\ t[i].place = i - Len(s)
                  BY <3>2, <1>3 DEF UnitAt
            <3> QED
                BY <3>1, <3>3, <1>1, <1>3
      <2> QED
          BY <2>1, <2>2, <2>3, <1>1
<1>10. Unbroken(t, r)
      <2> SUFFICES ASSUME NEW i \in 1..Len(t), NEW j \in 1..Len(t),
                          t[i].place = 1, i <= j, j - i < Size(r[t[i].message])
                   PROVE  t[j] = UnitAt(t[i].message, j - i + 1)
          BY DEF Unbroken
      <2>1. CASE j <= Len(s)
            <3>1. i \in 1..Len(s) /\ j \in 1..Len(s) /\ i <= Len(s) /\ j <= Len(s)
                  BY <2>1, <1>1
            <3>2. t[i] = s[i] /\ t[j] = s[j]
                  BY <3>1, <1>2
            <3>3. s[i].place = 1 /\ j - i < Size(q[s[i].message])
                  BY <3>1, <3>2, <1>4
            <3> QED
                BY <3>1, <3>2, <3>3 DEF Flow, Unbroken
      <2>2. CASE i <= Len(s) /\ j > Len(s)
            <3>0. /\ i \in 1..Len(s) /\ Len(s) \in 1..Len(s) /\ Len(s) - i < j - i
                  /\ Len(s) - i \in Int /\ j - i \in Int
                  BY <2>2, <1>1
            <3>1. /\ t[i] = s[i] /\ s[i].message \in 1..Len(q) /\ s[i].place = 1
                  /\ Len(s) - i < Size(q[s[i].message])
                  /\ j - i < Size(q[s[i].message])
                  <4>1. t[i] = s[i]
                        BY <3>0, <2>2, <1>2
                  <4>2. s[i].message \in 1..Len(q) /\ j - i < Size(q[s[i].message])
                        BY <3>0, <4>1, <1>4
                  <4>3. q[s[i].message] \in Message
                        BY <4>2
                  <4> QED
                      BY <3>0, <4>1, <4>2, <4>3, MessageFacts
            <3>2. s[Len(s)] = UnitAt(s[i].message, Len(s) - i + 1)
                  BY <3>0, <3>1, <2>2 DEF Flow, Unbroken
            <3>3. s[Len(s)] = UnitAt(Len(q), Size(q[Len(q)]))
                  BY <3>0, EmptySeq DEF Flow, Ends
            <3>4. s[i].message = Len(q) /\ Len(s) - i + 1 = Size(q[Len(q)])
                  BY <3>2, <3>3 DEF UnitAt
            <3>5. j - i < Size(q[Len(q)])
                  BY <3>1, <3>4
            <3>6. q[Len(q)] \in Message
                  BY <3>1, <3>4
            <3>7. Size(q[Len(q)]) \in Nat
                  BY <3>6, MessageFacts
            <3> QED
                BY <3>0, <3>4, <3>5, <3>7
      <2>3. CASE i > Len(s)
            <3>1. t[i] = UnitAt(Len(q) + 1, i - Len(s)) /\ t[j] = UnitAt(Len(q) + 1, j - Len(s))
                  BY <2>3, <1>1, <1>2
            <3>2. i - Len(s) = 1
                  BY <3>1 DEF UnitAt
            <3> QED
                BY <3>1, <3>2, <1>1 DEF UnitAt
      <2> QED
          BY <2>1, <2>2, <2>3, <1>1
<1> QED
    <2>1. Flow(t, r, n)
          BY <1>1, <1>6, <1>7, <1>8, <1>9, <1>10 DEF Flow
    <2> QED
        BY <2>1 DEF t, u, r

\* A message that is decoded is the next one, whole, and the stream goes on with
\* the one after it (MessageDecoderImpl::decodeOneMessage).
LEMMA FlowShrinks ==
    ASSUME NEW q \in Seq(Message), NEW s, NEW n \in Nat, Flow(s, q, n),
           NEW l \in 1..Len(s), n + 1 \in 1..Len(q), l = Size(q[n + 1])
    PROVE  Flow(SubSeq(s, l + 1, Len(s)), q, n + 1)
<1> DEFINE t == SubSeq(s, l + 1, Len(s))
<1>1. /\ s \in Seq(Unit) /\ t \in Seq(Unit) /\ Len(s) \in Nat /\ l \in Nat
      /\ Len(t) = Len(s) - l /\ Len(q) \in Nat
      /\ \A i \in 1..Len(t) : i + l \in 1..Len(s) /\ t[i] = s[i + l]
      <2>1. /\ s \in Seq(Unit) /\ Len(s) \in Nat /\ l \in 0..Len(s) /\ l \in Nat
            /\ Len(q) \in Nat
            BY DEF Flow
      <2>2. /\ t \in Seq(Unit) /\ Len(t) = Len(s) - l
            /\ \A i \in 1..Len(s) - l : t[i] = s[l + i]
            BY <2>1, CutBefore
      <2> HIDE DEF t
      <2>3. \A i \in 1..Len(s) - l : i + l \in 1..Len(s) /\ i + l = l + i
            BY <2>1
      <2> QED
          BY <2>1, <2>2, <2>3
<1>2. s[l] = UnitAt(n + 1, l)
      <2>1. s[1] = UnitAt(n + 1, 1)
            BY <1>1 DEF Flow, Begins
      <2>2. s[1].place = 1 /\ s[1].message = n + 1
            BY <2>1 DEF UnitAt
      <2>3. 1 \in 1..Len(s) /\ l \in 1..Len(s) /\ 1 <= l /\ l - 1 < Size(q[s[1].message])
            BY <2>2, <1>1
      <2>4. s[l] = UnitAt(s[1].message, l - 1 + 1)
            BY <2>2, <2>3 DEF Flow, Unbroken
      <2> QED
          BY <2>2, <2>4, <1>1
<1> HIDE DEF t
<1>3. \A i \in 1..Len(t) : t[i].message \in 1..Len(q)
      BY <1>1 DEF Flow
<1>4. Begins(t, q, n + 1)
      <2>1. CASE t = <<>>
            <3>1. l = Len(s) /\ s # <<>>
                  BY <2>1, <1>1
            <3>2. UnitAt(n + 1, l) = UnitAt(Len(q), Size(q[Len(q)]))
                  BY <3>1, <1>2 DEF Flow, Ends
            <3>3. n + 1 = Len(q)
                  BY <3>2 DEF UnitAt
            <3> QED
                BY <2>1, <3>3 DEF Begins
      <2>2. CASE t # <<>>
            <3>1. Len(t) # 0
                  BY <2>2, <1>1
            <3>2. l \in 1..Len(s) - 1 /\ t[1] = s[l + 1]
                  BY <3>1, <1>1
            <3>3. s[l].message = n + 1 /\ s[l].place = Size(q[s[l].message])
                  BY <1>2 DEF UnitAt
            <3>4. s[l + 1] = UnitAt(s[l].message + 1, 1)
                  BY <3>2, <3>3 DEF Flow, Follows
            <3> QED
                BY <2>2, <3>2, <3>3, <3>4 DEF Begins
      <2> QED
          BY <2>1, <2>2
<1>5. Ends(t, q)
      <2> SUFFICES ASSUME t # <<>>
                   PROVE  t[Len(t)] = UnitAt(Len(q), Size(q[Len(q)]))
          BY DEF Ends
      <2>1. Len(t) # 0
            BY <1>1
      <2>2. t[Len(t)] = s[Len(s)] /\ s # <<>>
            BY <2>1, <1>1
      <2> QED
          BY <2>2 DEF Flow, Ends
<1>a. Len(s) \in Nat /\ l \in Nat /\ Len(t) = Len(s) - l
      BY <1>1
<1>6. Follows(t, q)
      <2> SUFFICES ASSUME NEW i \in 1..Len(t) - 1, t[i].place = Size(q[t[i].message])
                   PROVE  t[i + 1] = UnitAt(t[i].message + 1, 1)
          BY DEF Follows
      <2>1. i \in 1..Len(t) /\ i + 1 \in 1..Len(t) /\ (i + 1) + l = (i + l) + 1
            BY <1>a
      <2>2. t[i] = s[i + l] /\ t[i + 1] = s[(i + l) + 1] /\ i + l \in 1..Len(s)
            BY <2>1, <1>1
      <2>3. i + l \in 1..Len(s) - 1
            BY <1>a
      <2> QED
          BY <2>2, <2>3 DEF Flow, Follows
<1>7. Unbroken(t, q)
      <2> SUFFICES ASSUME NEW i \in 1..Len(t), NEW j \in 1..Len(t),
                          t[i].place = 1, i <= j, j - i < Size(q[t[i].message])
                   PROVE  t[j] = UnitAt(t[i].message, j - i + 1)
          BY DEF Unbroken
      <2>1. (j + l) - (i + l) = j - i /\ i + l <= j + l
            BY <1>a
      <2>2. /\ i + l \in 1..Len(s) /\ j + l \in 1..Len(s)
            /\ t[i] = s[i + l] /\ t[j] = s[j + l]
            BY <1>1
      <2>3. s[j + l] = UnitAt(s[i + l].message, (j + l) - (i + l) + 1)
            BY <2>1, <2>2 DEF Flow, Unbroken
      <2> QED
          BY <2>1, <2>2, <2>3
<1> QED
    <2>1. Flow(t, q, n + 1)
          BY <1>1, <1>3, <1>4, <1>5, <1>6, <1>7 DEF Flow
    <2> QED
        BY <2>1 DEF t
-----------------------------------------------------------------------------
(* The decoder *)

DecoderTypes ==
    /\ sent \in Seq(Message)
    /\ transit \in Seq(Unit)
    /\ buffer \in Seq(Unit)
    /\ data \in Seq(Unit)
    /\ decoded \in 0..Len(data)
    /\ pc \in {"idle", "decoding"}
    /\ handled \in Seq([message : Message, by : {"pending", "node"}])
    /\ listener \in {"pending", "node"}

\* What is held between two reads is no whole message.
StreamInv ==
    /\ DecoderTypes
    /\ Flow(Stream, sent, Len(handled))
    /\ pc = "idle" => Verdict(buffer) = "incomplete"

\* What decodeMessages has still to decode is the data after decodedSize.
LEMMA RestFacts ==
    ASSUME DecoderTypes
    PROVE  /\ Rest \in Seq(Unit)
           /\ Len(Rest) = Len(data) - decoded
           /\ \A i \in 1..Len(Rest) : Rest[i] = data[decoded + i]
<1>1. data \in Seq(Unit) /\ decoded \in 0..Len(data)
      BY DEF DecoderTypes
<1> QED
    BY ONLY <1>1, CutBefore DEF Rest

\* The first bytes of what is held are the first of the stream.
LEMMA HeldFacts ==
    ASSUME StreamInv, NEW held \in Seq(Unit),
           Stream = held \o transit, held # <<>>
    PROVE  /\ Len(handled) + 1 \in 1..Len(sent)
           /\ held[1] = UnitAt(Len(handled) + 1, 1)
           /\ HeaderOf(held) = sent[Len(handled) + 1]
           /\ HeaderOf(held) \in Message
<1>1. transit \in Seq(Unit) /\ sent \in Seq(Message) /\ Len(handled) \in Nat
      BY DEF StreamInv, DecoderTypes
<1>2. Stream # <<>> /\ Stream[1] = held[1] /\ 1 \in 1..Len(Stream)
      BY <1>1
<1>3. held[1] = UnitAt(Len(handled) + 1, 1) /\ held[1].message \in 1..Len(sent)
      BY <1>2 DEF StreamInv, Flow, Begins
<1>4. held[1].message = Len(handled) + 1
      BY <1>3 DEF UnitAt
<1> QED
    BY <1>1, <1>3, <1>4 DEF HeaderOf

\* A message that decodeOneMessage makes out is the next one, whole.
LEMMA DecodedFacts ==
    ASSUME StreamInv, pc = "decoding", Verdict(Rest) = "message"
    PROVE  /\ Len(handled) + 1 \in 1..Len(sent)
           /\ HeaderOf(Rest) = sent[Len(handled) + 1]
           /\ HeaderOf(Rest) \in Message
           /\ Size(HeaderOf(Rest)) \in 1..Len(Rest)
           /\ Total(HeaderOf(Rest)) = Size(HeaderOf(Rest))
<1>1. Rest \in Seq(Unit) /\ Len(Rest) \in Nat
      BY RestFacts DEF StreamInv
<1>2. Len(Rest) >= HeaderSize /\ Len(Rest) >= Size(HeaderOf(Rest))
      <2>1. /\ ~ (Len(Rest) < HeaderSize) /\ ~ (Len(Rest) < Total(HeaderOf(Rest)))
            /\ ~ WrapsAround(HeaderOf(Rest))
            BY DEF Verdict
      <2>2. Rest # <<>>
            BY <2>1, <1>1, ConnectionAssumption
      <2>3. HeaderOf(Rest) \in Message
            BY <2>2, <1>1, HeldFacts DEF Stream
      <2> QED
          BY <2>1, <2>3, <1>1, MessageFacts, TotalFacts, ConnectionAssumption
<1>3. Rest # <<>>
      BY <1>1, <1>2, ConnectionAssumption
<1>4. /\ Len(handled) + 1 \in 1..Len(sent)
      /\ HeaderOf(Rest) = sent[Len(handled) + 1]
      /\ HeaderOf(Rest) \in Message
      BY <1>1, <1>3, HeldFacts DEF Stream
<1>5. ~ WrapsAround(HeaderOf(Rest))
      BY DEF Verdict
<1> QED
    BY <1>1, <1>2, <1>4, <1>5, MessageFacts, TotalFacts

\* Handling a message appends it, whoever handles it and however it ends.
LEMMA HandlesFacts ==
    ASSUME DecoderTypes, NEW m \in Message, Handles(m)
    PROVE  /\ handled' = Append(handled, [message |-> m, by |-> listener])
           /\ handled' \in Seq([message : Message, by : {"pending", "node"}])
           /\ Len(handled') = Len(handled) + 1
           /\ listener' \in {"pending", "node"}
<1>1. handled' = Append(handled, [message |-> m, by |-> listener])
      BY DEF Handles
<1>2. [message |-> m, by |-> listener] \in [message : Message, by : {"pending", "node"}]
      BY DEF DecoderTypes
<1>3. listener' \in {"pending", "node"}
      BY DEF Handles, PendingHandles, NodeHandles, PendingError, PendingVerack, node,
             DecoderTypes
<1> QED
    BY <1>1, <1>2, <1>3, AppendProperties DEF DecoderTypes

\* A connection starts with nothing sent, read or handled (the constructors of
\* MessageDecoderImpl and PendingNodeImpl).
LEMMA InitStream == Init => StreamInv
<1> SUFFICES ASSUME Init
             PROVE  StreamInv
    OBVIOUS
<1>1. DecoderTypes
      BY EmptySeq DEF Init, DecoderTypes
<1>2. Stream = <<>>
      BY EmptySeq, ConcatEmptySeq DEF Init, Stream
<1>3. Flow(Stream, sent, Len(handled))
      BY <1>2, EmptySeq DEF Init, Flow, Begins, Ends, Follows, Unbroken
<1>4. Verdict(buffer) = "incomplete"
      BY ConnectionAssumption, EmptySeq DEF Init, Verdict
<1> QED
    BY <1>1, <1>3, <1>4 DEF StreamInv

\* The stream stays one of whole messages in order when the peer sends another, and
\* what the decoder holds is no more complete (MessageDecoderImpl::decode).
LEMMA SendsStream ==
    ASSUME StreamInv, NEW m \in Message, PeerSends(m)
    PROVE  StreamInv'
<1> DEFINE u == Units(Len(sent) + 1, m)
<1>1. /\ sent' = Append(sent, m) /\ transit' = transit \o u
      /\ UNCHANGED <<buffer, data, decoded, pc, listener, handled>>
      BY DEF PeerSends, decoder, node
<1>2. Len(sent) \in Nat /\ Len(handled) \in Nat /\ u \in Seq(Unit)
      BY UnitsFacts DEF StreamInv, DecoderTypes
<1> HIDE DEF u
<1>3. DecoderTypes'
      BY <1>1, <1>2, AppendProperties, ConcatProperties DEF StreamInv, DecoderTypes
<1>4. Stream' = Stream \o u
      <2> DEFINE held == IF pc = "decoding" THEN Rest ELSE buffer
      <2>1. held \in Seq(Unit) /\ transit \in Seq(Unit)
            BY RestFacts DEF StreamInv, DecoderTypes
      <2>2. Stream = held \o transit /\ Stream' = held \o (transit \o u)
            BY <1>1 DEF Stream, Rest
      <2> HIDE DEF held
      <2>3. (held \o transit) \o u = held \o (transit \o u)
            BY <2>1, <1>2, ConcatAssociative
      <2> QED
          BY <2>2, <2>3
<1>5. Flow(Stream', sent', Len(handled)')
      BY <1>1, <1>2, <1>4, FlowGrows DEF StreamInv, DecoderTypes, u
<1>6. ASSUME pc' = "idle"
      PROVE  Verdict(buffer)' = "incomplete"
      <2>1. pc = "idle" /\ Verdict(buffer) = "incomplete" /\ buffer \in Seq(Unit)
            BY <1>1, <1>6 DEF StreamInv, DecoderTypes
      <2>2. CASE Len(buffer) < HeaderSize
            BY <2>2, <1>1 DEF Verdict
      <2>3. CASE ~ (Len(buffer) < HeaderSize)
            <3>1. buffer # <<>>
                  BY <2>3, EmptySeq, ConnectionAssumption
            <3>2. Len(handled) + 1 \in 1..Len(sent) /\ buffer[1].message = Len(handled) + 1
                  BY <2>1, <3>1, HeldFacts DEF Stream, UnitAt
            <3>3. HeaderOf(buffer)' = HeaderOf(buffer)
                  BY <3>2, <1>1, <1>2 DEF HeaderOf, StreamInv, DecoderTypes
            <3> QED
                BY <2>1, <3>3, <1>1 DEF Verdict, IsHeader
      <2> QED
          BY <2>2, <2>3
<1> QED
    BY <1>3, <1>5, <1>6 DEF StreamInv

\* Reading moves bytes from the socket behind those held; the stream is the same
\* (MessageDecoderImpl::decode, on_socket_receive).
LEMMA ReceiveStream ==
    ASSUME StreamInv, NEW n \in 1..Len(transit), Receive(n)
    PROVE  StreamInv'
<1> DEFINE a == SubSeq(transit, 1, n)
           b == SubSeq(transit, n + 1, Len(transit))
<1>1. /\ transit \in Seq(Unit) /\ buffer \in Seq(Unit) /\ Len(transit) \in Nat
      /\ a \in Seq(Unit) /\ b \in Seq(Unit)
      BY DEF StreamInv, DecoderTypes
<1>2. a \o b = transit
      <2>1. SubSeq(transit, 1, n) \o SubSeq(transit, n + 1, Len(transit))
                = SubSeq(transit, 1, Len(transit))
            BY <1>1, ConcatAdjacentSubSeq
      <2> QED
          BY <2>1, <1>1, SubSeqFull
<1>3. /\ data' = buffer \o a /\ transit' = b /\ decoded' = 0 /\ pc' = "decoding"
      /\ pc = "idle" /\ UNCHANGED <<sent, buffer, listener, handled>>
      BY DEF Receive, node
<1> HIDE DEF a, b
<1>4. data' \in Seq(Unit) /\ 0 \in 0..Len(data')
      BY <1>1, <1>3, ConcatProperties, EmptySeq
<1>5. DecoderTypes'
      BY <1>1, <1>3, <1>4 DEF StreamInv, DecoderTypes
<1>6. Stream' = Stream
      <2>1. Rest' = data'
            BY <1>3, <1>4, SubSeqFull DEF Rest
      <2>2. Stream' = (buffer \o a) \o b /\ Stream = buffer \o (a \o b)
            BY <2>1, <1>2, <1>3 DEF Stream
      <2>3. (buffer \o a) \o b = buffer \o (a \o b)
            <3>1. buffer \in Seq(Unit)
                  BY <1>1
            <3>2. a \in Seq(Unit)
                  BY <1>1
            <3>3. b \in Seq(Unit)
                  BY <1>1
            <3> QED
                BY ONLY <3>1, <3>2, <3>3, ConcatAssociative, SMTT(30)
      <2> QED
          BY <2>2, <2>3
<1>7. Flow(Stream', sent', Len(handled)')
      BY <1>3, <1>6 DEF StreamInv
<1> QED
    BY <1>3, <1>5, <1>7 DEF StreamInv

\* Decoding a message takes exactly its bytes off the stream, whoever handles it
\* (MessageDecoderImpl::decodeMessages).
LEMMA DecodeStream ==
    ASSUME StreamInv, DecodeMessage
    PROVE  StreamInv'
<1> DEFINE m == HeaderOf(Rest)
           l == Size(m)
<1>1. /\ pc = "decoding" /\ Verdict(Rest) = "message" /\ Handles(m)
      /\ decoded' = decoded + Total(m)
      /\ UNCHANGED <<sent, transit, buffer, data, pc>>
      BY DEF DecodeMessage, peer
<1>2. /\ Len(handled) + 1 \in 1..Len(sent) /\ m = sent[Len(handled) + 1]
      /\ m \in Message /\ l \in 1..Len(Rest) /\ Total(m) = l
      BY <1>1, DecodedFacts
<1>3. /\ Rest \in Seq(Unit) /\ transit \in Seq(Unit) /\ data \in Seq(Unit)
      /\ Len(Rest) = Len(data) - decoded /\ decoded \in 0..Len(data)
      /\ Len(data) \in Nat /\ Len(transit) \in Nat
      /\ \A i \in 1..Len(Rest) : Rest[i] = data[decoded + i]
      BY RestFacts DEF StreamInv, DecoderTypes
<1>4. decoded' = decoded + l
      BY <1>1, <1>2
<1>5. Len(handled') = Len(handled) + 1 /\ Len(handled) \in Nat
      <2>1. DecoderTypes
            BY DEF StreamInv
      <2>2. Len(handled') = Len(handled) + 1
            BY <2>1, <1>1, <1>2, HandlesFacts
      <2>3. Len(handled) \in Nat
            BY <2>1 DEF DecoderTypes
      <2> QED
          BY <2>2, <2>3
<1>6. DecoderTypes'
      <2>1. handled' \in Seq([message : Message, by : {"pending", "node"}])
            /\ listener' \in {"pending", "node"}
            BY <1>1, <1>2, HandlesFacts DEF StreamInv
      <2>2. decoded' \in 0..Len(data')
            BY <1>1, <1>2, <1>3, <1>4
      <2> QED
          BY <2>1, <2>2, <1>1 DEF StreamInv, DecoderTypes
<1> HIDE DEF m, l
<1>7. Stream' = SubSeq(Stream, l + 1, Len(Stream))
      <2>1. Stream = Rest \o transit /\ Stream' = Rest' \o transit
            BY <1>1 DEF Stream
      <2>2. l \in 0..Len(data) - decoded /\ l \in 1..Len(Rest)
            BY <1>2, <1>3
      <2>3. SubSeq(Rest, l + 1, Len(Rest)) = SubSeq(data, decoded + l + 1, Len(data))
            BY <2>2, <1>3, CutTwice DEF Rest
      <2>4. Rest' = SubSeq(Rest, l + 1, Len(Rest))
            BY <2>3, <1>1, <1>4 DEF Rest
      <2> QED
          BY <2>1, <2>2, <2>4, <1>3, CutFirst
<1>8. l \in 1..Len(Stream)
      <2>1. Stream = Rest \o transit
            BY <1>1 DEF Stream
      <2> QED
          BY <2>1, <1>2, <1>3, ConcatProperties
<1>9. Flow(Stream', sent, Len(handled) + 1)
      BY <1>2, <1>5, <1>7, <1>8, FlowShrinks DEF StreamInv, DecoderTypes, l
<1> QED
    BY <1>1, <1>5, <1>6, <1>9 DEF StreamInv

\* A bad message, the end of decode and a lost connection leave the stream as it is
\* (MessageDecoderImpl::decode keeps the rest).
LEMMA OtherStream ==
    ASSUME StreamInv, BadMessage \/ EndDecode \/ Lost \/ UNCHANGED vars
    PROVE  StreamInv'
<1>1. CASE BadMessage \/ UNCHANGED vars
      <2>1. UNCHANGED <<peer, decoder, handled, listener>>
            BY <1>1 DEF BadMessage, vars, node
      <2> QED
          BY <2>1 DEF StreamInv, DecoderTypes, Stream, Rest, Verdict, HeaderOf, IsHeader,
                      peer, decoder
<1>2. CASE Lost
      <2>1. UNCHANGED <<peer, decoder, handled, listener>>
            BY <1>2 DEF Lost, PendingError, node
      <2> QED
          BY <2>1 DEF StreamInv, DecoderTypes, Stream, Rest, Verdict, HeaderOf, IsHeader,
                      peer, decoder
<1>3. CASE EndDecode
      <2>1. /\ pc = "decoding" /\ Verdict(Rest) = "incomplete" /\ buffer' = Rest
            /\ data' = <<>> /\ decoded' = 0 /\ pc' = "idle"
            /\ UNCHANGED <<sent, transit, handled, listener>>
            BY <1>3 DEF EndDecode, peer, node
      <2>2. Rest \in Seq(Unit) /\ data' \in Seq(Unit) /\ decoded' \in 0..Len(data')
            BY <2>1, RestFacts, EmptySeq DEF StreamInv
      <2>3. DecoderTypes'
            BY <2>1, <2>2 DEF StreamInv, DecoderTypes
      <2>4. Stream' = Stream
            BY <2>1 DEF Stream
      <2>5. Verdict(buffer)' = Verdict(Rest)
            BY <2>1 DEF Verdict, IsHeader, HeaderOf
      <2> QED
          BY <2>1, <2>3, <2>4, <2>5 DEF StreamInv
<1> QED
    BY <1>1, <1>2, <1>3

\* Every step keeps the stream a sequence of whole messages but for its beginning
\* (MessageDecoderImpl::decode).
LEMMA StreamIsKept == StreamInv /\ [Next]_vars => StreamInv'
BY SendsStream, ReceiveStream, DecodeStream, OtherStream DEF Next

\* So the stream is that always, in every behaviour of a connection
\* (MessageDecoderImpl::decode).
LEMMA StreamAlways == Spec => []StreamInv
<1>1. Init => StreamInv
      BY InitStream
<1>2. StreamInv /\ [Next]_vars => StreamInv'
      BY StreamIsKept
<1> QED
    BY <1>1, <1>2, PTL DEF Spec
-----------------------------------------------------------------------------
(* The handlers *)

NodeTypes ==
    /\ handler \in BOOLEAN
    /\ established \in BOOLEAN
    /\ owner \in {"connector", "manager", "none"}
    /\ closed \in BOOLEAN
    /\ failed \in {"none", "MessageCodec:156", "MessageCodec:165", "MessageCodec:169",
                   "PendingNode:123", "PendingNode:197", "null handler",
                   "Node:173", "Node:256"}

\* Who handled what; and why a PendingNode that still decodes has no handler.
Shaken == \E j \in DOMAIN handled : IsVerack(handled[j])

NodeInv ==
    /\ NodeTypes
    /\ OwnerAgrees
    /\ HandshakeFirst
    /\ Up => (listener = "node" <=> Shaken)
    /\ Up /\ listener = "node" => ~ handler
    /\ Up /\ listener = "pending" /\ ~ handler /\ pc = "decoding" =>
          \E i \in DOMAIN handled : EndsHandshake(handled[i])

ConnectionInv == StreamInv /\ NodeInv

\* Handling a message keeps types and agreement (PendingNode::onMessageDecoded and
\* Node::onMessageDecoded).
LEMMA HandlesAgree ==
    ASSUME DecoderTypes, NodeTypes, OwnerAgrees, Up, NEW m \in Message, Handles(m)
    PROVE  NodeTypes' /\ OwnerAgrees'
<1>1. CASE listener = "pending"
      <2>1. PendingHandles(m)
            BY <1>1 DEF Handles
      <2>2. CASE UNCHANGED <<node, failed>> \/ (UNCHANGED node /\ failed' = "PendingNode:123")
            <3>1. /\ UNCHANGED <<listener, handler, established, owner, closed>>
                  /\ failed' \in {failed, "PendingNode:123"}
                  BY <2>2 DEF node
            <3> QED
                BY <3>1 DEF NodeTypes, OwnerAgrees, Up
      <2>3. CASE PendingError
            BY <2>3, <1>1 DEF PendingError, NodeTypes, OwnerAgrees, Up
      <2>4. CASE PendingVerack
            <3>1. CASE handler
                  <4>1. ~ closed
                        BY <3>1 DEF OwnerAgrees, NodeTypes
                  <4> QED
                      BY <2>4, <3>1, <4>1 DEF PendingVerack, NodeTypes, OwnerAgrees, Up
            <3>2. CASE ~ handler
                  BY <2>4, <3>2 DEF PendingVerack, NodeTypes, OwnerAgrees, Up
            <3> QED
                BY <3>1, <3>2
      <2> QED
          BY <2>1, <2>2, <2>3, <2>4 DEF PendingHandles
<1>2. CASE listener # "pending"
      <2>1. NodeHandles(m)
            BY <1>2 DEF Handles
      <2> QED
          BY <2>1 DEF NodeHandles, NodeTypes, OwnerAgrees, Up, node
<1> QED
    BY <1>1, <1>2

\* A PendingNode keeps its connection, ends it, hands it over, or stops at a
\* message out of order (PendingNode.cpp:123, 181, 197).
LEMMA HandlesCases ==
    ASSUME DecoderTypes, NodeTypes, OwnerAgrees, Up, NEW m \in Message, Handles(m)
    PROVE  \/ /\ listener = "node"
              /\ UNCHANGED <<listener, handler>>
              /\ failed' \in {"none", "Node:173", "Node:256"}
           \/ /\ listener = "pending" /\ m.command # "verack"
              /\ UNCHANGED <<listener, handler>>
              /\ failed' \in {"none", "PendingNode:123"}
           \/ /\ listener = "pending" /\ m.command # "verack"
              /\ EndsHandshake([message |-> m, by |-> listener])
              /\ UNCHANGED listener
              /\ failed' = "none"
           \/ /\ listener = "pending" /\ m.command = "verack"
              /\ handler /\ listener' = "node" /\ handler' = FALSE
              /\ failed' = "none"
           \/ /\ listener = "pending" /\ m.command = "verack"
              /\ ~ handler /\ UNCHANGED <<listener, closed>>
              /\ failed' = "null handler"
<1>1. CASE listener = "pending"
      <2>1. PendingHandles(m) /\ failed = "none" /\ ~ established
            BY <1>1 DEF Handles, Up, OwnerAgrees
      <2>2. CASE m.command = "version" /\ m.good /\ UNCHANGED <<node, failed>>
            BY <2>1, <2>2, <1>1 DEF node
      <2>3. CASE (m.command = "reject" \/ (m.command = "version" /\ ~ m.good)) /\ PendingError
            BY <2>1, <2>3, <1>1 DEF PendingError, EndsHandshake
      <2>4. CASE m.command = "verack" /\ PendingVerack
            BY <2>1, <2>4, <1>1 DEF PendingVerack, NodeTypes
      <2>5. CASE /\ m.command \notin {"version", "verack", "reject"}
                 /\ failed' = "PendingNode:123" /\ UNCHANGED node
            BY <2>5, <1>1 DEF node
      <2> QED
          BY <2>1, <2>2, <2>3, <2>4, <2>5 DEF PendingHandles
<1>2. CASE listener = "node"
      <2>1. NodeHandles(m) /\ failed = "none"
            BY <1>2 DEF Handles, Up
      <2> QED
          BY <2>1, <1>2 DEF NodeHandles, node
<1> QED
    BY <1>1, <1>2 DEF DecoderTypes

\* Decoding a message, and what ended the handshake if it did.
LEMMA DecodeAgrees ==
    ASSUME ConnectionInv, DecodeMessage
    PROVE  NodeInv'
<1> DEFINE m == HeaderOf(Rest)
           h == [message |-> m, by |-> listener]
           n == Len(handled)
<1>1. /\ Up /\ pc = "decoding" /\ Verdict(Rest) = "message" /\ Handles(m) /\ pc' = pc
      BY DEF DecodeMessage
<1>2. m \in Message
      BY <1>1, DecodedFacts DEF ConnectionInv
<1> HIDE DEF m
<1>3. /\ DecoderTypes /\ NodeTypes /\ OwnerAgrees /\ HandshakeFirst
      BY DEF ConnectionInv, StreamInv, NodeInv
<1>4. NodeTypes' /\ OwnerAgrees'
      BY <1>1, <1>2, <1>3, HandlesAgree
<1>5. handled' = Append(handled, h)
      BY <1>1 DEF Handles
<1>6. n \in Nat /\ (n + 1) - 1 = n /\ DOMAIN handled = 1..n
      BY <1>3 DEF DecoderTypes
<1>7. /\ DOMAIN handled' = 1..n + 1 /\ Len(handled') = n + 1
      /\ \A i \in 1..n : handled'[i] = handled[i]
      /\ handled'[n + 1] = h
      <2>1. handled \in Seq([message : Message, by : {"pending", "node"}])
            BY <1>3 DEF DecoderTypes
      <2> HIDE DEF h
      <2> QED
          BY <2>1, <1>5
<1>8. /\ h.message = m /\ h.by = listener
      /\ listener \in {"pending", "node"}
      BY <1>3 DEF DecoderTypes
<1> HIDE DEF h, n
<1>9. IsVerack(h) <=> listener = "pending" /\ m.command = "verack"
      BY <1>8 DEF IsVerack
<1>10. listener = "node" <=> \E j \in 1..n : IsVerack(handled[j])
      BY <1>1, <1>6 DEF ConnectionInv, NodeInv, Shaken
<1>11. (\A i \in DOMAIN handled :
           handled[i].by = "node" <=> \E j \in 1..i - 1 : IsVerack(handled[j]))'
      <2> SUFFICES ASSUME NEW i \in 1..n + 1
                   PROVE  handled'[i].by = "node"
                              <=> \E j \in 1..i - 1 : IsVerack(handled'[j])
          BY <1>7 DEF IsVerack
      <2>1. \A j \in 1..i - 1 : j \in 1..n /\ handled'[j] = handled[j]
            BY <1>6, <1>7
      <2>2. CASE i \in 1..n
            BY <2>1, <2>2, <1>3, <1>6, <1>7 DEF HandshakeFirst
      <2>3. CASE i = n + 1
            <3>1. i - 1 = n
                  BY <2>3, <1>6
            <3> QED
                BY <2>1, <2>3, <3>1, <1>7, <1>8, <1>10
      <2> QED
          BY <2>2, <2>3, <1>6
<1>12. Shaken' <=> (\E j \in 1..n : IsVerack(handled[j])) \/ IsVerack(h)
      <2>1. Shaken' <=> \E j \in 1..n + 1 : IsVerack(handled'[j])
            BY <1>7 DEF Shaken, IsVerack
      <2> QED
          BY <2>1, <1>6, <1>7
<1>13. \A i \in 1..n : EndsHandshake(handled[i]) =>
                           i \in DOMAIN handled' /\ EndsHandshake(handled'[i])
      BY <1>6, <1>7
<1>14. /\ Up
       /\ listener = "pending" /\ ~ handler => \E i \in 1..n : EndsHandshake(handled[i])
       /\ listener = "node" => ~ handler
      BY <1>1, <1>6 DEF ConnectionInv, NodeInv
<1>15. /\ (failed # "PendingNode:197")'
       /\ (Up => (listener = "node" <=> Shaken))'
       /\ (Up /\ listener = "node" => ~ handler)'
       /\ failed' = "null handler" =>
              /\ listener = "pending" /\ ~ handler /\ UNCHANGED closed
              /\ \E i \in 1..n : EndsHandshake(handled[i])
       /\ Up' /\ listener' = "pending" /\ ~ handler' =>
              EndsHandshake(h) \/ \E i \in 1..n : EndsHandshake(handled[i])
      <2>1. h = [message |-> m, by |-> listener]
            BY DEF h
      <2> QED
          BY <2>1, <1>1, <1>2, <1>3, <1>9, <1>10, <1>12, <1>14, HandlesCases DEF Up
<1>16. (failed = "null handler" =>
           closed /\ \E i \in 1..Len(handled) - 1 : EndsHandshake(handled[i]))'
      <2> SUFFICES ASSUME failed' = "null handler"
                   PROVE  closed' /\ \E i \in 1..Len(handled') - 1 : EndsHandshake(handled'[i])
          BY DEF EndsHandshake
      <2>1. Len(handled') - 1 = n
            BY <1>6, <1>7
      <2>2. closed'
            <3>1. listener = "pending" /\ ~ handler /\ closed' = closed
                  BY <1>15
            <3>2. owner = "none"
                  BY <3>1, <1>3, <1>14 DEF OwnerAgrees, NodeTypes
            <3>3. closed
                  BY <3>2, <1>3, <1>14 DEF OwnerAgrees
            <3> QED
                BY <3>1, <3>3
      <2> QED
          BY <2>1, <2>2, <1>13, <1>15
<1>17. (Up /\ listener = "pending" /\ ~ handler /\ pc = "decoding" =>
           \E i \in DOMAIN handled : EndsHandshake(handled[i]))'
      <2> SUFFICES ASSUME Up', listener' = "pending", ~ handler'
                   PROVE  \E i \in DOMAIN handled' : EndsHandshake(handled'[i])
          BY DEF EndsHandshake
      <2>1. n + 1 \in DOMAIN handled' /\ handled'[n + 1] = h
            BY <1>6, <1>7
      <2> QED
          BY <2>1, <1>13, <1>15
<1>18. HandshakeFirst'
      BY <1>11, <1>15, <1>16 DEF HandshakeFirst
<1> QED
    BY <1>4, <1>15, <1>17, <1>18 DEF NodeInv

\* The connection is lost: nothing is decoded, so no handshake is under way in the
\* decoder (NodeConnector and NodeManager are told by handleError).
LEMMA LostAgrees ==
    ASSUME ConnectionInv, Lost
    PROVE  NodeInv'
<1>1. /\ Up /\ failed = "none" /\ pc' = "idle" /\ UNCHANGED handled
      /\ NodeTypes /\ OwnerAgrees /\ HandshakeFirst /\ listener \in {"pending", "node"}
      BY DEF Lost, decoder, ConnectionInv, StreamInv, DecoderTypes, NodeInv, Up
<1>2. UNCHANGED listener /\ failed' = "none" /\ NodeTypes' /\ OwnerAgrees'
      <2>1. CASE listener = "pending"
            <3>1. ~ established
                  BY <2>1, <1>1 DEF OwnerAgrees
            <3>2. /\ closed' = TRUE /\ handler' = FALSE
                  /\ owner' = IF handler THEN "none" ELSE owner
                  /\ UNCHANGED <<listener, established, failed>>
                  <4>1. PendingError
                        BY <2>1 DEF Lost
                  <4> QED
                      BY <4>1, <3>1 DEF PendingError
            <3> QED
                BY <3>1, <3>2, <2>1, <1>1 DEF NodeTypes, OwnerAgrees
      <2>2. CASE listener # "pending"
            <3>1. closed' = TRUE /\ owner' = "none"
                  /\ UNCHANGED <<listener, handler, established, failed>>
                  BY <2>2 DEF Lost
            <3>2. ~ handler
                  BY <2>2, <1>1 DEF NodeInv, ConnectionInv
            <3> QED
                BY <3>1, <3>2, <2>2, <1>1 DEF NodeTypes, OwnerAgrees
      <2> QED
          BY <2>1, <2>2
<1>3. (Up /\ listener = "node" => ~ handler)'
      BY <1>1, <1>2 DEF Lost, PendingError, ConnectionInv, NodeInv
<1>4. HandshakeFirst' /\ (Up => (listener = "node" <=> Shaken))'
      BY <1>1, <1>2 DEF HandshakeFirst, Shaken, IsVerack, EndsHandshake, Up, ConnectionInv, NodeInv
<1> QED
    BY <1>1, <1>2, <1>3, <1>4 DEF NodeInv, Up

\* A read begins only on an open connection, whose PendingNode has its handler
\* (on_socket_receive; destroySocket).
LEMMA OthersAgree ==
    ASSUME ConnectionInv,
           \/ \E m \in Message : PeerSends(m)
           \/ \E n \in 1..Len(transit) : Receive(n)
           \/ BadMessage \/ EndDecode \/ UNCHANGED vars
    PROVE  NodeInv'
<1>1. UNCHANGED <<listener, handler, established, owner, closed, handled>>
      BY DEF PeerSends, Receive, BadMessage, EndDecode, vars, node
<1>2. /\ NodeTypes /\ OwnerAgrees /\ HandshakeFirst
      /\ (Up => (listener = "node" <=> Shaken))
      /\ (Up /\ listener = "node" => ~ handler)
      /\ (Up /\ listener = "pending" /\ ~ handler /\ pc = "decoding" =>
              \E i \in DOMAIN handled : EndsHandshake(handled[i]))
      BY DEF ConnectionInv, NodeInv
<1>3. \/ UNCHANGED failed
      \/ failed' \in {"MessageCodec:156", "MessageCodec:165", "MessageCodec:169"}
      BY DEF PeerSends, Receive, BadMessage, EndDecode, vars
<1>4. /\ NodeTypes' /\ OwnerAgrees' /\ HandshakeFirst'
      /\ (Up => (listener = "node" <=> Shaken))'
      /\ (Up /\ listener = "node" => ~ handler)'
      BY <1>1, <1>2, <1>3 DEF NodeTypes, OwnerAgrees, HandshakeFirst, Shaken, Up,
                              IsVerack, EndsHandshake
<1>5. ASSUME Up', listener' = "pending", ~ handler', pc' = "decoding"
      PROVE  (\E i \in DOMAIN handled : EndsHandshake(handled[i]))'
      <2>1. failed = "none" /\ Up
            BY <1>3, <1>5 DEF Up
      <2>2. CASE pc = "decoding"
            BY <2>1, <2>2, <1>1, <1>2, <1>5 DEF EndsHandshake
      <2>3. CASE pc # "decoding"
            <3>1. ~ closed
                  BY <2>3, <1>5 DEF PeerSends, Receive, BadMessage, EndDecode, vars, decoder
            <3>2. owner = "manager" /\ listener = "pending"
                  BY <2>1, <3>1, <1>1, <1>2, <1>5 DEF OwnerAgrees, NodeTypes
            <3> QED
                BY <2>1, <3>2, <1>2 DEF OwnerAgrees
      <2> QED
          BY <2>2, <2>3
<1> QED
    BY <1>4, <1>5 DEF NodeInv

\* The whole invariant is inductive.
LEMMA ConnectionIsKept ==
    /\ Init => ConnectionInv
    /\ ConnectionInv /\ [Next]_vars => ConnectionInv'
<1>1. Init => NodeInv
      <2> SUFFICES ASSUME Init
                   PROVE  NodeInv
          OBVIOUS
      <2>1. NodeTypes /\ OwnerAgrees
            BY DEF Init, NodeTypes, OwnerAgrees
      <2>2. handled = <<>> /\ DOMAIN handled = {}
            BY DEF Init
      <2> QED
          BY <2>1, <2>2 DEF Init, NodeInv, HandshakeFirst, Up, Shaken
<1>2. ConnectionInv /\ [Next]_vars => NodeInv'
      BY DecodeAgrees, LostAgrees, OthersAgree DEF Next
<1> QED
    BY <1>1, <1>2, InitStream, StreamIsKept DEF ConnectionInv

\* So it holds always (PendingNode, Node and the decoder they share).
LEMMA ConnectionAlways == Spec => []ConnectionInv
BY ConnectionIsKept, PTL DEF Spec
-----------------------------------------------------------------------------
(* The theorems *)

\* Every variable of a connection keeps its type, however long the stream.
THEOREM TypeCorrect == Spec => []TypeOK
<1>1. ConnectionInv => TypeOK
      BY DEF ConnectionInv, StreamInv, DecoderTypes, NodeInv, NodeTypes, TypeOK
<1> QED
    BY <1>1, ConnectionAlways, PTL

\* The connector, the manager and the socket agree on the connection, whatever
\* ends it and when (PendingNode.cpp:181, NodeConnector.cpp:49).
THEOREM OwnersAgree == Spec => []OwnerAgrees
<1>1. ConnectionInv => OwnerAgrees
      BY DEF ConnectionInv, NodeInv
<1> QED
    BY <1>1, ConnectionAlways, PTL

\* PendingNode handles what comes before the first verack and Node what comes
\* after it, also within one read (PendingNode.cpp:123, 181, 197).
THEOREM HandshakeComesFirst == Spec => []HandshakeFirst
<1>1. ConnectionInv => HandshakeFirst
      BY DEF ConnectionInv, NodeInv
<1> QED
    BY <1>1, ConnectionAlways, PTL

\* What is left in the decoder between two reads is the beginning of a message of
\* which bytes are still to come (MessageCodec.cpp:99).
LEMMA HeldIsIncomplete ==
    ASSUME StreamInv, pc = "idle", transit = <<>>
    PROVE  Len(handled) = Len(sent)
<1> DEFINE n == Len(handled)
           l == Len(buffer)
           q == Len(sent)
<1>1. /\ buffer \in Seq(Unit) /\ sent \in Seq(Message) /\ l \in Nat /\ n \in Nat /\ q \in Nat
      /\ Verdict(buffer) = "incomplete"
      BY DEF StreamInv, DecoderTypes
<1>2. Stream = buffer /\ Stream = buffer \o transit
      BY <1>1, ConcatEmptySeq DEF Stream
<1>3. Flow(buffer, sent, n)
      BY <1>2 DEF StreamInv
<1>4. CASE buffer = <<>>
      BY <1>3, <1>4 DEF Flow, Begins
<1>5. CASE buffer # <<>>
      <2>1. /\ n + 1 \in 1..q /\ buffer[1] = UnitAt(n + 1, 1)
            /\ HeaderOf(buffer) = sent[n + 1] /\ HeaderOf(buffer) \in Message
            BY <1>1, <1>2, <1>5, HeldFacts
      <2>2. buffer[1].place = 1 /\ buffer[1].message = n + 1
            BY <2>1 DEF UnitAt
      <2>3. l >= 1 /\ 1 \in 1..l /\ l \in 1..l
            BY <1>1, <1>5, EmptySeq
      <2>4. buffer[l] = UnitAt(q, Size(sent[q]))
            BY <1>3, <1>5 DEF Flow, Ends
      <2>5. l < Size(sent[n + 1])
            <3>1. \/ l < HeaderSize
                  \/ l < Total(HeaderOf(buffer))
                  BY <1>1 DEF Verdict
            <3>2. /\ Size(HeaderOf(buffer)) \in Nat
                  /\ Size(HeaderOf(buffer)) >= HeaderSize
                  /\ Total(HeaderOf(buffer)) \in Nat
                  /\ Total(HeaderOf(buffer)) <= Size(HeaderOf(buffer))
                  BY <2>1, MessageFacts, TotalFacts
            <3> HIDE DEF l
            <3> QED
                BY <3>1, <3>2, <2>1, <1>1, ConnectionAssumption
      <2>6. buffer[l] = UnitAt(n + 1, l - 1 + 1)
            <3>1. 1 <= l /\ l - 1 < Size(sent[buffer[1].message])
                  BY <2>1, <2>2, <2>3, <2>5, MessageFacts
            <3> QED
                BY <2>2, <2>3, <3>1, <1>3 DEF Flow, Unbroken
      <2>7. q = n + 1 /\ Size(sent[q]) = l
            BY <2>4, <2>6, <1>1 DEF UnitAt
      <2> QED
          BY <2>5, <2>7, <1>1
<1> QED
    BY <1>4, <1>5

\* The decoder keeps no whole message back: once all that was sent has been read
\* and decode has returned, every message has been handled (MessageCodec.cpp:99).
THEOREM NothingIsHeldBack == Spec => []NothingHeldBack
<1>1. ConnectionInv => NothingHeldBack
      BY HeldIsIncomplete DEF ConnectionInv, NothingHeldBack
<1> QED
    BY <1>1, ConnectionAlways, PTL

\* The queue of handled messages is as long as the list of handlers' calls.
LEMMA HandledFacts ==
    ASSUME DecoderTypes
    PROVE  /\ HandledMessages \in Seq(Message)
           /\ Len(HandledMessages) = Len(handled)
           /\ \A i \in 1..Len(handled) : HandledMessages[i] = handled[i].message
<1>1. /\ Len(handled) \in Nat /\ DOMAIN handled = 1..Len(handled)
      /\ \A i \in 1..Len(handled) : handled[i].message \in Message
      <2> DEFINE H == [message : Message, by : {"pending", "node"}]
      <2>1. handled \in Seq(H) /\ \A h \in H : h.message \in Message
            BY DEF DecoderTypes
      <2> HIDE DEF H
      <2>2. /\ Len(handled) \in Nat /\ DOMAIN handled = 1..Len(handled)
            /\ \A i \in 1..Len(handled) : handled[i] \in H
            BY <2>1, LenProperties, ElementOfSeq
      <2> QED
          BY <2>1, <2>2
<1> DEFINE n == Len(handled)
           msg(i) == handled[i].message
<1>2. HandledMessages = [i \in 1..n |-> msg(i)]
      BY <1>1 DEF HandledMessages
<1> HIDE DEF n
<1>3. n \in Nat /\ \A i \in 1..n : msg(i) \in Message
      BY <1>1 DEF n
<1> HIDE DEF msg
<1>4. /\ HandledMessages \in Seq(Message) /\ Len(HandledMessages) = n
      /\ \A i \in 1..n : HandledMessages[i] = msg(i)
      BY <1>2, <1>3
<1> QED
    BY <1>4 DEF n, msg

\* Handling a message adds it to the queue of those handled.
LEMMA HandledGrows ==
    ASSUME DecoderTypes, NEW m \in Message, Handles(m)
    PROVE  HandledMessages' = Append(HandledMessages, m)
<1> DEFINE n == Len(handled)
           h == [message |-> m, by |-> listener]
           x == HandledMessages'
           y == Append(HandledMessages, m)
<1>1. handled \in Seq([message : Message, by : {"pending", "node"}]) /\ n \in Nat
      BY DEF DecoderTypes
<1>2. handled' = Append(handled, h) /\ h.message = m
      BY DEF Handles
<1>3. /\ HandledMessages \in Seq(Message)
      /\ Len(HandledMessages) = n
      /\ \A i \in 1..n : HandledMessages[i] = handled[i].message
      BY HandledFacts
<1> HIDE DEF h
<1>4. /\ DOMAIN handled' = 1..n + 1
      /\ \A i \in 1..n : handled'[i] = handled[i]
      /\ handled'[n + 1] = h
      BY <1>1, <1>2
<1> HIDE DEF n
<1>5. x = [i \in 1..n + 1 |-> handled'[i].message]
      BY <1>4 DEF HandledMessages
<1>6. /\ y \in Seq(Message) /\ Len(y) = n + 1
      /\ \A i \in 1..n : y[i] = HandledMessages[i]
      /\ y[n + 1] = m
      BY <1>1, <1>3, AppendProperties
<1> HIDE DEF y
<1>7. y = [i \in 1..n + 1 |-> y[i]]
      <2>1. y \in [1..n + 1 -> Message]
            BY <1>6, LenProperties
      <2> QED
          BY <2>1
<1>8. \A i \in 1..n + 1 : handled'[i].message = y[i]
      <2>1. \A i \in 1..n : handled'[i].message = y[i]
            BY <1>3, <1>4, <1>6
      <2>2. handled'[n + 1].message = y[n + 1]
            BY <1>2, <1>4, <1>6
      <2>3. \A i \in 1..n + 1 : i \in 1..n \/ i = n + 1
            <3>1. n \in Nat
                  BY <1>1 DEF n
            <3> QED
                BY <3>1
      <2> QED
          BY <2>1, <2>2, <2>3
<1> HIDE DEF x
<1>9. x = y
      BY <1>5, <1>7, <1>8
<1> QED
    BY <1>9 DEF x, y

\* Decoding a message is taking the next one from the queue; a message sent is put
\* into it; every other step leaves it alone.
LEMMA StepsMapToQueue ==
    ASSUME StreamInv, [Next]_vars
    PROVE  [Queue!Next]_<<sent, HandledMessages>>
<1>1. DecoderTypes
      BY DEF StreamInv
<1>2. ASSUME NEW m \in Message, PeerSends(m)
      PROVE  Queue!Send(m)
      <2>1. sent' = Append(sent, m) /\ UNCHANGED handled
            BY <1>2 DEF PeerSends
      <2> QED
          BY <2>1 DEF Queue!Send, HandledMessages
<1>3. ASSUME DecodeMessage
      PROVE  Queue!Handle
      <2>1. pc = "decoding" /\ Verdict(Rest) = "message" /\ Handles(HeaderOf(Rest))
            /\ UNCHANGED sent
            BY <1>3 DEF DecodeMessage, peer
      <2>2. /\ Len(handled) + 1 \in 1..Len(sent)
            /\ HeaderOf(Rest) = sent[Len(handled) + 1]
            /\ HeaderOf(Rest) \in Message
            BY <2>1, DecodedFacts
      <2>3. HandledMessages' = Append(HandledMessages, HeaderOf(Rest))
            BY <1>1, <2>1, <2>2, HandledGrows
      <2>4. Len(HandledMessages) = Len(handled)
            BY <1>1, HandledFacts
      <2>5. Len(handled) \in Nat /\ Len(sent) \in Nat
            BY <1>1 DEF DecoderTypes
      <2>6. Len(HandledMessages) < Len(sent)
            BY <2>2, <2>4, <2>5
      <2> QED
          BY <2>1, <2>2, <2>3, <2>4, <2>6 DEF Queue!Handle
<1>4. ASSUME \/ \E n \in 1..Len(transit) : Receive(n)
             \/ BadMessage \/ EndDecode \/ Lost \/ UNCHANGED vars
      PROVE  UNCHANGED <<sent, HandledMessages>>
      <2>1. UNCHANGED <<sent, handled>>
            BY <1>4 DEF Receive, BadMessage, EndDecode, Lost, vars, peer
      <2> QED
          BY <2>1 DEF HandledMessages
<1> QED
    BY <1>2, <1>3, <1>4 DEF Next, Queue!Next

\* A connection is a queue of messages: each that is handled is the next of those
\* sent, however its bytes are cut (MessageCodec.cpp:99).
THEOREM ConnectionImplementsQueue == Spec => ImplementsQueue
<1>1. Init => Queue!Init
      <2> SUFFICES ASSUME Init
                   PROVE  sent = <<>> /\ HandledMessages = <<>>
          BY DEF Queue!Init
      <2>1. handled = <<>> /\ sent = <<>> /\ DecoderTypes
            BY EmptySeq DEF Init, DecoderTypes
      <2>2. Len(HandledMessages) = 0 /\ HandledMessages \in Seq(Message)
            BY <2>1, HandledFacts, EmptySeq
      <2> QED
          BY <2>1, <2>2, EmptySeq
<1>2. StreamInv /\ [Next]_vars => [Queue!Next]_<<sent, HandledMessages>>
      BY StepsMapToQueue
<1> QED
    BY <1>1, <1>2, StreamAlways, PTL DEF Spec, ImplementsQueue, Queue!Spec
=============================================================================
