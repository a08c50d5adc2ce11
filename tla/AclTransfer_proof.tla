-------------------------- MODULE AclTransfer_proof --------------------------
(***************************************************************************)
(* What push() returns, for any tasks with a connection each, any PDUs and *)
(* any losses.  The chunks of a task form a sequence of places; those on   *)
(* their way run from the place the receiver waits for to the place the    *)
(* task has come to, with a gap where a packet was lost.                   *)
(***************************************************************************)
EXTENDS AclTransfer, SequencesExt, SequenceTheorems, TLAPS

\* Each task sends on a connection of its own.
OwnConnections == \A s, t \in Tasks : HandleOf[s] = HandleOf[t] => s = t

\* Where a task, or the receiver, is: so many units of that PDU are done.
Position == [pdu : Nat, sent : Nat]
Places(t) == {x \in [pdu : 1..Len(Pdus[t]), sent : Nat] : x.sent < Size[Pdus[t][x.pdu]]}
Here(t) == [pdu |-> pdu[t], sent |-> sent[t]]

\* The chunk that is sent there, up to which unit, and the place after it.
Upto(t, x) ==
  LET p == Pdus[t][x.pdu]
  IN IF x.sent + MaxSize < Size[p] THEN x.sent + MaxSize ELSE Size[p]
After(t, x) ==
  IF Upto(t, x) = Size[Pdus[t][x.pdu]] THEN [pdu |-> x.pdu + 1, sent |-> 0]
                                       ELSE [pdu |-> x.pdu, sent |-> Upto(t, x)]
Chunk(t, x) ==
  [handle |-> HandleOf[t], first |-> x.sent = 0,
   data |-> Units(Pdus[t][x.pdu], x.sent + 1, Upto(t, x))]

Unit == AllPdus \X Nat
Packet == UNION {{Chunk(t, x) : x \in Places(t)} : t \in Tasks}

Types ==
  /\ pdu \in [Tasks -> Nat \ {0}] /\ sent \in [Tasks -> Nat]
  /\ \A t \in Tasks : pdu[t] <= Len(Pdus[t]) => Here(t) \in Places(t)
  /\ queue \in Seq(Packet)
  /\ pduBuffer \in [Handles -> Seq(Unit)] /\ pduLength \in [Handles -> Nat]
  /\ inProgress \in [Handles -> BOOLEAN]
  /\ assembled \in [Handles -> Seq(Seq(Unit))]
  /\ interrupted \subseteq Handles
  /\ lost \in 0..MaxLost

\* e is the place to be received after each packet of the queue; before
\* packet g, if there is a gap, one that was lost.
Before(t, e, g, i) == IF i = g THEN After(t, e[i - 1]) ELSE e[i - 1]

Chain(t, e, g) ==
  /\ \A i \in 1..Len(queue) :
       /\ queue[i].handle = HandleOf[t] =>
            /\ Before(t, e, g, i) \in Places(t) /\ queue[i] = Chunk(t, Before(t, e, g, i))
            /\ e[i] = After(t, Before(t, e, g, i))
       /\ queue[i].handle # HandleOf[t] => e[i] = Before(t, e, g, i)
  /\ Before(t, e, g, Len(queue) + 1) = Here(t)
  /\ g # 0 => g \in 1..Len(queue) + 1 /\ e[g - 1] \in Places(t)

\* The assembler has what was sent of the PDU the receiver waits for.
InStep(t, x) ==
  LET h == HandleOf[t]
      p == Pdus[t][x.pdu]
  IN /\ inProgress[h] <=> x.sent # 0
     /\ x.sent # 0 => pduBuffer[h] = Units(p, 1, x.sent) /\ pduLength[h] = Size[p]

\* Or it lacks so much that this PDU will not be complete.
Harmless(t, x) ==
  LET h == HandleOf[t]
      p == Pdus[t][x.pdu]
  IN \/ x.sent = 0 \/ ~inProgress[h]
     \/ pduLength[h] = Size[p] /\ (pduBuffer[h] = Units(p, 1, x.sent) \/ Len(pduBuffer[h]) < x.sent)

\* What was assembled are PDUs before the n-th, in order.
Picked(t, n) ==
  LET got == assembled[HandleOf[t]] IN
  \E picked \in [1..Len(got) -> 1..Len(Pdus[t])] :
    /\ \A i \in 1..Len(got) : got[i] = Whole(Pdus[t][picked[i]]) /\ picked[i] < n
    /\ \A i, j \in 1..Len(got) : i < j => picked[i] < picked[j]

ConnInv(t) ==
  \E e \in [Nat -> Position], g \in Nat :
    /\ Chain(t, e, g)
    /\ lost = 0 => g = 0
    /\ Harmless(t, e[0]) /\ (lost = 0 \/ g # 0 => InStep(t, e[0]))
    /\ Picked(t, e[0].pdu)

Unused == \A h \in Handles : Senders(h) = {} => assembled[h] = <<>>

Invs ==
  /\ OwnConnections /\ Types /\ Unused
  /\ lost <= 1 => \A t \in Tasks : ConnInv(t)
  /\ lost = 0 => interrupted = {}

(* A queue without its i-th element: the lost packet leaves the middle of one. *)
LEMMA Removed ==
  ASSUME NEW S, NEW s \in Seq(S), NEW i \in 1 .. Len(s), NEW r, r = RemoveAt(s, i)
  PROVE  /\ r \in Seq(S) /\ Len(s) \in Nat /\ Len(r) = Len(s) - 1
         /\ \A j \in 1 .. Len(r) : /\ j < i => j \in 1 .. Len(s) /\ r[j] = s[j]
                                   /\ ~(j < i) => j + 1 \in 1 .. Len(s) /\ r[j] = s[j + 1]
<1>1. Len(s) \in Nat /\ \A j \in 1 .. Len(s) : s[j] \in S
  BY LenProperties, ElementOfSeq
<1>2. PICK a : a = SubSeq(s, 1, i - 1)
  OBVIOUS
<1>3. PICK b : b = SubSeq(s, i + 1, Len(s))
  OBVIOUS
<1>4. a \in Seq(S) /\ Len(a) = i - 1 /\ \A j \in 1 .. i - 1 : a[j] = s[j]
  <2>1. \A j \in 1 .. i - 1 : s[j] \in S
    BY <1>1
  <2>2. /\ a \in Seq(S) /\ Len(a) = IF 1 <= i - 1 THEN (i - 1) - 1 + 1 ELSE 0
        /\ \A j \in 1 .. (i - 1) - 1 + 1 : a[j] = s[1 + j - 1]
    BY <1>2, <2>1, SubSeqProperties
  <2>3. \A j \in 1 .. i - 1 : j \in 1 .. (i - 1) - 1 + 1 /\ 1 + j - 1 = j
    BY <1>1
  <2>4. Len(a) = i - 1
    BY <1>1, <2>2
  <2>5. QED
    BY <2>2, <2>3, <2>4
<1>5. b \in Seq(S) /\ Len(b) = Len(s) - i /\ \A j \in 1 .. Len(s) - i : b[j] = s[i + j]
  <2>1. \A j \in i + 1 .. Len(s) : s[j] \in S
    BY <1>1
  <2>2. /\ b \in Seq(S) /\ Len(b) = IF i + 1 <= Len(s) THEN Len(s) - (i + 1) + 1 ELSE 0
        /\ \A j \in 1 .. Len(s) - (i + 1) + 1 : b[j] = s[(i + 1) + j - 1]
    BY <1>1, <1>3, <2>1, SubSeqProperties
  <2>3. \A j \in 1 .. Len(s) - i : j \in 1 .. Len(s) - (i + 1) + 1 /\ (i + 1) + j - 1 = i + j
    BY <1>1
  <2>4. Len(b) = Len(s) - i
    BY <1>1, <2>2
  <2>5. QED
    BY <2>2, <2>3, <2>4
<1>6. r = a \o b
  BY <1>2, <1>3 DEF RemoveAt
<1>7. /\ r \in Seq(S) /\ Len(r) = Len(a) + Len(b)
      /\ \A j \in 1 .. Len(a) + Len(b) : r[j] = IF j <= Len(a) THEN a[j] ELSE b[j - Len(a)]
  <2>1. /\ a \o b \in Seq(S) /\ Len(a \o b) = Len(a) + Len(b)
        /\ \A j \in 1 .. Len(a) + Len(b) : (a \o b)[j] = IF j <= Len(a) THEN a[j] ELSE b[j - Len(a)]
    BY <1>4, <1>5, ConcatProperties
  <2>2. QED
    BY <1>6, <2>1
<1>8. Len(r) = Len(s) - 1
  BY <1>1, <1>4, <1>5, <1>7
<1>9. ASSUME NEW j \in 1 .. Len(r), j < i PROVE j \in 1 .. Len(s) /\ r[j] = s[j]
  <2>1. j \in 1 .. i - 1 /\ j \in 1 .. Len(a) + Len(b) /\ j <= Len(a) /\ j \in 1 .. Len(s)
    BY <1>1, <1>4, <1>5, <1>8, <1>9
  <2>2. QED
    BY <1>4, <1>7, <2>1
<1>10. ASSUME NEW j \in 1 .. Len(r), ~(j < i) PROVE j + 1 \in 1 .. Len(s) /\ r[j] = s[j + 1]
  <2>1. /\ j \in 1 .. Len(a) + Len(b) /\ ~(j <= Len(a)) /\ j + 1 \in 1 .. Len(s)
        /\ j - Len(a) \in 1 .. Len(s) - i /\ i + (j - Len(a)) = j + 1
    BY <1>1, <1>4, <1>5, <1>8, <1>10
  <2>2. r[j] = b[j - Len(a)]
    BY <1>7, <2>1
  <2>3. b[j - Len(a)] = s[i + (j - Len(a))]
    BY <1>5, <2>1
  <2>4. QED
    BY <2>1, <2>2, <2>3
<1>11. QED
  BY <1>1, <1>7, <1>8, <1>9, <1>10

-----------------------------------------------------------------------------
(* The places of a task and its chunks. *)
LEMMA PlaceFacts ==
  ASSUME NEW t \in Tasks, NEW x \in Places(t), NEW p, p = Pdus[t][x.pdu]
  PROVE  /\ x.pdu \in 1..Len(Pdus[t]) /\ x.sent \in Nat /\ x \in Position
         /\ p \in AllPdus /\ Size[p] \in Nat /\ x.sent < Size[p]
         /\ Upto(t, x) \in Nat /\ x.sent < Upto(t, x) /\ Upto(t, x) <= Size[p]
         /\ After(t, x) \in Position
         /\ \/ Upto(t, x) = Size[p] /\ After(t, x).pdu = x.pdu + 1 /\ After(t, x).sent = 0
            \/ /\ Upto(t, x) < Size[p] /\ Upto(t, x) = x.sent + MaxSize
               /\ After(t, x).pdu = x.pdu /\ After(t, x).sent = Upto(t, x)
               /\ After(t, x) \in Places(t)
<1>1. x.pdu \in 1..Len(Pdus[t]) /\ x.sent \in Nat /\ x.sent < Size[p] /\ x \in [pdu : 1..Len(Pdus[t]), sent : Nat]
  BY DEF Places
<1>2. Pdus[t] \in Seq(AllPdus) /\ Len(Pdus[t]) \in Nat
  BY PdusAssumption, LenProperties
<1>3. p \in AllPdus /\ Size[p] \in Nat /\ MaxSize \in Nat /\ MaxSize > 0
  BY <1>1, <1>2, ElementOfSeq, PdusAssumption
<1>4. x \in Position /\ x.pdu \in Nat
  BY <1>1, <1>2 DEF Position
<1>5. PICK n : n = Upto(t, x)
  OBVIOUS
<1>6. n = IF x.sent + MaxSize < Size[p] THEN x.sent + MaxSize ELSE Size[p]
  BY <1>5 DEF Upto
<1>7. n \in Nat /\ x.sent < n /\ n <= Size[p] /\ (n = Size[p] \/ (n < Size[p] /\ n = x.sent + MaxSize))
  BY <1>1, <1>3, <1>6
<1>8. After(t, x) = IF n = Size[p] THEN [pdu |-> x.pdu + 1, sent |-> 0] ELSE [pdu |-> x.pdu, sent |-> n]
  BY <1>5 DEF After
<1>9. CASE n = Size[p]
  <2>1. After(t, x) = [pdu |-> x.pdu + 1, sent |-> 0] /\ x.pdu + 1 \in Nat
    BY <1>4, <1>8, <1>9
  <2>2. QED
    BY <1>1, <1>3, <1>4, <1>5, <1>7, <1>9, <2>1 DEF Position
<1>10. CASE n # Size[p]
  <2>1. PICK y : y = After(t, x)
    OBVIOUS
  <2>2. y = [pdu |-> x.pdu, sent |-> n] /\ n < Size[p] /\ n = x.sent + MaxSize
    BY <1>7, <1>8, <1>10, <2>1
  <2>3. y \in Places(t) /\ y \in Position /\ y.pdu = x.pdu /\ y.sent = n
    BY <1>1, <1>4, <1>7, <2>2 DEF Places, Position
  <2>4. QED
    BY <1>1, <1>3, <1>4, <1>5, <1>7, <2>1, <2>2, <2>3
<1>11. QED
  BY <1>9, <1>10

LEMMA UnitFacts ==
  ASSUME NEW p \in AllPdus, NEW a \in Nat, NEW b \in Nat, a <= b
  PROVE  /\ Units(p, a + 1, b) \in Seq(Unit) /\ Len(Units(p, a + 1, b)) = b - a
         /\ \A i \in 1..(b - a) : Units(p, a + 1, b)[i] = <<p, a + i>>
<1>1. \A i \in 1..(b - (a + 1) + 1) : <<p, (a + 1) + i - 1>> \in Unit
  BY DEF Unit
<1>2. b - (a + 1) + 1 \in Nat /\ b - (a + 1) + 1 = b - a
  OBVIOUS
<1>3. Units(p, a + 1, b) = [i \in 1..(b - (a + 1) + 1) |-> <<p, (a + 1) + i - 1>>]
  BY DEF Units
<1>4. Units(p, a + 1, b) \in Seq(Unit) /\ Len(Units(p, a + 1, b)) = b - a
  <2>1. PICK n \in Nat : n = b - (a + 1) + 1 /\ n = b - a
    BY <1>2
  <2>2. PICK s : s = [i \in 1..n |-> <<p, (a + 1) + i - 1>>]
    OBVIOUS
  <2>3. s \in Seq(Unit) /\ Len(s) = n
    <3>1. \A i \in 1..n : s[i] \in Unit
      BY <1>1, <2>1, <2>2
    <3>2. s \in [1..n -> Unit]
      BY <2>2, <3>1
    <3>3. s \in Seq(Unit)
      BY <3>2, SeqDef
    <3>4. Len(s) = n
      BY <2>2
    <3>5. QED
      BY <3>3, <3>4
  <2>4. QED
    BY <1>3, <2>1, <2>2, <2>3
<1>5. \A i \in 1..(b - a) : Units(p, a + 1, b)[i] = <<p, a + i>>
  BY <1>2, <1>3
<1>6. QED
  BY <1>4, <1>5

\* Two parts of a PDU that meet.
LEMMA UnitsMeet ==
  ASSUME NEW p \in AllPdus, NEW a \in Nat, NEW b \in Nat, a <= b
  PROVE  Units(p, 1, a) \o Units(p, a + 1, b) = Units(p, 1, b)
<1>1. PICK z \in Nat : z = 0
  OBVIOUS
<1>2. /\ Units(p, z + 1, a) \in Seq(Unit) /\ Len(Units(p, z + 1, a)) = a - z
      /\ \A i \in 1..(a - z) : Units(p, z + 1, a)[i] = <<p, z + i>>
  BY <1>1, UnitFacts
<1>3. /\ Units(p, z + 1, b) \in Seq(Unit) /\ Len(Units(p, z + 1, b)) = b - z
      /\ \A i \in 1..(b - z) : Units(p, z + 1, b)[i] = <<p, z + i>>
  BY <1>1, UnitFacts
<1>4. /\ Units(p, a + 1, b) \in Seq(Unit) /\ Len(Units(p, a + 1, b)) = b - a
      /\ \A i \in 1..(b - a) : Units(p, a + 1, b)[i] = <<p, a + i>>
  BY UnitFacts
<1>5. PICK r : r = Units(p, 1, a) \o Units(p, a + 1, b)
  OBVIOUS
<1>6. z + 1 = 1 /\ a - z = a /\ b - z = b /\ \A i \in Nat : z + i = i
  BY <1>1
<1>7. /\ Units(p, 1, a) \in Seq(Unit) /\ Len(Units(p, 1, a)) = a
      /\ \A i \in 1..a : Units(p, 1, a)[i] = <<p, i>>
  BY <1>2, <1>6
<1>8. /\ Units(p, 1, b) \in Seq(Unit) /\ Len(Units(p, 1, b)) = b
      /\ \A i \in 1..b : Units(p, 1, b)[i] = <<p, i>>
  BY <1>3, <1>6
<1>9. /\ r \in Seq(Unit) /\ Len(r) = a + (b - a)
      /\ \A i \in 1..a + (b - a) : r[i] = IF i <= a THEN Units(p, 1, a)[i] ELSE Units(p, a + 1, b)[i - a]
  <2>1. PICK v \in Seq(Unit) : v = Units(p, 1, a) /\ Len(v) = a
    BY <1>7
  <2>2. PICK w \in Seq(Unit) : w = Units(p, a + 1, b) /\ Len(w) = b - a
    BY <1>4
  <2>3. /\ v \o w \in Seq(Unit) /\ Len(v \o w) = Len(v) + Len(w)
        /\ \A i \in 1..Len(v) + Len(w) : (v \o w)[i] = IF i <= Len(v) THEN v[i] ELSE w[i - Len(v)]
    BY ConcatProperties
  <2>4. r = v \o w
    BY <1>5, <2>1, <2>2
  <2>5. QED
    BY <2>1, <2>2, <2>3, <2>4
<1>10. ASSUME NEW i \in 1..b PROVE r[i] = <<p, i>>
  <2>1. CASE i <= a
    <3>1. i \in 1..a /\ i \in 1..a + (b - a)
      BY <2>1
    <3>2. r[i] = Units(p, 1, a)[i]
      BY <1>9, <2>1, <3>1
    <3>3. QED
      BY <1>7, <3>1, <3>2
  <2>2. CASE ~(i <= a)
    <3>1. PICK j \in 1..(b - a) : j = i - a
      BY <2>2
    <3>2. a + j = i /\ i \in 1..a + (b - a)
      BY <3>1
    <3>3. r[i] = Units(p, a + 1, b)[j]
      BY <1>9, <2>2, <3>1, <3>2
    <3>4. r[i] = <<p, a + j>>
      BY <1>4, <3>3
    <3>5. QED
      BY <3>2, <3>4
  <2>3. QED
    BY <2>1, <2>2
<1>11. r = Units(p, 1, b)
  <2>1. PICK w : w = Units(p, 1, b)
    OBVIOUS
  <2>2. w \in Seq(Unit) /\ r \in Seq(Unit) /\ Len(w) = b /\ Len(r) = b
    BY <1>8, <1>9, <2>1
  <2>3. \A i \in 1..b : w[i] = r[i]
    BY <1>8, <1>10, <2>1
  <2>4. QED
    BY <2>1, <2>2, <2>3, SeqEqual
<1>12. QED
  BY <1>5, <1>11

LEMMA ChunkFacts ==
  ASSUME NEW t \in Tasks, NEW x \in Places(t), NEW p, p = Pdus[t][x.pdu], NEW pkt, pkt = Chunk(t, x)
  PROVE  /\ pkt \in Packet /\ pkt.handle = HandleOf[t] /\ (pkt.first <=> x.sent = 0)
         /\ pkt.first \in BOOLEAN /\ pkt.data = Units(p, x.sent + 1, Upto(t, x))
         /\ pkt.data \in Seq(Unit) /\ Len(pkt.data) = Upto(t, x) - x.sent
         /\ pkt.data[1][1] = p
<1>1. /\ p \in AllPdus /\ x.sent \in Nat /\ Upto(t, x) \in Nat /\ x.sent < Upto(t, x)
  BY PlaceFacts
<1>2. PICK n \in Nat : n = Upto(t, x)
  BY <1>1
<1>3. pkt = [handle |-> HandleOf[t], first |-> x.sent = 0, data |-> Units(p, x.sent + 1, n)]
  BY <1>2 DEF Chunk
<1>4. /\ Units(p, x.sent + 1, n) \in Seq(Unit) /\ Len(Units(p, x.sent + 1, n)) = n - x.sent
      /\ \A i \in 1..(n - x.sent) : Units(p, x.sent + 1, n)[i] = <<p, x.sent + i>>
  <2>1. PICK a \in Nat : a = x.sent /\ a <= n
    BY <1>1, <1>2
  <2>2. /\ Units(p, a + 1, n) \in Seq(Unit) /\ Len(Units(p, a + 1, n)) = n - a
        /\ \A i \in 1..(n - a) : Units(p, a + 1, n)[i] = <<p, a + i>>
    BY <1>1, <2>1, UnitFacts
  <2>3. QED
    BY <2>1, <2>2
<1>5. 1 \in 1..(n - x.sent)
  BY <1>1, <1>2
<1>6. pkt.data[1] = <<p, x.sent + 1>>
  BY <1>3, <1>4, <1>5
<1>7. pkt \in Packet
  BY DEF Packet
<1>8. pkt.data = Units(p, x.sent + 1, n) /\ pkt.handle = HandleOf[t] /\ (pkt.first <=> x.sent = 0) /\ pkt.first \in BOOLEAN
  <2>1. pkt.data = Units(p, x.sent + 1, n) /\ pkt.handle = HandleOf[t]
    BY <1>3
  <2>2. pkt.first = (x.sent = 0)
    BY <1>3
  <2>3. QED
    BY <2>1, <2>2
<1>9. pkt.data \in Seq(Unit) /\ Len(pkt.data) = n - x.sent /\ pkt.data[1][1] = p
  BY <1>4, <1>6, <1>8
<1>10. QED
  BY <1>2, <1>7, <1>8, <1>9

LEMMA PacketFacts ==
  ASSUME NEW pkt \in Packet
  PROVE  /\ pkt.handle \in Handles /\ pkt.first \in BOOLEAN /\ pkt.data \in Seq(Unit)
         /\ Size[pkt.data[1][1]] \in Nat
         /\ \E t \in Tasks : pkt.handle = HandleOf[t]
<1>1. PICK t \in Tasks : \E x \in Places(t) : pkt = Chunk(t, x)
  BY DEF Packet
<1>2. PICK x \in Places(t) : pkt = Chunk(t, x)
  BY <1>1
<1>3. PICK p : p = Pdus[t][x.pdu]
  OBVIOUS
<1>4. Size[p] \in Nat
  BY <1>3, PlaceFacts
<1>5. /\ pkt.handle = HandleOf[t] /\ pkt.first \in BOOLEAN /\ pkt.data \in Seq(Unit) /\ pkt.data[1][1] = p
  BY <1>2, <1>3, ChunkFacts
<1>6. HandleOf[t] \in Handles
  BY HandlesAssumption
<1>7. QED
  BY <1>4, <1>5, <1>6

-----------------------------------------------------------------------------
(* What the assembler does with a chunk. *)
LEMMA Pushing ==
  ASSUME Types, NEW h \in Handles, NEW pkt \in Packet, Push(h, pkt),
         NEW units, units = Buffered(h, pkt),
         NEW len, len = IF pkt.first THEN Size[pkt.data[1][1]] ELSE pduLength[h]
  PROVE  /\ units \in Seq(Unit) /\ len \in Nat
         /\ pduLength'[h] = len /\ (inProgress'[h] <=> Len(units) < len)
         /\ pduBuffer'[h] = (IF Len(units) = len THEN <<>> ELSE units)
         /\ assembled'[h] = (IF Len(units) = len THEN Append(assembled[h], units) ELSE assembled[h])
         /\ \A o \in Handles : o # h =>
              /\ pduBuffer'[o] = pduBuffer[o] /\ pduLength'[o] = pduLength[o]
              /\ inProgress'[o] = inProgress[o] /\ assembled'[o] = assembled[o]
         /\ interrupted' = (IF pkt.first /\ inProgress[h] THEN interrupted \cup {h} ELSE interrupted)
         /\ pduBuffer' \in [Handles -> Seq(Unit)] /\ pduLength' \in [Handles -> Nat]
         /\ inProgress' \in [Handles -> BOOLEAN] /\ assembled' \in [Handles -> Seq(Seq(Unit))]
         /\ interrupted' \subseteq Handles
<1>1. /\ interrupted' = IF pkt.first /\ inProgress[h] THEN interrupted \cup {h} ELSE interrupted
      /\ pduLength' = [pduLength EXCEPT ![h] = len]
      /\ inProgress' = [inProgress EXCEPT ![h] = Len(units) < len]
      /\ assembled' = IF Len(units) = len THEN [assembled EXCEPT ![h] = Append(@, units)] ELSE assembled
      /\ pduBuffer' = [pduBuffer EXCEPT ![h] = IF Len(units) = len THEN <<>> ELSE units]
  BY DEF Push
<1>2. /\ pduBuffer \in [Handles -> Seq(Unit)] /\ pduLength \in [Handles -> Nat]
      /\ inProgress \in [Handles -> BOOLEAN] /\ assembled \in [Handles -> Seq(Seq(Unit))]
      /\ interrupted \subseteq Handles
  BY DEF Types
<1>3. pkt.data \in Seq(Unit) /\ Size[pkt.data[1][1]] \in Nat
  BY PacketFacts
<1>4. units \in Seq(Unit)
  <2>1. pduBuffer[h] \in Seq(Unit)
    BY <1>2
  <2>2. pduBuffer[h] \o pkt.data \in Seq(Unit)
    BY <1>3, <2>1, ConcatProperties
  <2>3. QED
    BY <1>3, <2>2 DEF Buffered
<1>5. len \in Nat
  BY <1>2, <1>3
<1>6. pduLength'[h] = len /\ pduLength' \in [Handles -> Nat] /\ \A o \in Handles : o # h => pduLength'[o] = pduLength[o]
  BY <1>1, <1>2, <1>5
<1>7. PICK b \in BOOLEAN : b = (Len(units) < len)
  <2>1. (Len(units) < len) \in BOOLEAN
    <3>1. Len(units) \in Nat
      BY <1>4, LenProperties
    <3>2. QED
      BY <1>5, <3>1
  <2>2. QED
    BY <2>1, Zenon
<1>8. /\ (inProgress'[h] <=> Len(units) < len) /\ inProgress' \in [Handles -> BOOLEAN]
      /\ \A o \in Handles : o # h => inProgress'[o] = inProgress[o]
  <2>1. inProgress' = [inProgress EXCEPT ![h] = b]
    BY <1>1, <1>7
  <2>2. inProgress'[h] = b
    BY <1>2, <2>1
  <2>3. inProgress' \in [Handles -> BOOLEAN]
    BY <1>2, <2>1
  <2>4. \A o \in Handles : o # h => inProgress'[o] = inProgress[o]
    BY <1>2, <2>1
  <2>5. QED
    BY <1>7, <2>2, <2>3, <2>4
<1>9. PICK a : a = IF Len(units) = len THEN <<>> ELSE units
  OBVIOUS
<1>10. /\ pduBuffer'[h] = a /\ pduBuffer' \in [Handles -> Seq(Unit)]
       /\ \A o \in Handles : o # h => pduBuffer'[o] = pduBuffer[o]
  <2>1. a \in Seq(Unit)
    BY <1>4, <1>9, EmptySeq
  <2>2. pduBuffer' = [pduBuffer EXCEPT ![h] = a]
    BY <1>1, <1>9
  <2>3. QED
    BY <1>2, <2>1, <2>2
<1>11. PICK got : got = IF Len(units) = len THEN Append(assembled[h], units) ELSE assembled[h]
  OBVIOUS
<1>12. /\ assembled'[h] = got /\ assembled' \in [Handles -> Seq(Seq(Unit))]
       /\ \A o \in Handles : o # h => assembled'[o] = assembled[o]
  <2>1. got \in Seq(Seq(Unit))
    BY <1>2, <1>4, <1>11, AppendProperties
  <2>2. assembled' = [assembled EXCEPT ![h] = got]
    BY <1>1, <1>2, <1>11
  <2>3. QED
    BY <1>2, <2>1, <2>2
<1>13. interrupted' \subseteq Handles
  BY <1>1, <1>2
<1>14. QED
  BY <1>1, <1>4, <1>5, <1>6, <1>8, <1>9, <1>10, <1>11, <1>12, <1>13

(* What was assembled, when more is. *)
LEMMA PickedKept ==
  ASSUME NEW t \in Tasks, NEW n \in Nat, NEW m \in Nat, n <= m, Picked(t, n),
         assembled'[HandleOf[t]] = assembled[HandleOf[t]]
  PROVE  Picked(t, m)'
<1>1. PICK got : got = assembled[HandleOf[t]]
  OBVIOUS
<1>2. PICK picked \in [1..Len(got) -> 1..Len(Pdus[t])] :
        /\ \A i \in 1..Len(got) : got[i] = Whole(Pdus[t][picked[i]]) /\ picked[i] < n
        /\ \A i, j \in 1..Len(got) : i < j => picked[i] < picked[j]
  BY <1>1 DEF Picked
<1>3. \A i \in 1..Len(got) : picked[i] \in Nat /\ picked[i] < m
  <2>1. Len(Pdus[t]) \in Nat
    BY PdusAssumption, LenProperties
  <2>2. QED
    BY <1>2, <2>1
<1>4. QED
  BY <1>1, <1>2, <1>3 DEF Picked

LEMMA PickedMore ==
  ASSUME NEW t \in Tasks, NEW n \in 1..Len(Pdus[t]), Picked(t, n),
         assembled[HandleOf[t]] \in Seq(Seq(Unit)), NEW u \in Seq(Unit), u = Whole(Pdus[t][n]),
         assembled'[HandleOf[t]] = Append(assembled[HandleOf[t]], u)
  PROVE  Picked(t, n + 1)'
<1>1. PICK got \in Seq(Seq(Unit)) : got = assembled[HandleOf[t]]
  OBVIOUS
<1>2. PICK picked \in [1..Len(got) -> 1..Len(Pdus[t])] :
        /\ \A i \in 1..Len(got) : got[i] = Whole(Pdus[t][picked[i]]) /\ picked[i] < n
        /\ \A i, j \in 1..Len(got) : i < j => picked[i] < picked[j]
  BY <1>1 DEF Picked
<1>3. PICK more : more = Append(got, u)
  OBVIOUS
<1>4. /\ Len(got) \in Nat /\ Len(more) = Len(got) + 1
      /\ \A i \in 1..Len(got) : more[i] = got[i]
      /\ more[Len(got) + 1] = u
  BY <1>3, AppendProperties, LenProperties
<1>5. PICK f : f = [i \in 1..Len(more) |-> IF i <= Len(got) THEN picked[i] ELSE n]
  OBVIOUS
<1>6. Len(Pdus[t]) \in Nat
  BY PdusAssumption, LenProperties
<1>7. ASSUME NEW i \in 1..Len(more)
      PROVE  /\ f[i] \in 1..Len(Pdus[t]) /\ f[i] < n + 1 /\ more[i] = Whole(Pdus[t][f[i]])
             /\ i \in 1..Len(got) => f[i] = picked[i] /\ f[i] < n
             /\ i \notin 1..Len(got) => f[i] = n /\ i = Len(got) + 1
  <2>0. f[i] = IF i <= Len(got) THEN picked[i] ELSE n
    BY <1>5
  <2>1. CASE i \in 1..Len(got)
    <3>1. i <= Len(got) /\ f[i] = picked[i]
      BY <1>4, <2>0, <2>1
    <3>2. picked[i] \in 1..Len(Pdus[t]) /\ picked[i] < n /\ more[i] = Whole(Pdus[t][picked[i]])
      BY <1>2, <1>4, <2>1
    <3>3. QED
      BY <1>6, <2>1, <3>1, <3>2
  <2>2. CASE i \notin 1..Len(got)
    <3>1. i = Len(got) + 1 /\ ~(i <= Len(got))
      BY <1>4, <2>2
    <3>2. f[i] = n
      BY <2>0, <3>1
    <3>3. QED
      BY <1>4, <1>6, <2>2, <3>1, <3>2
  <2>3. QED
    BY <2>1, <2>2
<1>8. f \in [1..Len(more) -> 1..Len(Pdus[t])]
  BY <1>5, <1>7
<1>9. ASSUME NEW i \in 1..Len(more), NEW j \in 1..Len(more), i < j PROVE f[i] < f[j]
  <2>1. i \in 1..Len(got)
    BY <1>4, <1>9
  <2>2. CASE j \in 1..Len(got)
    BY <1>2, <1>7, <1>9, <2>1, <2>2
  <2>3. CASE j \notin 1..Len(got)
    BY <1>7, <2>1, <2>3
  <2>4. QED
    BY <2>2, <2>3
<1>10. assembled'[HandleOf[t]] = more
  BY <1>1, <1>3
<1>11. QED
  BY <1>7, <1>8, <1>9, <1>10 DEF Picked

(* A chunk that was lost leaves the assembler behind. *)
LEMMA Skipped ==
  ASSUME Types, NEW t \in Tasks, NEW x \in Places(t), InStep(t, x)
  PROVE  Harmless(t, After(t, x))
<1>1. PICK p : p = Pdus[t][x.pdu]
  OBVIOUS
<1>2. PICK y : y = After(t, x)
  OBVIOUS
<1>3. /\ x.pdu \in 1..Len(Pdus[t]) /\ x.sent \in Nat /\ p \in AllPdus
      /\ \/ y.sent = 0
         \/ y.sent = x.sent + MaxSize /\ y.pdu = x.pdu
  BY <1>1, <1>2, PlaceFacts
<1>4. CASE y.sent = 0
  BY <1>2, <1>4 DEF Harmless
<1>5. CASE x.sent = 0
  BY <1>2, <1>5 DEF Harmless, InStep
<1>6. CASE x.sent # 0 /\ y.sent = x.sent + MaxSize /\ y.pdu = x.pdu
  <2>1. pduBuffer[HandleOf[t]] = Units(p, 1, x.sent) /\ pduLength[HandleOf[t]] = Size[p]
    BY <1>1, <1>6 DEF InStep
  <2>2. Len(Units(p, 1, x.sent)) = x.sent
    <3>1. PICK z \in Nat : z = 0 /\ z + 1 = 1
      OBVIOUS
    <3>2. PICK n \in Nat : n = x.sent /\ z <= n
      BY <1>3, <3>1
    <3>3. Len(Units(p, z + 1, n)) = n - z
      BY <1>3, <3>2, UnitFacts
    <3>4. QED
      BY <3>1, <3>2, <3>3
  <2>3. x.sent < y.sent
    BY <1>3, <1>6, PdusAssumption
  <2>4. QED
    BY <1>1, <1>2, <1>6, <2>1, <2>2, <2>3 DEF Harmless
<1>7. QED
  BY <1>3, <1>4, <1>5, <1>6

(* The chunk the receiver waits for: the assembler goes on, or has no PDU   *)
(* that could be completed by it.                                          *)
LEMMA Received ==
  ASSUME Types, NEW t \in Tasks, NEW x \in Places(t), NEW pkt, pkt = Chunk(t, x),
         NEW h, h = HandleOf[t], NEW y, y = After(t, x),
         IF pkt.first \/ inProgress[h] THEN Push(h, pkt) ELSE UNCHANGED assemblers,
         Harmless(t, x), Picked(t, x.pdu)
  PROVE  Harmless(t, y)' /\ Picked(t, y.pdu)' /\ (InStep(t, x) => InStep(t, y)')
<1>1. PICK p : p = Pdus[t][x.pdu]
  OBVIOUS
<1>2. PICK n \in Nat : n = Upto(t, x)
  BY <1>1, PlaceFacts
<1>3. /\ x.pdu \in 1..Len(Pdus[t]) /\ x.pdu \in Nat /\ x.sent \in Nat /\ p \in AllPdus /\ Size[p] \in Nat
      /\ x.sent < n /\ n <= Size[p] /\ y.pdu \in Nat /\ x.pdu <= y.pdu /\ y.sent \in Nat
      /\ \/ n = Size[p] /\ y.pdu = x.pdu + 1 /\ y.sent = 0
         \/ n < Size[p] /\ y.pdu = x.pdu /\ y.sent = n
  <2>1. /\ x.pdu \in 1..Len(Pdus[t]) /\ x \in Position /\ x.sent \in Nat /\ p \in AllPdus /\ Size[p] \in Nat
        /\ x.sent < n /\ n <= Size[p] /\ y \in Position
        /\ \/ n = Size[p] /\ y.pdu = x.pdu + 1 /\ y.sent = 0
           \/ n < Size[p] /\ y.pdu = x.pdu /\ y.sent = n
    BY <1>1, <1>2, PlaceFacts
  <2>2. x.pdu \in Nat /\ y.pdu \in Nat /\ y.sent \in Nat
    BY <2>1 DEF Position
  <2>3. x.pdu <= y.pdu
    BY <2>1, <2>2
  <2>4. QED
    BY <2>1, <2>2, <2>3
<1>4. /\ pkt \in Packet /\ (pkt.first <=> x.sent = 0)
      /\ pkt.data = Units(p, x.sent + 1, n) /\ pkt.data \in Seq(Unit) /\ Len(pkt.data) = n - x.sent
      /\ pkt.data[1][1] = p
  BY <1>1, <1>2, ChunkFacts
<1>5. h \in Handles
  BY HandlesAssumption
<1>6. PICK len : len = IF pkt.first THEN Size[pkt.data[1][1]] ELSE pduLength[h]
  OBVIOUS
<1>7. PICK units : units = Buffered(h, pkt)
  OBVIOUS
<1>8. ASSUME Push(h, pkt)
      PROVE  /\ units \in Seq(Unit) /\ len \in Nat
             /\ pduLength'[h] = len /\ (inProgress'[h] <=> Len(units) < len)
             /\ pduBuffer'[h] = (IF Len(units) = len THEN <<>> ELSE units)
             /\ assembled'[h] = (IF Len(units) = len THEN Append(assembled[h], units) ELSE assembled[h])
  BY <1>4, <1>5, <1>6, <1>7, <1>8, Pushing
<1>9. ASSUME Push(h, pkt), len = Size[p], units = Units(p, 1, n), Len(units) = n
      PROVE  Harmless(t, y)' /\ Picked(t, y.pdu)' /\ InStep(t, y)'
  <2>1. CASE n = Size[p]
    <3>1. ~inProgress'[h] /\ y.sent = 0 /\ y.pdu = x.pdu + 1
      BY <1>3, <1>8, <1>9, <2>1
    <3>2. assembled'[h] = Append(assembled[h], units) /\ units = Whole(p) /\ units \in Seq(Unit)
      BY <1>8, <1>9, <2>1 DEF Whole
    <3>3. assembled[h] \in Seq(Seq(Unit))
      BY <1>5 DEF Types
    <3>4. Picked(t, x.pdu + 1)'
      BY <1>1, <1>3, <3>2, <3>3, PickedMore
    <3>5. QED
      BY <3>1, <3>4 DEF Harmless, InStep
  <2>2. CASE n # Size[p]
    <3>1. y.pdu = x.pdu /\ y.sent = n /\ n < Size[p] /\ n # 0
      BY <1>3, <2>2
    <3>2. inProgress'[h] /\ pduBuffer'[h] = Units(p, 1, n) /\ pduLength'[h] = Size[p] /\ assembled'[h] = assembled[h]
      BY <1>3, <1>8, <1>9, <3>1
    <3>3. Picked(t, y.pdu)'
      BY <1>3, <3>2, PickedKept
    <3>4. QED
      BY <1>1, <3>1, <3>2, <3>3 DEF Harmless, InStep
  <2>3. QED
    BY <2>1, <2>2
<1>10. CASE x.sent = 0
  <2>1. PICK z \in Nat : z = 0 /\ z + 1 = 1 /\ z = x.sent /\ n - z = n
    BY <1>10
  <2>2. units = Units(p, z + 1, n) /\ Len(units) = n - z /\ Push(h, pkt) /\ len = Size[p]
    BY <1>4, <1>6, <1>7, <1>10, <2>1 DEF Buffered
  <2>3. units = Units(p, 1, n) /\ Len(units) = n
    BY <2>1, <2>2
  <2>4. QED
    BY <1>9, <2>2, <2>3
<1>11. CASE x.sent # 0 /\ ~inProgress[h]
  <2>1. UNCHANGED assemblers
    BY <1>4, <1>11
  <2>2. ~inProgress'[h] /\ assembled'[h] = assembled[h]
    BY <1>11, <2>1 DEF assemblers
  <2>3. ~InStep(t, x)
    BY <1>11 DEF InStep
  <2>4. Picked(t, y.pdu)'
    BY <1>3, <2>2, PickedKept
  <2>5. QED
    BY <2>2, <2>3, <2>4 DEF Harmless
<1>12. CASE x.sent # 0 /\ inProgress[h]
  <2>1. Push(h, pkt) /\ len = pduLength[h] /\ units = pduBuffer[h] \o pkt.data
    BY <1>4, <1>6, <1>7, <1>12 DEF Buffered
  <2>2. pduLength[h] = Size[p] /\ (pduBuffer[h] = Units(p, 1, x.sent) \/ Len(pduBuffer[h]) < x.sent)
    BY <1>1, <1>12 DEF Harmless
  <2>3. pduBuffer[h] \in Seq(Unit) /\ Len(pduBuffer[h]) \in Nat
    BY <1>5, LenProperties DEF Types
  <2>4. Len(units) = Len(pduBuffer[h]) + (n - x.sent)
    <3>1. PICK a \in Seq(Unit) : a = pduBuffer[h]
      BY <2>3
    <3>2. PICK b \in Seq(Unit) : b = pkt.data /\ Len(b) = n - x.sent
      BY <1>4
    <3>3. Len(a \o b) = Len(a) + Len(b)
      BY ConcatProperties
    <3>4. QED
      BY <2>1, <3>1, <3>2, <3>3
  <2>5. Len(Units(p, 1, x.sent)) = x.sent
    <3>1. PICK z \in Nat : z = 0 /\ z + 1 = 1
      OBVIOUS
    <3>2. PICK m \in Nat : m = x.sent /\ z <= m
      BY <1>3, <3>1
    <3>3. Len(Units(p, z + 1, m)) = m - z
      BY <1>3, <3>2, UnitFacts
    <3>4. QED
      BY <3>1, <3>2, <3>3
  <2>6. CASE pduBuffer[h] = Units(p, 1, x.sent)
    <3>1. PICK m \in Nat : m = x.sent /\ m <= n
      BY <1>3
    <3>2. Units(p, 1, m) \o Units(p, m + 1, n) = Units(p, 1, n)
      BY <1>3, <3>1, UnitsMeet
    <3>3. units = Units(p, 1, n) /\ Len(units) = n
      <4>1. pkt.data = Units(p, m + 1, n) /\ pduBuffer[h] = Units(p, 1, m)
        BY <1>4, <2>6, <3>1
      <4>2. units = Units(p, 1, n)
        BY <2>1, <3>2, <4>1
      <4>3. Len(pduBuffer[h]) = x.sent
        BY <2>5, <2>6
      <4>4. Len(units) = n
        BY <1>3, <2>4, <4>3
      <4>5. QED
        BY <4>2, <4>4
    <3>4. QED
      BY <1>9, <2>1, <2>2, <3>3
  <2>7. CASE Len(pduBuffer[h]) < x.sent
    <3>1. Len(units) \in Nat /\ Len(units) < n /\ Len(units) < Size[p]
      BY <1>3, <2>3, <2>4, <2>7
    <3>2. /\ pduLength'[h] = Size[p] /\ pduBuffer'[h] = units /\ assembled'[h] = assembled[h]
      <4>1. Len(units) # len /\ len = Size[p]
        <5>1. len = Size[p]
          BY <2>1, <2>2, Zenon
        <5>2. PICK k \in Nat : k = Len(units) /\ k < Size[p]
          BY <3>1
        <5>3. k # Size[p]
          BY <1>3, <5>2
        <5>4. QED
          BY <5>1, <5>2, <5>3
      <4>2. /\ pduLength'[h] = len /\ pduBuffer'[h] = (IF Len(units) = len THEN <<>> ELSE units)
            /\ assembled'[h] = (IF Len(units) = len THEN Append(assembled[h], units) ELSE assembled[h])
        BY <1>8, <2>1
      <4>3. QED
        BY <4>1, <4>2
    <3>3. Picked(t, y.pdu)'
      BY <1>3, <3>2, PickedKept
    <3>4. Harmless(t, y)'
      <4>1. CASE y.sent = 0
        BY <4>1 DEF Harmless
      <4>2. CASE y.sent # 0
        <5>1. y.pdu = x.pdu /\ y.sent = n
          BY <1>3, <4>2
        <5>2. QED
          BY <1>1, <3>1, <3>2, <5>1 DEF Harmless
      <4>3. QED
        BY <4>1, <4>2
    <3>5. ~InStep(t, x)
      <4>1. pduBuffer[h] # Units(p, 1, x.sent)
        BY <2>3, <2>5, <2>7
      <4>2. QED
        BY <1>1, <1>12, <4>1 DEF InStep
    <3>6. QED
      BY <3>3, <3>4, <3>5
  <2>8. QED
    BY <2>2, <2>6, <2>7
<1>13. QED
  BY <1>10, <1>11, <1>12

LEMMA PickedMono ==
  ASSUME NEW t \in Tasks, NEW n \in Nat, NEW m \in Nat, n <= m, Picked(t, n)
  PROVE  Picked(t, m)
<1>1. PICK got : got = assembled[HandleOf[t]]
  OBVIOUS
<1>2. PICK picked \in [1..Len(got) -> 1..Len(Pdus[t])] :
        /\ \A i \in 1..Len(got) : got[i] = Whole(Pdus[t][picked[i]]) /\ picked[i] < n
        /\ \A i, j \in 1..Len(got) : i < j => picked[i] < picked[j]
  BY <1>1 DEF Picked
<1>3. \A i \in 1..Len(got) : picked[i] \in Nat /\ picked[i] < m
  <2>1. Len(Pdus[t]) \in Nat
    BY PdusAssumption, LenProperties
  <2>2. QED
    BY <1>2, <2>1
<1>4. QED
  BY <1>1, <1>2, <1>3 DEF Picked

-----------------------------------------------------------------------------
(* The steps.  A chunk is added to the chain of its task. *)
SendsChunk(t, x, pkt) ==
  /\ x \in Places(t) /\ x = Here(t) /\ pkt = Chunk(t, x) /\ pkt \in Packet
  /\ queue' \in Seq(Packet) /\ Len(queue) \in Nat /\ Len(queue') = Len(queue) + 1
  /\ \A i \in 1..Len(queue) : queue'[i] = queue[i]
  /\ queue'[Len(queue) + 1] = pkt
  /\ Here(t)' = After(t, x)
  /\ \A u \in Tasks : u # t => pdu'[u] = pdu[u] /\ sent'[u] = sent[u]
  /\ pdu' \in [Tasks -> Nat \ {0}] /\ sent' \in [Tasks -> Nat]
  /\ UNCHANGED <<assemblers, lost>>

LEMMA Sending ==
  ASSUME Types, NEW t \in Tasks, SendChunk(t)
  PROVE  \E x \in Places(t) : \E pkt \in Packet : SendsChunk(t, x, pkt)
<1>1. PICK x : x = Here(t)
  OBVIOUS
<1>2. x \in Places(t) /\ x.pdu = pdu[t] /\ x.sent = sent[t]
  BY <1>1 DEF SendChunk, Types, Here
<1>3. PICK p : p = Pdus[t][x.pdu]
  OBVIOUS
<1>4. PICK n : n = Upto(t, x)
  OBVIOUS
<1>5. /\ n \in Nat /\ x.sent \in Nat /\ Size[p] \in Nat /\ x.pdu \in 1..Len(Pdus[t]) /\ After(t, x) \in Position
      /\ \/ n = Size[p]
         \/ n < Size[p]
  BY <1>2, <1>3, <1>4, PlaceFacts
<1>6. PICK pkt : pkt = Chunk(t, x)
  OBVIOUS
<1>7. pkt \in Packet
  BY <1>2, <1>6, ChunkFacts
<1>8. n = IF sent[t] + MaxSize < Size[p] THEN sent[t] + MaxSize ELSE Size[p]
  BY <1>2, <1>3, <1>4 DEF Upto
<1>9. /\ queue' = Append(queue, [handle |-> HandleOf[t], first |-> sent[t] = 0, data |-> Units(p, sent[t] + 1, n)])
      /\ sent' = [sent EXCEPT ![t] = IF n = Size[p] THEN 0 ELSE n]
      /\ pdu' = [pdu EXCEPT ![t] = IF n = Size[p] THEN @ + 1 ELSE @]
      /\ UNCHANGED <<assemblers, lost>>
  BY <1>2, <1>3, <1>8 DEF SendChunk
<1>10. queue' = Append(queue, pkt)
  BY <1>2, <1>3, <1>4, <1>6, <1>9 DEF Chunk
<1>11. /\ queue' \in Seq(Packet) /\ Len(queue) \in Nat /\ Len(queue') = Len(queue) + 1
       /\ \A i \in 1..Len(queue) : queue'[i] = queue[i]
       /\ queue'[Len(queue) + 1] = pkt
  BY <1>7, <1>10, AppendProperties, LenProperties DEF Types
<1>12. /\ sent' \in [Tasks -> Nat] /\ sent'[t] = (IF n = Size[p] THEN 0 ELSE n)
       /\ \A u \in Tasks : u # t => sent'[u] = sent[u]
  BY <1>5, <1>9 DEF Types
<1>13. /\ pdu' \in [Tasks -> Nat \ {0}] /\ pdu'[t] = (IF n = Size[p] THEN pdu[t] + 1 ELSE pdu[t])
       /\ \A u \in Tasks : u # t => pdu'[u] = pdu[u]
  BY <1>9 DEF Types
<1>14. Here(t)' = After(t, x)
  <2>1. Here(t)' = [pdu |-> pdu'[t], sent |-> sent'[t]]
    BY DEF Here
  <2>2. After(t, x) = IF n = Size[p] THEN [pdu |-> x.pdu + 1, sent |-> 0] ELSE [pdu |-> x.pdu, sent |-> n]
    BY <1>3, <1>4 DEF After
  <2>3. QED
    BY <1>2, <1>12, <1>13, <2>1, <2>2
<1>15. SendsChunk(t, x, pkt)
  BY <1>1, <1>2, <1>6, <1>7, <1>9, <1>11, <1>12, <1>13, <1>14 DEF SendsChunk
<1>16. QED
  BY <1>2, <1>7, <1>15

\* The assemblers are as they were.
LEMMA AssemblerFrame ==
  ASSUME UNCHANGED assemblers, NEW t \in Tasks, NEW x, NEW n
  PROVE  /\ InStep(t, x)' <=> InStep(t, x)
         /\ Harmless(t, x)' <=> Harmless(t, x)
         /\ Picked(t, n)' <=> Picked(t, n)
BY DEF assemblers, InStep, Harmless, Picked

LEMMA SendKeepsConn ==
  ASSUME Types, OwnConnections, NEW t \in Tasks, NEW x \in Places(t), NEW pkt \in Packet, SendsChunk(t, x, pkt),
         NEW u \in Tasks, ConnInv(u)
  PROVE  ConnInv(u)'
<1>1. PICK e \in [Nat -> Position], g \in Nat :
        /\ Chain(u, e, g)
        /\ lost = 0 => g = 0
        /\ Harmless(u, e[0]) /\ (lost = 0 \/ g # 0 => InStep(u, e[0]))
        /\ Picked(u, e[0].pdu)
  BY DEF ConnInv
<1>2. PICK m \in Nat : m = Len(queue)
  BY DEF SendsChunk
<1>3. /\ Len(queue') = m + 1 /\ queue'[m + 1] = pkt /\ \A i \in 1..m : queue'[i] = queue[i]
  BY <1>2 DEF SendsChunk
<1>4. PICK y : y = IF u = t THEN After(t, x) ELSE Here(u)
  OBVIOUS
<1>5. y \in Position /\ y = Here(u)'
  <2>1. CASE u = t
    BY <1>4, <2>1, PlaceFacts DEF SendsChunk
  <2>2. CASE u # t
    <3>1. Here(u)' = Here(u)
      BY <2>2 DEF SendsChunk, Here
    <3>2. Here(u) \in Position
      BY DEF Types, Here, Position
    <3>3. QED
      BY <1>4, <2>2, <3>1, <3>2
  <2>3. QED
    BY <2>1, <2>2
<1>6. PICK f : f = [i \in Nat |-> IF i = m + 1 THEN y ELSE e[i]]
  OBVIOUS
<1>7. f \in [Nat -> Position] /\ f[m + 1] = y /\ \A i \in Nat : i # m + 1 => f[i] = e[i]
  BY <1>5, <1>6
<1>8. f[0] = e[0]
  BY <1>7
<1>9. g # 0 => g \in 1..m + 1 /\ e[g - 1] \in Places(u)
  BY <1>1, <1>2 DEF Chain
<1>10. ASSUME NEW i \in 1..m + 1 PROVE Before(u, f, g, i) = Before(u, e, g, i)
  <2>1. f[i - 1] = e[i - 1]
    BY <1>7
  <2>2. QED
    BY <2>1 DEF Before
<1>11. Before(u, f, g, m + 1) = Here(u)
  <2>1. Before(u, e, g, m + 1) = Here(u)
    BY <1>1, <1>2 DEF Chain
  <2>2. m + 1 \in 1..m + 1
    OBVIOUS
  <2>3. QED
    BY <1>10, <2>1, <2>2
<1>12. Before(u, f, g, (m + 1) + 1) = y
  <2>1. (m + 1) + 1 # g /\ ((m + 1) + 1) - 1 = m + 1
    BY <1>9
  <2>2. QED
    BY <1>7, <2>1 DEF Before
<1>13. pkt.handle = HandleOf[t]
  <2>1. pkt = Chunk(t, x)
    BY DEF SendsChunk
  <2>2. QED
    BY <2>1, ChunkFacts
<1>14. ASSUME NEW i \in 1..m + 1
       PROVE  /\ queue'[i].handle = HandleOf[u] =>
                   /\ Before(u, f, g, i) \in Places(u) /\ queue'[i] = Chunk(u, Before(u, f, g, i))
                   /\ f[i] = After(u, Before(u, f, g, i))
              /\ queue'[i].handle # HandleOf[u] => f[i] = Before(u, f, g, i)
  <2>1. CASE i \in 1..m
    <3>1. f[i] = e[i] /\ queue'[i] = queue[i] /\ Before(u, f, g, i) = Before(u, e, g, i)
      BY <1>3, <1>7, <1>10, <2>1
    <3>2. QED
      BY <1>1, <1>2, <2>1, <3>1 DEF Chain
  <2>2. CASE i \notin 1..m
    <3>1. i = m + 1
      BY <2>2
    <3>2. CASE u = t
      BY <1>3, <1>4, <1>7, <1>11, <1>13, <3>1, <3>2 DEF SendsChunk
    <3>3. CASE u # t
      <4>1. pkt.handle # HandleOf[u]
        BY <1>13, <3>3 DEF OwnConnections
      <4>2. QED
        BY <1>3, <1>4, <1>7, <1>11, <3>1, <3>3, <4>1
    <3>4. QED
      BY <3>2, <3>3
  <2>3. QED
    BY <2>1, <2>2
<1>15. g # 0 => g \in 1..(m + 1) + 1 /\ f[g - 1] \in Places(u)
  BY <1>7, <1>9
<1>16. Chain(u, f, g)'
  BY <1>3, <1>5, <1>12, <1>14, <1>15 DEF Chain
<1>17. UNCHANGED assemblers /\ lost' = lost
  BY DEF SendsChunk
<1>18. /\ lost' = 0 => g = 0
       /\ Harmless(u, f[0])' /\ (lost' = 0 \/ g # 0 => InStep(u, f[0])')
       /\ Picked(u, f[0].pdu)'
  <2>1. PICK z : z = f[0]
    OBVIOUS
  <2>2. PICK n : n = z.pdu
    OBVIOUS
  <2>3. Harmless(u, z) /\ (lost = 0 \/ g # 0 => InStep(u, z)) /\ Picked(u, n) /\ (lost = 0 => g = 0)
    BY <1>1, <1>8, <2>1, <2>2
  <2>4. Harmless(u, z)' /\ (lost = 0 \/ g # 0 => InStep(u, z)') /\ Picked(u, n)'
    BY <1>17, <2>3, AssemblerFrame
  <2>5. QED
    BY <1>17, <2>1, <2>2, <2>3, <2>4
<1>19. QED
  BY <1>7, <1>16, <1>18 DEF ConnInv

\* The rest: the types, and what no task sends on.
LEMMA SendKeepsTypes ==
  ASSUME Types, Unused, NEW t \in Tasks, NEW x \in Places(t), NEW pkt \in Packet, SendsChunk(t, x, pkt)
  PROVE  Types' /\ Unused'
<1>1. /\ UNCHANGED assemblers /\ UNCHANGED lost
      /\ pdu' \in [Tasks -> Nat \ {0}] /\ sent' \in [Tasks -> Nat] /\ queue' \in Seq(Packet)
  BY DEF SendsChunk
<1>2. ASSUME NEW u \in Tasks, pdu'[u] <= Len(Pdus[u]) PROVE Here(u)' \in Places(u)
  <2>1. CASE u = t
    <3>1. PICK y : y = After(t, x) /\ y = Here(u)'
      BY <2>1 DEF SendsChunk
    <3>2. y = [pdu |-> pdu'[u], sent |-> sent'[u]]
      BY <3>1 DEF Here
    <3>3. PICK p : p = Pdus[t][x.pdu]
      OBVIOUS
    <3>4. CASE y \in Places(t)
      BY <2>1, <3>1, <3>4
    <3>5. CASE y \notin Places(t)
      <4>1. y.pdu = x.pdu + 1 /\ y.sent = 0
        BY <3>1, <3>3, <3>5, PlaceFacts
      <4>2. pdu'[u] \in 1..Len(Pdus[u]) /\ sent'[u] = 0
        <5>1. Len(Pdus[u]) \in Nat
          BY PdusAssumption, LenProperties
        <5>2. pdu'[u] \in Nat \ {0}
          BY <1>1
        <5>3. QED
          BY <1>2, <3>2, <4>1, <5>1, <5>2
      <4>3. PICK n \in 1..Len(Pdus[u]) : n = pdu'[u]
        BY <4>2
      <4>4. Pdus[u][n] \in AllPdus
        BY PdusAssumption, ElementOfSeq
      <4>5. 0 < Size[Pdus[u][n]]
        BY <4>4, PdusAssumption
      <4>6. y \in Places(u)
        BY <3>2, <4>2, <4>3, <4>5 DEF Places
      <4>7. QED
        BY <3>1, <4>6
    <3>6. QED
      BY <3>4, <3>5
  <2>2. CASE u # t
    <3>1. Here(u)' = Here(u) /\ pdu'[u] = pdu[u]
      BY <2>2 DEF SendsChunk, Here
    <3>2. QED
      BY <1>2, <3>1 DEF Types
  <2>3. QED
    BY <2>1, <2>2
<1>3. Types'
  BY <1>1, <1>2 DEF Types, assemblers
<1>4. Unused'
  BY <1>1 DEF Unused, Senders, assemblers
<1>5. QED
  BY <1>3, <1>4

-----------------------------------------------------------------------------
(* The first packet of the queue comes in. *)
Receives(t, x, pkt) ==
  /\ pkt = Chunk(t, x) /\ pkt = queue[1] /\ pkt.handle = HandleOf[t]
  /\ queue' \in Seq(Packet) /\ Len(queue) \in Nat \ {0} /\ Len(queue') = Len(queue) - 1
  /\ \A i \in 1..Len(queue') : queue'[i] = queue[i + 1]
  /\ IF pkt.first \/ inProgress[HandleOf[t]] THEN Push(HandleOf[t], pkt) ELSE UNCHANGED assemblers
  /\ UNCHANGED <<sender, lost>>

LEMMA Receiving ==
  ASSUME Types, PushPacket
  PROVE  \E t \in Tasks : \E x \in Places(t) : \E pkt \in Packet : Receives(t, x, pkt)
<1>1. queue \in Seq(Packet) /\ queue # <<>> /\ queue' = Tail(queue) /\ UNCHANGED <<sender, lost>>
  BY DEF Types, PushPacket
<1>2. PICK pkt : pkt = Head(queue)
  OBVIOUS
<1>3. /\ pkt \in Packet /\ pkt = queue[1]
      /\ queue' \in Seq(Packet) /\ Len(queue) \in Nat \ {0} /\ Len(queue') = Len(queue) - 1
      /\ \A i \in 1..Len(queue') : queue'[i] = queue[i + 1]
  <2>1. PICK s \in Seq(Packet) : s = queue
    BY <1>1
  <2>2. s # <<>> /\ Len(s) \in Nat
    BY <1>1, <2>1, LenProperties
  <2>3. /\ Head(s) \in Packet /\ Head(s) = s[1] /\ Tail(s) \in Seq(Packet) /\ Len(Tail(s)) = Len(s) - 1
        /\ \A i \in 1..Len(Tail(s)) : Tail(s)[i] = s[i + 1]
    BY <2>2, HeadTailProperties
  <2>4. Len(s) # 0
    BY <2>2, EmptySeq
  <2>5. QED
    BY <1>1, <1>2, <2>1, <2>2, <2>3, <2>4
<1>4. PICK t \in Tasks : \E x \in Places(t) : pkt = Chunk(t, x)
  BY <1>3 DEF Packet
<1>5. PICK x \in Places(t) : pkt = Chunk(t, x)
  BY <1>4
<1>6. pkt.handle = HandleOf[t]
  BY <1>5, ChunkFacts
<1>7. IF pkt.first \/ inProgress[pkt.handle] THEN Push(pkt.handle, pkt) ELSE UNCHANGED assemblers
  BY <1>2 DEF PushPacket
<1>8. Receives(t, x, pkt)
  BY <1>1, <1>3, <1>5, <1>6, <1>7 DEF Receives
<1>9. QED
  BY <1>3, <1>8

LEMMA ReceiveKeepsTypes ==
  ASSUME Types, Unused, NEW t \in Tasks, NEW x \in Places(t), NEW pkt \in Packet, Receives(t, x, pkt)
  PROVE  /\ Types' /\ Unused'
         /\ \A o \in Handles : o # HandleOf[t] =>
              /\ pduBuffer'[o] = pduBuffer[o] /\ pduLength'[o] = pduLength[o]
              /\ inProgress'[o] = inProgress[o] /\ assembled'[o] = assembled[o]
<1>1. PICK h \in Handles : h = HandleOf[t]
  BY HandlesAssumption
<1>2. UNCHANGED <<pdu, sent>> /\ lost' = lost /\ queue' \in Seq(Packet)
  BY DEF Receives, sender
<1>3. /\ pduBuffer' \in [Handles -> Seq(Unit)] /\ pduLength' \in [Handles -> Nat]
      /\ inProgress' \in [Handles -> BOOLEAN] /\ assembled' \in [Handles -> Seq(Seq(Unit))]
      /\ interrupted' \subseteq Handles
      /\ \A o \in Handles : o # h =>
              /\ pduBuffer'[o] = pduBuffer[o] /\ pduLength'[o] = pduLength[o]
              /\ inProgress'[o] = inProgress[o] /\ assembled'[o] = assembled[o]
  <2>1. CASE Push(h, pkt)
    <3>1. PICK units : units = Buffered(h, pkt)
      OBVIOUS
    <3>2. PICK len : len = IF pkt.first THEN Size[pkt.data[1][1]] ELSE pduLength[h]
      OBVIOUS
    <3>3. QED
      BY <2>1, <3>1, <3>2, Pushing
  <2>2. CASE UNCHANGED assemblers
    BY <2>2 DEF Types, assemblers
  <2>3. QED
    BY <1>1, <2>1, <2>2 DEF Receives
<1>4. Types'
  <2>1. \A u \in Tasks : Here(u)' = Here(u)
    BY <1>2 DEF Here
  <2>2. QED
    BY <1>2, <1>3, <2>1 DEF Types
<1>5. Unused'
  <2>1. ASSUME NEW o \in Handles, Senders(o) = {} PROVE assembled'[o] = <<>>
    <3>1. o # h
      BY <1>1, <2>1 DEF Senders
    <3>2. QED
      BY <1>3, <2>1, <3>1 DEF Unused
  <2>2. QED
    BY <2>1 DEF Unused, Senders
<1>6. QED
  BY <1>1, <1>3, <1>4, <1>5

\* The chain of the packet's task, without its head.
LEMMA OwnHead ==
  ASSUME Types, NEW t \in Tasks, NEW y \in Places(t), NEW pkt \in Packet, Receives(t, y, pkt),
         NEW e \in [Nat -> Position], NEW g \in Nat, Chain(t, e, g),
         NEW f, f = [i \in Nat |-> e[i + 1]], NEW k, k = IF g >= 2 THEN g - 1 ELSE 0
  PROVE  /\ Chain(t, f, k)' /\ f \in [Nat -> Position] /\ k \in Nat
         /\ Before(t, e, g, 1) \in Places(t) /\ pkt = Chunk(t, Before(t, e, g, 1))
         /\ f[0] = After(t, Before(t, e, g, 1))
<1>1. /\ Len(queue) \in Nat \ {0} /\ Len(queue') = Len(queue) - 1
      /\ \A i \in 1..Len(queue') : queue'[i] = queue[i + 1]
      /\ queue[1] = pkt /\ pkt.handle = HandleOf[t] /\ UNCHANGED sender
  BY DEF Receives
<1>2. PICK n \in Nat : n = Len(queue')
  BY <1>1
<1>3. Len(queue) = n + 1
  BY <1>1, <1>2
<1>4. /\ \A i \in 1..n + 1 :
           /\ queue[i].handle = HandleOf[t] =>
                /\ Before(t, e, g, i) \in Places(t) /\ queue[i] = Chunk(t, Before(t, e, g, i))
                /\ e[i] = After(t, Before(t, e, g, i))
           /\ queue[i].handle # HandleOf[t] => e[i] = Before(t, e, g, i)
      /\ Before(t, e, g, (n + 1) + 1) = Here(t)
      /\ g # 0 => g \in 1..(n + 1) + 1 /\ e[g - 1] \in Places(t)
  BY <1>3 DEF Chain
<1>5. \A i \in Nat : f[i] = e[i + 1]
  OBVIOUS
<1>6. f \in [Nat -> Position] /\ k \in Nat
  OBVIOUS
<1>7. ASSUME NEW i \in Nat \ {0} PROVE Before(t, f, k, i) = Before(t, e, g, i + 1)
  <2>1. f[i - 1] = e[i] /\ (i + 1) - 1 = i
    BY <1>5
  <2>2. k = i <=> g = i + 1
    OBVIOUS
  <2>3. QED
    BY <2>1, <2>2 DEF Before
<1>8. ASSUME NEW i \in 1..n
      PROVE  /\ queue'[i].handle = HandleOf[t] =>
                /\ Before(t, f, k, i) \in Places(t) /\ queue'[i] = Chunk(t, Before(t, f, k, i))
                /\ f[i] = After(t, Before(t, f, k, i))
             /\ queue'[i].handle # HandleOf[t] => f[i] = Before(t, f, k, i)
  <2>1. PICK j \in 1..n + 1 : j = i + 1
    OBVIOUS
  <2>2. queue'[i] = queue[j] /\ f[i] = e[j]
    <3>1. i \in 1..Len(queue') /\ i \in Nat /\ i # 0
      BY <1>2
    <3>2. queue'[i] = queue[i + 1]
      BY <1>1, <3>1
    <3>3. f[i] = e[i + 1]
      BY <1>5, <3>1
    <3>4. QED
      BY <2>1, <3>2, <3>3
  <2>3. Before(t, f, k, i) = Before(t, e, g, j)
    BY <1>7, <2>1
  <2>4. /\ queue[j].handle = HandleOf[t] =>
             /\ Before(t, e, g, j) \in Places(t) /\ queue[j] = Chunk(t, Before(t, e, g, j))
             /\ e[j] = After(t, Before(t, e, g, j))
        /\ queue[j].handle # HandleOf[t] => e[j] = Before(t, e, g, j)
    BY <1>4
  <2>5. QED
    BY <2>2, <2>3, <2>4
<1>9. Before(t, f, k, n + 1) = Here(t)'
  <2>1. Here(t)' = Here(t)
    BY <1>1 DEF Here, sender
  <2>2. QED
    BY <1>4, <1>7, <2>1
<1>10. k # 0 => k \in 1..n + 1 /\ f[k - 1] \in Places(t)
  BY <1>4, <1>5
<1>11. Chain(t, f, k)'
  BY <1>2, <1>8, <1>9, <1>10 DEF Chain
<1>12. 1 \in 1..n + 1
  OBVIOUS
<1>13. /\ Before(t, e, g, 1) \in Places(t) /\ pkt = Chunk(t, Before(t, e, g, 1))
       /\ e[1] = After(t, Before(t, e, g, 1))
  BY <1>1, <1>4, <1>12
<1>14. f[0] = e[1]
  BY <1>5
<1>15. QED
  BY <1>6, <1>11, <1>13, <1>14

\* That of another task, which the packet is not part of.
LEMMA OthersHead ==
  ASSUME Types, OwnConnections, NEW t \in Tasks, NEW y \in Places(t), NEW pkt \in Packet, Receives(t, y, pkt),
         NEW u \in Tasks, u # t, NEW e \in [Nat -> Position], NEW g \in Nat, Chain(u, e, g),
         NEW f, f = [i \in Nat |-> IF i = 0 THEN e[0] ELSE e[i + 1]], NEW k, k = IF g >= 2 THEN g - 1 ELSE g
  PROVE  Chain(u, f, k)' /\ f \in [Nat -> Position] /\ k \in Nat /\ f[0] = e[0] /\ (k = 0 <=> g = 0)
<1>1. /\ Len(queue) \in Nat \ {0} /\ Len(queue') = Len(queue) - 1
      /\ \A i \in 1..Len(queue') : queue'[i] = queue[i + 1]
      /\ queue[1] = pkt /\ pkt.handle = HandleOf[t] /\ UNCHANGED sender
  BY DEF Receives
<1>2. PICK n \in Nat : n = Len(queue')
  BY <1>1
<1>3. Len(queue) = n + 1
  BY <1>1, <1>2
<1>4. /\ \A i \in 1..n + 1 :
           /\ queue[i].handle = HandleOf[u] =>
                /\ Before(u, e, g, i) \in Places(u) /\ queue[i] = Chunk(u, Before(u, e, g, i))
                /\ e[i] = After(u, Before(u, e, g, i))
           /\ queue[i].handle # HandleOf[u] => e[i] = Before(u, e, g, i)
      /\ Before(u, e, g, (n + 1) + 1) = Here(u)
      /\ g # 0 => g \in 1..(n + 1) + 1 /\ e[g - 1] \in Places(u)
  BY <1>3 DEF Chain
<1>5. f[0] = e[0] /\ \A i \in Nat : i # 0 => f[i] = e[i + 1]
  OBVIOUS
<1>6. f \in [Nat -> Position] /\ k \in Nat /\ (k = 0 <=> g = 0)
  OBVIOUS
<1>7. e[1] = Before(u, e, g, 1)
  <2>1. queue[1].handle # HandleOf[u]
    BY <1>1 DEF OwnConnections
  <2>2. 1 \in 1..n + 1
    OBVIOUS
  <2>3. QED
    BY <1>4, <2>1, <2>2
<1>8. g # 1 => e[1] = e[0]
  BY <1>7 DEF Before
<1>9. g = 1 => e[1] = After(u, e[0])
  BY <1>7 DEF Before
<1>10. ASSUME NEW i \in Nat \ {0} PROVE Before(u, f, k, i) = Before(u, e, g, i + 1)
  <2>1. CASE i = 1
    <3>1. Before(u, f, k, i) = IF k = 1 THEN After(u, e[0]) ELSE e[0]
      BY <1>5, <2>1 DEF Before
    <3>2. Before(u, e, g, i + 1) = IF g = 2 THEN After(u, e[1]) ELSE e[1]
      BY <2>1 DEF Before
    <3>3. CASE g = 1
      BY <1>9, <3>1, <3>2, <3>3
    <3>4. CASE g = 2
      BY <1>8, <3>1, <3>2, <3>4
    <3>5. CASE g # 1 /\ g # 2
      <4>1. k # 1
        BY <3>5
      <4>2. QED
        BY <1>8, <3>1, <3>2, <3>5, <4>1
    <3>6. QED
      BY <3>3, <3>4, <3>5
  <2>2. CASE i # 1
    <3>1. f[i - 1] = e[i] /\ (i + 1) - 1 = i
      BY <1>5, <2>2
    <3>2. k = i <=> g = i + 1
      BY <2>2
    <3>3. QED
      BY <3>1, <3>2 DEF Before
  <2>3. QED
    BY <2>1, <2>2
<1>11. ASSUME NEW i \in 1..n
      PROVE  /\ queue'[i].handle = HandleOf[u] =>
                /\ Before(u, f, k, i) \in Places(u) /\ queue'[i] = Chunk(u, Before(u, f, k, i))
                /\ f[i] = After(u, Before(u, f, k, i))
             /\ queue'[i].handle # HandleOf[u] => f[i] = Before(u, f, k, i)
  <2>1. PICK j \in 1..n + 1 : j = i + 1
    OBVIOUS
  <2>2. queue'[i] = queue[j] /\ f[i] = e[j]
    <3>1. i \in 1..Len(queue') /\ i \in Nat /\ i # 0
      BY <1>2
    <3>2. queue'[i] = queue[i + 1]
      BY <1>1, <3>1
    <3>3. f[i] = e[i + 1]
      BY <1>5, <3>1
    <3>4. QED
      BY <2>1, <3>2, <3>3
  <2>3. Before(u, f, k, i) = Before(u, e, g, j)
    BY <1>10, <2>1
  <2>4. /\ queue[j].handle = HandleOf[u] =>
             /\ Before(u, e, g, j) \in Places(u) /\ queue[j] = Chunk(u, Before(u, e, g, j))
             /\ e[j] = After(u, Before(u, e, g, j))
        /\ queue[j].handle # HandleOf[u] => e[j] = Before(u, e, g, j)
    BY <1>4
  <2>5. QED
    BY <2>2, <2>3, <2>4
<1>12. Before(u, f, k, n + 1) = Here(u)'
  <2>1. Here(u)' = Here(u)
    BY <1>1 DEF Here, sender
  <2>2. QED
    BY <1>4, <1>10, <2>1
<1>13. k # 0 => k \in 1..n + 1 /\ f[k - 1] \in Places(u)
  <2>1. CASE g = 1
    BY <1>4, <1>5, <2>1
  <2>2. CASE g = 2
    BY <1>4, <1>5, <1>8, <2>2
  <2>3. CASE g > 2
    <3>1. k - 1 # 0 /\ k - 1 \in Nat /\ (k - 1) + 1 = g - 1
      BY <2>3
    <3>2. f[k - 1] = e[g - 1]
      BY <1>5, <3>1
    <3>3. QED
      BY <1>4, <2>3, <3>2
  <2>4. QED
    BY <1>6, <2>1, <2>2, <2>3
<1>14. Chain(u, f, k)'
  BY <1>2, <1>11, <1>12, <1>13 DEF Chain
<1>15. QED
  BY <1>5, <1>6, <1>14

LEMMA ReceiveKeepsOwn ==
  ASSUME Types, NEW t \in Tasks, NEW y \in Places(t), NEW pkt \in Packet, Receives(t, y, pkt), ConnInv(t)
  PROVE  ConnInv(t)' /\ (lost = 0 /\ pkt.first => ~inProgress[HandleOf[t]])
<1>1. PICK e \in [Nat -> Position], g \in Nat :
        /\ Chain(t, e, g)
        /\ lost = 0 => g = 0
        /\ Harmless(t, e[0]) /\ (lost = 0 \/ g # 0 => InStep(t, e[0]))
        /\ Picked(t, e[0].pdu)
  BY DEF ConnInv
<1>2. PICK f : f = [i \in Nat |-> e[i + 1]]
  OBVIOUS
<1>3. PICK k : k = IF g >= 2 THEN g - 1 ELSE 0
  OBVIOUS
<1>4. PICK x : x = Before(t, e, g, 1)
  OBVIOUS
<1>5. /\ Chain(t, f, k)' /\ f \in [Nat -> Position] /\ k \in Nat
      /\ x \in Places(t) /\ pkt = Chunk(t, x) /\ f[0] = After(t, x)
  BY <1>1, <1>2, <1>3, <1>4, OwnHead
<1>6. Harmless(t, x) /\ Picked(t, x.pdu) /\ (lost = 0 \/ k # 0 => InStep(t, x))
  <2>1. CASE g = 1
    <3>1. PICK b \in Places(t) : b = e[0]
      <4>1. e[g - 1] \in Places(t)
        BY <1>1, <2>1 DEF Chain
      <4>2. QED
        BY <2>1, <4>1
    <3>2. InStep(t, b) /\ lost # 0 /\ k = 0 /\ Picked(t, b.pdu)
      BY <1>1, <1>3, <2>1, <3>1
    <3>3. x = After(t, b)
      BY <1>4, <2>1, <3>1 DEF Before
    <3>4. Harmless(t, x)
      BY <3>2, <3>3, Skipped
    <3>5. Picked(t, x.pdu)
      <4>1. PICK p : p = Pdus[t][b.pdu]
        OBVIOUS
      <4>2. b \in Position /\ x \in Position /\ (x.pdu = b.pdu + 1 \/ x.pdu = b.pdu)
        BY <3>3, <4>1, PlaceFacts
      <4>3. PICK n \in Nat, m \in Nat : n = b.pdu /\ m = x.pdu /\ n <= m
        BY <4>2 DEF Position
      <4>4. QED
        BY <3>2, <4>3, PickedMono
    <3>6. QED
      BY <3>2, <3>4, <3>5
  <2>2. CASE g # 1
    <3>1. x = e[0]
      BY <1>4, <2>2 DEF Before
    <3>2. k # 0 => g # 0
      BY <1>3
    <3>3. QED
      BY <1>1, <3>1, <3>2
  <2>3. QED
    BY <2>1, <2>2
<1>7. PICK h : h = HandleOf[t]
  OBVIOUS
<1>8. PICK z : z = After(t, x)
  OBVIOUS
<1>9. IF pkt.first \/ inProgress[h] THEN Push(h, pkt) ELSE UNCHANGED assemblers
  BY <1>7 DEF Receives
<1>10. Harmless(t, z)' /\ Picked(t, z.pdu)' /\ (InStep(t, x) => InStep(t, z)')
  BY <1>5, <1>6, <1>7, <1>8, <1>9, Received
<1>11. lost' = lost
  BY DEF Receives
<1>12. lost = 0 => k = 0
  BY <1>1, <1>3
<1>13. ConnInv(t)'
  <2>1. f[0] = z
    BY <1>5, <1>8
  <2>2. PICK n : n = z.pdu
    OBVIOUS
  <2>3. Picked(t, n)'
    BY <1>10, <2>2
  <2>4. /\ lost' = 0 => k = 0
        /\ Harmless(t, f[0])' /\ (lost' = 0 \/ k # 0 => InStep(t, f[0])')
        /\ Picked(t, f[0].pdu)'
    BY <1>6, <1>10, <1>11, <1>12, <2>1, <2>2, <2>3
  <2>5. QED
    BY <1>5, <2>4 DEF ConnInv
<1>14. lost = 0 /\ pkt.first => ~inProgress[HandleOf[t]]
  <2>1. pkt.first => x.sent = 0
    <3>1. PICK p : p = Pdus[t][x.pdu]
      OBVIOUS
    <3>2. QED
      BY <1>5, <3>1, ChunkFacts
  <2>2. lost = 0 => InStep(t, x)
    BY <1>6
  <2>3. QED
    BY <2>1, <2>2 DEF InStep
<1>15. QED
  BY <1>13, <1>14

LEMMA ReceiveKeepsOthers ==
  ASSUME Types, Unused, OwnConnections, NEW t \in Tasks, NEW y \in Places(t), NEW pkt \in Packet,
         Receives(t, y, pkt), NEW u \in Tasks, u # t, ConnInv(u)
  PROVE  ConnInv(u)'
<1>1. PICK e \in [Nat -> Position], g \in Nat :
        /\ Chain(u, e, g)
        /\ lost = 0 => g = 0
        /\ Harmless(u, e[0]) /\ (lost = 0 \/ g # 0 => InStep(u, e[0]))
        /\ Picked(u, e[0].pdu)
  BY DEF ConnInv
<1>2. PICK f : f = [i \in Nat |-> IF i = 0 THEN e[0] ELSE e[i + 1]]
  OBVIOUS
<1>3. PICK k : k = IF g >= 2 THEN g - 1 ELSE g
  OBVIOUS
<1>4. Chain(u, f, k)' /\ f \in [Nat -> Position] /\ k \in Nat /\ f[0] = e[0] /\ (k = 0 <=> g = 0)
  BY <1>1, <1>2, <1>3, OthersHead
<1>5. PICK o \in Handles : o = HandleOf[u]
  BY HandlesAssumption
<1>6. /\ pduBuffer'[o] = pduBuffer[o] /\ pduLength'[o] = pduLength[o]
      /\ inProgress'[o] = inProgress[o] /\ assembled'[o] = assembled[o]
  <2>1. o # HandleOf[t]
    BY <1>5 DEF OwnConnections
  <2>2. QED
    BY <2>1, ReceiveKeepsTypes
<1>7. PICK z : z = e[0]
  OBVIOUS
<1>8. PICK n : n = z.pdu
  OBVIOUS
<1>9. /\ lost = 0 => g = 0
      /\ Harmless(u, z) /\ (lost = 0 \/ g # 0 => InStep(u, z)) /\ Picked(u, n)
  BY <1>1, <1>7, <1>8
<1>10. Harmless(u, z)'
  BY <1>5, <1>6, <1>9 DEF Harmless
<1>11. InStep(u, z) => InStep(u, z)'
  BY <1>5, <1>6 DEF InStep
<1>12. Picked(u, n)'
  BY <1>5, <1>6, <1>9 DEF Picked
<1>13. lost' = lost
  BY DEF Receives
<1>14. /\ lost' = 0 => k = 0
       /\ Harmless(u, f[0])' /\ (lost' = 0 \/ k # 0 => InStep(u, f[0])')
       /\ Picked(u, f[0].pdu)'
  BY <1>4, <1>7, <1>8, <1>9, <1>10, <1>11, <1>12, <1>13
<1>15. QED
  BY <1>4, <1>14 DEF ConnInv

-----------------------------------------------------------------------------
(* The first packet that is lost leaves a gap in the chain of its task. *)
LEMMA LoseKeepsConn ==
  ASSUME Types, LosePacket, lost = 0, NEW u \in Tasks, ConnInv(u)
  PROVE  ConnInv(u)'
<1>1. PICK e \in [Nat -> Position], g \in Nat :
        /\ Chain(u, e, g)
        /\ lost = 0 => g = 0
        /\ Harmless(u, e[0]) /\ (lost = 0 \/ g # 0 => InStep(u, e[0]))
        /\ Picked(u, e[0].pdu)
  BY DEF ConnInv
<1>2. PICK i \in 1..Len(queue) : queue' = RemoveAt(queue, i)
  BY DEF LosePacket
<1>3. PICK n \in Nat : Len(queue') = n /\ Len(queue) = n + 1
  <2>1. PICK q \in Seq(Packet) : q = queue
    BY DEF Types
  <2>2. Len(q) \in Nat /\ Len(queue') = Len(q) - 1
    BY <1>2, <2>1, Removed
  <2>3. QED
    BY <1>2, <2>1, <2>2
<1>4. /\ i \in 1..n + 1
      /\ \A j \in 1..n : queue'[j] = IF j < i THEN queue[j] ELSE queue[j + 1]
  <2>1. PICK q \in Seq(Packet) : q = queue
    BY DEF Types
  <2>2. \A j \in 1..Len(queue') : (j < i => queue'[j] = q[j]) /\ (~(j < i) => queue'[j] = q[j + 1])
    BY <1>2, <2>1, Removed
  <2>3. QED
    BY <1>2, <1>3, <2>1, <2>2
<1>5. \A j \in Nat \ {0} : Before(u, e, g, j) = e[j - 1]
  BY <1>1 DEF Before
<1>6. /\ \A j \in 1..n + 1 :
           /\ queue[j].handle = HandleOf[u] =>
                /\ e[j - 1] \in Places(u) /\ queue[j] = Chunk(u, e[j - 1]) /\ e[j] = After(u, e[j - 1])
           /\ queue[j].handle # HandleOf[u] => e[j] = e[j - 1]
      /\ e[n + 1] = Here(u)
  <2>1. /\ \A j \in 1..n + 1 :
           /\ queue[j].handle = HandleOf[u] =>
                /\ Before(u, e, g, j) \in Places(u) /\ queue[j] = Chunk(u, Before(u, e, g, j))
                /\ e[j] = After(u, Before(u, e, g, j))
           /\ queue[j].handle # HandleOf[u] => e[j] = Before(u, e, g, j)
        /\ Before(u, e, g, (n + 1) + 1) = Here(u)
    BY <1>1, <1>3 DEF Chain
  <2>2. \A j \in 1..n + 1 : Before(u, e, g, j) = e[j - 1]
    BY <1>5
  <2>3. Before(u, e, g, (n + 1) + 1) = e[n + 1]
    BY <1>5
  <2>4. QED
    BY <2>1, <2>2, <2>3
<1>7. PICK f : f = [j \in Nat |-> IF j < i THEN e[j] ELSE e[j + 1]]
  OBVIOUS
<1>8. PICK k : k = IF queue[i].handle = HandleOf[u] THEN i ELSE 0
  OBVIOUS
<1>9. /\ f \in [Nat -> Position] /\ k \in Nat /\ f[0] = e[0]
      /\ \A j \in Nat : f[j] = IF j < i THEN e[j] ELSE e[j + 1]
  BY <1>7, <1>8
<1>10. ASSUME NEW j \in Nat \ {0} PROVE Before(u, f, k, j) = IF j < i THEN e[j - 1] ELSE e[j]
  <2>1. CASE j < i
    <3>1. j # k
      BY <1>4, <1>8, <2>1
    <3>2. j - 1 \in Nat /\ j - 1 < i
      BY <1>4, <2>1
    <3>3. f[j - 1] = e[j - 1]
      BY <1>9, <3>2
    <3>4. QED
      BY <2>1, <3>1, <3>3 DEF Before
  <2>2. CASE j = i
    <3>1. f[j - 1] = e[j - 1]
      BY <1>9, <2>2
    <3>2. CASE queue[i].handle = HandleOf[u]
      <4>1. k = j /\ After(u, e[j - 1]) = e[j]
        BY <1>4, <1>6, <1>8, <2>2, <3>2
      <4>2. QED
        BY <2>2, <3>1, <4>1 DEF Before
    <3>3. CASE queue[i].handle # HandleOf[u]
      <4>1. k # j /\ e[j] = e[j - 1]
        BY <1>4, <1>6, <1>8, <2>2, <3>3
      <4>2. QED
        BY <2>2, <3>1, <4>1 DEF Before
    <3>4. QED
      BY <3>2, <3>3
  <2>3. CASE i < j
    <3>1. j # k /\ f[j - 1] = e[j]
      <4>1. j # k
        BY <1>4, <1>8, <2>3
      <4>2. j - 1 \in Nat /\ ~(j - 1 < i) /\ (j - 1) + 1 = j
        BY <1>4, <2>3
      <4>3. f[j - 1] = IF j - 1 < i THEN e[j - 1] ELSE e[(j - 1) + 1]
        BY <1>9, <4>2
      <4>4. QED
        BY <4>1, <4>2, <4>3
    <3>2. ~(j < i)
      BY <2>3
    <3>3. QED
      BY <3>1, <3>2 DEF Before
  <2>4. QED
    BY <2>1, <2>2, <2>3
<1>11. ASSUME NEW j \in 1..n
       PROVE  /\ queue'[j].handle = HandleOf[u] =>
                 /\ Before(u, f, k, j) \in Places(u) /\ queue'[j] = Chunk(u, Before(u, f, k, j))
                 /\ f[j] = After(u, Before(u, f, k, j))
              /\ queue'[j].handle # HandleOf[u] => f[j] = Before(u, f, k, j)
  <2>1. PICK m \in 1..n + 1 : m = IF j < i THEN j ELSE j + 1
    OBVIOUS
  <2>2. Before(u, f, k, j) = e[m - 1]
    <3>1. Before(u, f, k, j) = IF j < i THEN e[j - 1] ELSE e[j]
      BY <1>10
    <3>2. QED
      BY <2>1, <3>1
  <2>3. f[j] = e[m]
    <3>1. f[j] = IF j < i THEN e[j] ELSE e[j + 1]
      BY <1>9
    <3>2. QED
      BY <2>1, <3>1
  <2>4. queue'[j] = queue[m]
    <3>1. queue'[j] = IF j < i THEN queue[j] ELSE queue[j + 1]
      BY <1>4
    <3>2. QED
      BY <2>1, <3>1
  <2>5. /\ queue[m].handle = HandleOf[u] =>
             /\ e[m - 1] \in Places(u) /\ queue[m] = Chunk(u, e[m - 1]) /\ e[m] = After(u, e[m - 1])
        /\ queue[m].handle # HandleOf[u] => e[m] = e[m - 1]
    BY <1>6
  <2>6. QED
    BY <2>2, <2>3, <2>4, <2>5
<1>12. UNCHANGED assemblers /\ UNCHANGED sender /\ lost' = 1
  BY DEF LosePacket
<1>13. Before(u, f, k, n + 1) = Here(u)'
  <2>1. Before(u, f, k, n + 1) = e[n + 1]
    <3>1. Before(u, f, k, n + 1) = IF n + 1 < i THEN e[(n + 1) - 1] ELSE e[n + 1]
      BY <1>10
    <3>2. QED
      BY <1>4, <3>1
  <2>2. Here(u)' = Here(u)
    BY <1>12 DEF Here, sender
  <2>3. QED
    BY <1>6, <2>1, <2>2
<1>14. k # 0 => k \in 1..n + 1 /\ f[k - 1] \in Places(u)
  <2>1. CASE queue[i].handle = HandleOf[u]
    <3>1. k = i /\ e[i - 1] \in Places(u)
      BY <1>4, <1>6, <1>8, <2>1
    <3>2. f[k - 1] = e[i - 1]
      BY <1>4, <1>9, <3>1
    <3>3. QED
      BY <1>4, <3>1, <3>2
  <2>2. QED
    BY <1>8, <2>1
<1>15. Chain(u, f, k)'
  BY <1>3, <1>11, <1>13, <1>14 DEF Chain
<1>16. /\ lost' = 0 => k = 0
       /\ Harmless(u, f[0])' /\ (lost' = 0 \/ k # 0 => InStep(u, f[0])')
       /\ Picked(u, f[0].pdu)'
  <2>1. PICK z : z = f[0]
    OBVIOUS
  <2>2. PICK m : m = z.pdu
    OBVIOUS
  <2>3. Harmless(u, z) /\ InStep(u, z) /\ Picked(u, m)
    BY <1>1, <1>9, <2>1, <2>2
  <2>4. Harmless(u, z)' /\ InStep(u, z)' /\ Picked(u, m)'
    BY <1>12, <2>3, AssemblerFrame
  <2>5. QED
    BY <1>12, <2>1, <2>2, <2>4
<1>17. QED
  BY <1>9, <1>15, <1>16 DEF ConnInv

-----------------------------------------------------------------------------
LEMMA InitTypes == TransferInit => Types /\ Unused
<1> SUFFICES ASSUME TransferInit PROVE Types /\ Unused
  OBVIOUS
<1>1. ASSUME NEW t \in Tasks, pdu[t] <= Len(Pdus[t]) PROVE Here(t) \in Places(t)
  <2>1. Here(t) = [pdu |-> 1, sent |-> 0] /\ pdu[t] = 1
    BY DEF TransferInit, Here
  <2>2. Len(Pdus[t]) \in Nat
    BY PdusAssumption, LenProperties
  <2>3. 1 \in 1..Len(Pdus[t])
    BY <1>1, <2>1, <2>2
  <2>4. Pdus[t][1] \in AllPdus
    BY <2>3, PdusAssumption, ElementOfSeq
  <2>5. 0 < Size[Pdus[t][1]]
    BY <2>4, PdusAssumption
  <2>6. QED
    BY <2>1, <2>3, <2>5 DEF Places
<1>2. queue \in Seq(Packet) /\ pduBuffer \in [Handles -> Seq(Unit)] /\ assembled \in [Handles -> Seq(Seq(Unit))]
  BY EmptySeq DEF TransferInit
<1>3. lost \in 0..MaxLost
  BY HandlesAssumption DEF TransferInit
<1>4. /\ pdu \in [Tasks -> Nat \ {0}] /\ sent \in [Tasks -> Nat]
      /\ pduLength \in [Handles -> Nat] /\ inProgress \in [Handles -> BOOLEAN] /\ interrupted \subseteq Handles
  BY DEF TransferInit
<1>5. Unused
  BY DEF TransferInit, Unused
<1>6. QED
  BY <1>1, <1>2, <1>3, <1>4, <1>5 DEF Types

LEMMA InitConn ==
  ASSUME TransferInit, NEW t \in Tasks
  PROVE  ConnInv(t)
<1>1. PICK z : z = [pdu |-> 1, sent |-> 0]
  OBVIOUS
<1>2. z \in Position /\ z.sent = 0 /\ z.pdu = 1
  BY <1>1 DEF Position
<1>3. PICK e : e = [i \in Nat |-> z]
  OBVIOUS
<1>4. e \in [Nat -> Position] /\ e[0] = z
  BY <1>2, <1>3
<1>5. queue = <<>> /\ Len(queue) = 0 /\ Here(t) = z
  <2>1. queue = <<>>
    BY DEF TransferInit
  <2>2. Len(queue) = 0
    BY <2>1, EmptySeq
  <2>3. Here(t) = z
    BY <1>1 DEF TransferInit, Here
  <2>4. QED
    BY <2>1, <2>2, <2>3
<1>6. PICK g \in Nat : g = 0
  OBVIOUS
<1>7. Chain(t, e, g)
  <2>1. Before(t, e, g, Len(queue) + 1) = Here(t)
    BY <1>4, <1>5, <1>6 DEF Before
  <2>2. 1..Len(queue) = {}
    BY <1>5
  <2>3. QED
    BY <1>6, <2>1, <2>2 DEF Chain
<1>8. PICK h \in Handles : h = HandleOf[t]
  BY HandlesAssumption
<1>9. ~inProgress[h] /\ assembled[h] = <<>>
  BY DEF TransferInit
<1>10. Harmless(t, z) /\ InStep(t, z)
  BY <1>2, <1>8, <1>9 DEF Harmless, InStep
<1>11. Picked(t, z.pdu)
  <2>1. Len(assembled[h]) = 0
    BY <1>9, EmptySeq
  <2>2. 1..Len(assembled[h]) = {}
    BY <2>1
  <2>3. PICK none : none = [i \in {} |-> 1]
    OBVIOUS
  <2>4. none \in [{} -> 1..Len(Pdus[t])]
    BY <2>3
  <2>5. QED
    BY <1>8, <2>2, <2>4 DEF Picked
<1>12. QED
  BY <1>4, <1>6, <1>7, <1>10, <1>11 DEF ConnInv

LEMMA LoseKeepsTypes ==
  ASSUME Types, Unused, LosePacket
  PROVE  Types' /\ Unused'
<1>1. /\ UNCHANGED sender /\ UNCHANGED assemblers /\ lost' = lost + 1 /\ lost < MaxLost
      /\ \E i \in 1..Len(queue) : queue' = RemoveAt(queue, i)
  BY DEF LosePacket
<1>2. queue' \in Seq(Packet)
  <2>1. PICK q \in Seq(Packet) : q = queue
    BY DEF Types
  <2>2. QED
    BY <1>1, <2>1, Removed
<1>3. lost' \in 0..MaxLost
  BY <1>1, HandlesAssumption DEF Types
<1>4. \A t \in Tasks : Here(t)' = Here(t)
  BY <1>1 DEF Here, sender
<1>5. Types'
  BY <1>1, <1>2, <1>3, <1>4 DEF Types, sender, assemblers
<1>6. Unused'
  BY <1>1 DEF Unused, Senders, assemblers
<1>7. QED
  BY <1>5, <1>6

LEMMA StutterKeeps == ASSUME UNCHANGED transferVars PROVE (Types /\ Unused => Types' /\ Unused') /\ (Invs => Invs')
<1>1. UNCHANGED <<pdu, sent, queue, pduBuffer, pduLength, inProgress, assembled, interrupted, lost>>
  BY DEF transferVars, sender, assemblers
<1>2. \A t \in Tasks : Here(t)' = Here(t)
  BY <1>1 DEF Here
<1>3. Types /\ Unused => Types' /\ Unused'
  BY <1>1, <1>2 DEF Types, Unused, Senders
<1>4. ASSUME NEW t \in Tasks, ConnInv(t) PROVE ConnInv(t)'
  <2>1. PICK e \in [Nat -> Position], g \in Nat :
          /\ Chain(t, e, g)
          /\ lost = 0 => g = 0
          /\ Harmless(t, e[0]) /\ (lost = 0 \/ g # 0 => InStep(t, e[0]))
          /\ Picked(t, e[0].pdu)
    BY <1>4 DEF ConnInv
  <2>2. Chain(t, e, g)'
    BY <1>1, <1>2, <2>1 DEF Chain
  <2>3. PICK z : z = e[0]
    OBVIOUS
  <2>4. PICK m : m = z.pdu
    OBVIOUS
  <2>5. /\ (Harmless(t, z)' <=> Harmless(t, z)) /\ (InStep(t, z)' <=> InStep(t, z))
        /\ (Picked(t, m)' <=> Picked(t, m))
    BY <1>1, AssemblerFrame DEF assemblers
  <2>6. /\ lost' = 0 => g = 0
        /\ Harmless(t, e[0])' /\ (lost' = 0 \/ g # 0 => InStep(t, e[0])')
        /\ Picked(t, e[0].pdu)'
    BY <1>1, <2>1, <2>3, <2>4, <2>5
  <2>7. QED
    BY <2>2, <2>6 DEF ConnInv
<1>5. Invs => Invs'
  BY <1>1, <1>3, <1>4 DEF Invs, OwnConnections
<1>6. QED
  BY <1>3, <1>5

LEMMA NextTypes == Types /\ Unused /\ [TransferNext]_transferVars => Types' /\ Unused'
<1> SUFFICES ASSUME Types, Unused, [TransferNext]_transferVars PROVE Types' /\ Unused'
  OBVIOUS
<1>1. CASE \E t \in Tasks : SendChunk(t)
  <2>1. PICK t \in Tasks : SendChunk(t)
    BY <1>1
  <2>2. PICK x \in Places(t), pkt \in Packet : SendsChunk(t, x, pkt)
    BY <2>1, Sending
  <2>3. QED
    BY <2>2, SendKeepsTypes
<1>2. CASE PushPacket
  <2>1. PICK t \in Tasks : \E x \in Places(t) : \E pkt \in Packet : Receives(t, x, pkt)
    BY <1>2, Receiving
  <2>2. PICK x \in Places(t), pkt \in Packet : Receives(t, x, pkt)
    BY <2>1
  <2>3. QED
    BY <2>2, ReceiveKeepsTypes
<1>3. CASE LosePacket
  BY <1>3, LoseKeepsTypes
<1>4. CASE UNCHANGED transferVars
  BY <1>4, StutterKeeps
<1>5. QED
  BY <1>1, <1>2, <1>3, <1>4 DEF TransferNext

LEMMA NextInvs == Invs /\ [TransferNext]_transferVars => Invs'
<1> SUFFICES ASSUME Invs, [TransferNext]_transferVars PROVE Invs'
  OBVIOUS
<1>1. Types /\ Unused /\ OwnConnections
  BY DEF Invs
<1>2. Types' /\ Unused'
  BY <1>1, NextTypes
<1>3. OwnConnections'
  BY <1>1 DEF OwnConnections
<1>4. lost \in Nat
  BY <1>1, HandlesAssumption DEF Types
<1>5. CASE \E t \in Tasks : SendChunk(t)
  <2>1. PICK t \in Tasks : SendChunk(t)
    BY <1>5
  <2>2. PICK x \in Places(t), pkt \in Packet : SendsChunk(t, x, pkt)
    BY <1>1, <2>1, Sending
  <2>3. lost' = lost /\ interrupted' = interrupted
    BY <2>2 DEF SendsChunk, assemblers
  <2>4. \A u \in Tasks : ConnInv(u) => ConnInv(u)'
    BY <1>1, <2>2, SendKeepsConn
  <2>5. QED
    BY <1>2, <1>3, <2>3, <2>4 DEF Invs
<1>6. CASE PushPacket
  <2>1. PICK t \in Tasks : \E x \in Places(t) : \E pkt \in Packet : Receives(t, x, pkt)
    BY <1>1, <1>6, Receiving
  <2>2. PICK x \in Places(t), pkt \in Packet : Receives(t, x, pkt)
    BY <2>1
  <2>3. ASSUME lost' <= 1, NEW u \in Tasks PROVE ConnInv(u)'
    <3>1. lost' = lost
      BY <2>2 DEF Receives
    <3>2. ConnInv(u)
      BY <2>3, <3>1 DEF Invs
    <3>3. CASE u = t
      BY <1>1, <2>2, <3>2, <3>3, ReceiveKeepsOwn
    <3>4. CASE u # t
      BY <1>1, <2>2, <3>2, <3>4, ReceiveKeepsOthers
    <3>5. QED
      BY <3>3, <3>4
  <2>4. ASSUME lost' = 0 PROVE interrupted' = {}
    <3>1. lost = 0 /\ lost <= 1
      BY <2>2, <2>4 DEF Receives
    <3>2. interrupted = {} /\ ConnInv(t)
      BY <3>1 DEF Invs
    <3>3. pkt.first => ~inProgress[HandleOf[t]]
      BY <1>1, <2>2, <3>1, <3>2, ReceiveKeepsOwn
    <3>4. interrupted' = interrupted
      <4>1. CASE Push(HandleOf[t], pkt)
        BY <3>3, <4>1 DEF Push
      <4>2. CASE UNCHANGED assemblers
        BY <4>2 DEF assemblers
      <4>3. QED
        BY <2>2, <4>1, <4>2 DEF Receives
    <3>5. QED
      BY <3>2, <3>4
  <2>5. QED
    BY <1>2, <1>3, <2>3, <2>4 DEF Invs
<1>7. CASE LosePacket
  <2>1. lost' = lost + 1
    BY <1>7 DEF LosePacket
  <2>2. lost' # 0 /\ (lost' <= 1 => lost = 0)
    BY <1>4, <2>1
  <2>3. ASSUME lost' <= 1, NEW u \in Tasks PROVE ConnInv(u)'
    <3>1. lost = 0 /\ lost <= 1
      BY <2>2, <2>3
    <3>2. ConnInv(u)
      BY <3>1 DEF Invs
    <3>3. QED
      BY <1>1, <1>7, <3>1, <3>2, LoseKeepsConn
  <2>4. QED
    BY <1>2, <1>3, <2>2, <2>3 DEF Invs
<1>8. CASE UNCHANGED transferVars
  BY <1>8, StutterKeeps
<1>9. QED
  BY <1>5, <1>6, <1>7, <1>8 DEF TransferNext

-----------------------------------------------------------------------------
(***************************************************************************)
(* Whatever the tasks send and share: queue, assemblers and counters keep  *)
(* their types, each packet is the chunk of some task at one of its        *)
(* places, and a connection nobody sends on assembles nothing.             *)
(***************************************************************************)
THEOREM TypesCorrect == TransferSpec => [](Types /\ Unused)
<1>1. TransferInit => Types /\ Unused
  BY InitTypes
<1>2. (Types /\ Unused) /\ [TransferNext]_transferVars => (Types /\ Unused)'
  BY NextTypes
<1>3. QED
  BY <1>1, <1>2, PTL DEF TransferSpec

(***************************************************************************)
(* With one task per connection the packets under way run, without a gap   *)
(* or with one, from the place the assembler waits for to the place the    *)
(* task has come to.                                                       *)
(***************************************************************************)
THEOREM ChunksInOrder == OwnConnections /\ TransferSpec => []Invs
<1>1. OwnConnections /\ TransferInit => Invs
  <2> SUFFICES ASSUME OwnConnections, TransferInit PROVE Invs
    OBVIOUS
  <2>1. interrupted = {}
    BY DEF TransferInit
  <2>2. QED
    BY <2>1, InitTypes, InitConn DEF Invs
<1>2. Invs /\ [TransferNext]_transferVars => Invs'
  BY NextInvs
<1>3. QED
  BY <1>1, <1>2, PTL DEF TransferSpec

(***************************************************************************)
(* One task per connection and no loss: the assertion of push() that no    *)
(* PDU is in progress when another starts holds.                           *)
(***************************************************************************)
THEOREM StartsAreClean == OwnConnections /\ TransferSpec => []NeverInterrupted
<1>1. Invs => NeverInterrupted
  BY DEF Invs, NeverInterrupted
<1>2. QED
  BY <1>1, ChunksInOrder, PTL

(***************************************************************************)
(* One task per connection and at most one packet lost: push() returns     *)
(* whole PDUs of that task, each at most once and in the order sent.       *)
(***************************************************************************)
THEOREM PdusComeWhole == OwnConnections /\ TransferSpec => []AssembledWhole
<1>1. Invs => AssembledWhole
  <2> SUFFICES ASSUME Invs, lost <= 1, NEW h \in Handles, assembled[h] # <<>>
               PROVE  \E t \in Senders(h) :
                        \E picked \in [1..Len(assembled[h]) -> 1..Len(Pdus[t])] :
                          /\ \A i \in 1..Len(assembled[h]) : assembled[h][i] = Whole(Pdus[t][picked[i]])
                          /\ \A i, j \in 1..Len(assembled[h]) : i < j => picked[i] < picked[j]
    BY DEF AssembledWhole
  <2>1. PICK t \in Senders(h) : TRUE
    BY DEF Invs, Unused
  <2>2. t \in Tasks /\ HandleOf[t] = h
    BY DEF Senders
  <2>3. PICK n : Picked(t, n)
    BY <2>2 DEF Invs, ConnInv
  <2>4. QED
    BY <2>2, <2>3 DEF Picked
<1>2. QED
  BY <1>1, ChunksInOrder, PTL

=============================================================================
