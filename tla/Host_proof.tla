----------------------------- MODULE Host_proof -----------------------------
(***************************************************************************)
(* The two tasks of a host that live as long as the program.               *)
(*                                                                         *)
(* The connection manager: link keys survive, for any devices, keys, saves *)
(* and crashes.  Two arguments: what is in the table, the file and the     *)
(* saves are keys their device was given, as long as the cells of the file *)
(* stay in step, two to an entry; and the notifications on their way, the  *)
(* table, the last save and the file follow each other, each bringing the  *)
(* one before to the keys last given.                                      *)
(*                                                                         *)
(* The L2CAP server: connection handles and channel ids lead to the task   *)
(* that has them, and a packet is handled for the link it came over but in *)
(* the ways named, for any number of handles, channel ids, links and       *)
(* packets.  The server's view of the links lags behind the controller's   *)
(* by the events it has not read, and lacks the links whose disconnection  *)
(* failed.  The invariant is that nothing else separates them: the events  *)
(* of a handle, applied to the connection it has or has forgotten, lead to *)
(* the link it has, and each of them applies where its turn comes.         *)
(***************************************************************************)
EXTENDS ConnectionManager, L2capServer, SequenceTheorems, FiniteSetTheorems, WellFoundedInduction, TLAPS

-----------------------------------------------------------------------------
(* The connection manager.                                                 *)

Keys == Nat \ {NoKey}

Saved == [data : Seq(Nat), opened : BOOLEAN]
ManagerEvent ==
    [kind : {"LinkKeyNotification"}, device : Devices, key : Keys]
      \union [kind : {"LinkKeyRequest"}, device : Devices, expects : Nat]
      \union [kind : {"PinCodeRequest", "IoCapabilityRequest", "UserConfirmationRequest",
                      "UserPasskeyRequest", "SimplePairingComplete"}, device : Devices]
      \union [kind : {"ConnectionRequest"}, device : Devices, link : {"ACL", "SCO"}]

\* The type of what the keys depend on.
Types ==
    /\ status \in {"up", "down", "refused", "panicked"}
    /\ table \in [Devices -> Nat]
    /\ store = Absent \/ store \in Seq(Nat)
    /\ saves \in Seq(Saved)
    /\ inbox \in Seq(ManagerEvent)
    /\ notified \in [Devices -> Seq(Keys)]
    /\ overlapped \in BOOLEAN /\ cutShort \in BOOLEAN
    /\ budget \in [keys : 0 .. MaxKeys, requests : 0 .. MaxRequests, crashes : 0 .. MaxCrashes]

\* The file is there to be written, once at a time unless saves overlapped,
\* and ends with an entry unless a save was cut short.
FileInv ==
    /\ \A i \in 1 .. Len(saves) : saves[i].opened => store # Absent
    /\ ~overlapped => \A i \in 1 .. Len(saves) : saves[i].opened => i = 1 /\ store = <<>>
    /\ \A i \in 1 .. Len(saves) : Readable(saves[i].data)
    /\ ~cutShort => (store # Absent => Readable(store)) /\ status # "refused"
    /\ status \in {"down", "refused"} => saves = <<>> /\ inbox = <<>>

Given(d, k) == Contains(notified[d], k)

\* Every entry, and every whole entry of a file that was cut, is of a device
\* and a key it was given.
Aligned(cells) ==
    \A i \in 1 .. Len(cells) :
        2 * i <= Len(cells) => cells[2 * i - 1] \in Devices /\ Given(cells[2 * i - 1], cells[2 * i])

GivenInv ==
    /\ \A i \in 1 .. Len(inbox) :
           inbox[i].kind = "LinkKeyNotification" => Given(inbox[i].device, inbox[i].key)
    /\ ~(overlapped /\ cutShort) =>
           /\ \A d \in Devices : table[d] = NoKey \/ Given(d, table[d])
           /\ store # Absent => Aligned(store)
           /\ \A i \in 1 .. Len(saves) : Aligned(saves[i].data)

\* The key of a device once the first n - 1 events are handled.
IsKey(j, d) == inbox[j].kind = "LinkKeyNotification" /\ inbox[j].device = d
BringsTo(n, d, k) ==
    \/ \E j \in 1 .. Len(inbox) :
           /\ j < n /\ IsKey(j, d) /\ inbox[j].key = k
           /\ \A m \in 1 .. Len(inbox) : j < m /\ m < n => ~IsKey(m, d)
    \/ table[d] = k /\ \A j \in 1 .. Len(inbox) : j < n => ~IsKey(j, d)

LastKeys == [d \in Devices |-> LastKey(d)]

\* The file holds a table: that of no key may not have been written yet.
Holds(t) == store = Snapshot(t) \/ (store = Absent /\ t = Unknown)

LastInv == ~overlapped /\ ~cutShort =>
    /\ status \in {"up", "panicked"} =>
           /\ \A d \in Devices : BringsTo(Len(inbox) + 1, d, LastKey(d))
           /\ \A i \in 1 .. Len(inbox) :
                  inbox[i].kind = "LinkKeyRequest" => BringsTo(i, inbox[i].device, inbox[i].expects)
           /\ saves = <<>> => Holds(table)
           /\ saves # <<>> => saves[Len(saves)].data = Snapshot(table)
    /\ status = "down" => Holds(LastKeys)

(* A queue without its i-th element: the finished save leaves the middle of one. *)
LEMMA Removed ==
  ASSUME NEW S, NEW s \in Seq(S), NEW i \in 1 .. Len(s), NEW r, r = RemoveAt(s, i)
  PROVE  /\ r \in Seq(S) /\ Len(s) \in Nat /\ Len(r) = Len(s) - 1
         /\ \A j \in 1 .. Len(r) : /\ j < i => j \in 1 .. Len(s) /\ r[j] = s[j]
                                   /\ ~(j < i) => j + 1 \in 1 .. Len(s) /\ r[j] = s[j + 1]
<1>1. Len(s) \in Nat /\ \A j \in 1 .. Len(s) : s[j] \in S
  BY LenProperties, ElementOfSeq
<1>2. PICK a : a = SubSeq(s, 1, i - 1)
  OBVIOUS
<1>3. PICK b : b = SubSeq(s, i + 1, Len(s))
  OBVIOUS
<1>4. a \in Seq(S) /\ Len(a) = i - 1 /\ \A j \in 1 .. i - 1 : a[j] = s[j]
  <2>1. \A j \in 1 .. i - 1 : s[j] \in S
    BY <1>1
  <2>2. /\ a \in Seq(S) /\ Len(a) = IF 1 <= i - 1 THEN (i - 1) - 1 + 1 ELSE 0
        /\ \A j \in 1 .. (i - 1) - 1 + 1 : a[j] = s[1 + j - 1]
    BY <1>2, <2>1, SubSeqProperties
  <2>3. \A j \in 1 .. i - 1 : j \in 1 .. (i - 1) - 1 + 1 /\ 1 + j - 1 = j
    BY <1>1
  <2>4. Len(a) = i - 1
    BY <1>1, <2>2
  <2>5. QED
    BY <2>2, <2>3, <2>4
<1>5. b \in Seq(S) /\ Len(b) = Len(s) - i /\ \A j \in 1 .. Len(s) - i : b[j] = s[i + j]
  <2>1. \A j \in i + 1 .. Len(s) : s[j] \in S
    BY <1>1
  <2>2. /\ b \in Seq(S) /\ Len(b) = IF i + 1 <= Len(s) THEN Len(s) - (i + 1) + 1 ELSE 0
        /\ \A j \in 1 .. Len(s) - (i + 1) + 1 : b[j] = s[(i + 1) + j - 1]
    BY <1>1, <1>3, <2>1, SubSeqProperties
  <2>3. \A j \in 1 .. Len(s) - i : j \in 1 .. Len(s) - (i + 1) + 1 /\ (i + 1) + j - 1 = i + j
    BY <1>1
  <2>4. Len(b) = Len(s) - i
    BY <1>1, <2>2
  <2>5. QED
    BY <2>2, <2>3, <2>4
<1>6. r = a \o b
  BY <1>2, <1>3 DEF RemoveAt
<1>7. /\ r \in Seq(S) /\ Len(r) = Len(a) + Len(b)
      /\ \A j \in 1 .. Len(a) + Len(b) : r[j] = IF j <= Len(a) THEN a[j] ELSE b[j - Len(a)]
  <2>1. /\ a \o b \in Seq(S) /\ Len(a \o b) = Len(a) + Len(b)
        /\ \A j \in 1 .. Len(a) + Len(b) : (a \o b)[j] = IF j <= Len(a) THEN a[j] ELSE b[j - Len(a)]
    BY <1>4, <1>5, ConcatProperties
  <2>2. QED
    BY <1>6, <2>1
<1>8. Len(r) = Len(s) - 1
  BY <1>1, <1>4, <1>5, <1>7
<1>9. ASSUME NEW j \in 1 .. Len(r), j < i PROVE j \in 1 .. Len(s) /\ r[j] = s[j]
  <2>1. j \in 1 .. i - 1 /\ j \in 1 .. Len(a) + Len(b) /\ j <= Len(a) /\ j \in 1 .. Len(s)
    BY <1>1, <1>4, <1>5, <1>8, <1>9
  <2>2. QED
    BY <1>4, <1>7, <2>1
<1>10. ASSUME NEW j \in 1 .. Len(r), ~(j < i) PROVE j + 1 \in 1 .. Len(s) /\ r[j] = s[j + 1]
  <2>1. /\ j \in 1 .. Len(a) + Len(b) /\ ~(j <= Len(a)) /\ j + 1 \in 1 .. Len(s)
        /\ j - Len(a) \in 1 .. Len(s) - i /\ i + (j - Len(a)) = j + 1
    BY <1>1, <1>4, <1>5, <1>8, <1>10
  <2>2. r[j] = b[j - Len(a)]
    BY <1>7, <2>1
  <2>3. b[j - Len(a)] = s[i + (j - Len(a))]
    BY <1>5, <2>1
  <2>4. QED
    BY <2>1, <2>2, <2>3
<1>11. QED
  BY <1>1, <1>7, <1>8, <1>9, <1>10

-----------------------------------------------------------------------------
(* The file.  A set of numbers that is bounded has a greatest one. *)
LEMMA Greatest ==
  ASSUME NEW n \in Nat, NEW S \in SUBSET (1 .. n), S # {}
  PROVE  Max(S) \in S /\ \A i \in S : i <= Max(S)
<1> DEFINE Left == {n - i : i \in S}
<1>1. Left \subseteq Nat /\ Left # {}
  <2>1. \A i \in S : n - i \in Nat
    OBVIOUS
  <2>2. PICK i \in S : TRUE
    OBVIOUS
  <2>3. n - i \in Left
    OBVIOUS
  <2>4. QED
    BY <2>1, <2>3
<1>2. PICK k \in Left : \A l \in Left : ~(<<l, k>> \in OpToRel(<, Nat))
  <2> HIDE DEF Left
  <2>1. QED
    BY <1>1, WFMin, NatLessThanWellFounded
<1>3. PICK i \in S : k = n - i
  BY <1>2
<1>4. \A j \in S : i >= j
  <2>1. SUFFICES ASSUME NEW j \in S PROVE i >= j
    OBVIOUS
  <2>2. n - j \in Left /\ n - j \in Nat /\ k \in Nat
    BY <1>1, <1>2
  <2>3. ~(n - j < k)
    BY <1>2, <2>2 DEF OpToRel
  <2>4. QED
    BY <1>3, <2>2, <2>3
<1>5. Max(S) \in S /\ \A j \in S : Max(S) >= j
  BY <1>4 DEF Max
<1>6. QED
  BY <1>5

(* The entries of a table are numbered by the order of their addresses. *)
LEMMA RankBijection ==
  ASSUME NEW S \in SUBSET Devices
  PROVE  /\ Cardinality(S) \in Nat
         /\ \A d \in S : Rank(S)[d] \in 1 .. Cardinality(S)
         /\ \A d, e \in S : Rank(S)[d] = Rank(S)[e] => d = e
         /\ \A i \in 1 .. Cardinality(S) : \E d \in S : Rank(S)[d] = i
<1> DEFINE Upto(d) == {e \in S : e <= d}
<1>1. IsFiniteSet(S) /\ Cardinality(S) \in Nat /\ S \subseteq Nat
  BY ManagerAssumption, FS_Subset, FS_CardinalityType
<1>2. ASSUME NEW d \in S
      PROVE  /\ IsFiniteSet(Upto(d)) /\ Cardinality(Upto(d)) \in 1 .. Cardinality(S)
             /\ Rank(S)[d] = Cardinality(Upto(d))
  <2>1. Upto(d) \in SUBSET S /\ d \in Upto(d)
    BY <1>1
  <2>2. IsFiniteSet(Upto(d)) /\ Cardinality(Upto(d)) <= Cardinality(S)
    BY <1>1, <2>1, FS_Subset
  <2>3. Cardinality(Upto(d)) \in Nat /\ Cardinality(Upto(d)) # 0
    BY <2>1, <2>2, FS_CardinalityType, FS_EmptySet
  <2>4. QED
    BY <1>1, <2>2, <2>3 DEF Rank
<1>3. ASSUME NEW d \in S, NEW e \in S, d < e
      PROVE  Rank(S)[d] < Rank(S)[e]
  <2>1. Upto(d) \in SUBSET Upto(e) /\ e \in Upto(e) /\ e \notin Upto(d)
    <3>1. d \in Nat /\ e \in Nat /\ \A x \in S : x \in Nat /\ (x <= d => x <= e)
      BY <1>1, <1>3
    <3>2. e <= e /\ ~(e <= d)
      BY <1>3, <3>1
    <3>3. QED
      BY <3>1, <3>2
  <2>2. IsFiniteSet(Upto(e)) /\ Rank(S)[e] = Cardinality(Upto(e)) /\ Rank(S)[d] = Cardinality(Upto(d))
        /\ Cardinality(Upto(d)) \in Nat /\ Cardinality(Upto(e)) \in Nat
    BY <1>2
  <2>3. Cardinality(Upto(d)) <= Cardinality(Upto(e)) /\ Cardinality(Upto(d)) # Cardinality(Upto(e))
    <3> HIDE DEF Upto
    <3>1. QED
      BY <2>1, <2>2, FS_Subset
  <2>4. QED
    BY <2>2, <2>3
<1>4. \A d, e \in S : Rank(S)[d] = Rank(S)[e] => d = e
  <2>1. SUFFICES ASSUME NEW d \in S, NEW e \in S, Rank(S)[d] = Rank(S)[e], d # e PROVE FALSE
    OBVIOUS
  <2>2. Rank(S)[d] \in 1 .. Cardinality(S)
    BY <1>2
  <2>3. d < e \/ e < d
    BY <1>1, <2>1
  <2>4. QED
    BY <1>1, <1>3, <2>1, <2>2, <2>3
<1>5. \A d \in S : Rank(S)[d] \in 1 .. Cardinality(S)
  BY <1>2
<1>6. Rank(S) \in Injection(S, 1 .. Cardinality(S))
  BY <1>4, <1>5 DEF Rank, Injection, IsInjective
<1>7. IsFiniteSet(1 .. Cardinality(S)) /\ Cardinality(1 .. Cardinality(S)) = Cardinality(S)
  BY <1>1, FS_Interval
<1>8. Rank(S) \in Surjection(S, 1 .. Cardinality(S))
  BY <1>6, <1>7, FS_Injection
<1>9. \A i \in 1 .. Cardinality(S) : \E d \in S : Rank(S)[d] = i
  BY <1>8 DEF Surjection
<1>10. QED
  BY <1>1, <1>4, <1>5, <1>9


LEMMA SnapshotCells ==
  ASSUME NEW t \in [Devices -> Nat]
  PROVE  /\ Snapshot(t) \in Seq(Nat) /\ Readable(Snapshot(t))
         /\ \A i \in 1 .. Len(Snapshot(t)) : 2 * i <= Len(Snapshot(t)) =>
                /\ Snapshot(t)[2 * i - 1] \in Devices /\ t[Snapshot(t)[2 * i - 1]] # NoKey
                /\ Snapshot(t)[2 * i] = t[Snapshot(t)[2 * i - 1]]
         /\ \A d \in Devices : t[d] # NoKey =>
                \E i \in 1 .. Len(Snapshot(t)) : 2 * i <= Len(Snapshot(t)) /\ Snapshot(t)[2 * i - 1] = d
<1> DEFINE S == {d \in Devices : t[d] # NoKey}
           N == Cardinality(S)
           Nth(k) == CHOOSE e \in S : Rank(S)[e] = k
<1>1. /\ N \in Nat
      /\ \A d \in S : Rank(S)[d] \in 1 .. N
      /\ \A d, e \in S : Rank(S)[d] = Rank(S)[e] => d = e
      /\ \A i \in 1 .. N : \E d \in S : Rank(S)[d] = i
  <2>1. S \in SUBSET Devices
    OBVIOUS
  <2> HIDE DEF S
  <2>2. QED
    BY <2>1, RankBijection
<1>2. \A k \in 1 .. N : Nth(k) \in S /\ Rank(S)[Nth(k)] = k
  <2> HIDE DEF S, N
  <2>1. QED
    BY <1>1
<1>3. Snapshot(t) = [i \in 1 .. 2 * N |-> IF i % 2 = 1 THEN Nth((i + 1) \div 2) ELSE t[Nth((i + 1) \div 2)]]
  BY DEF Snapshot
<1>4. \A d \in S : d \in Nat /\ d \in Devices /\ t[d] \in Nat /\ t[d] # NoKey
  BY ManagerAssumption
<1>5. \A d \in Devices : t[d] # NoKey => d \in S
  OBVIOUS
<1> HIDE DEF S, N, Nth
<1>6. \A i \in 1 .. 2 * N : (i + 1) \div 2 \in 1 .. N
  BY <1>1
<1>7. \A i \in 1 .. 2 * N :
        (IF i % 2 = 1 THEN Nth((i + 1) \div 2) ELSE t[Nth((i + 1) \div 2)]) \in Nat
  BY <1>2, <1>4, <1>6
<1>8. 2 * N \in Nat
  BY <1>1
<1>9. Snapshot(t) \in Seq(Nat) /\ Len(Snapshot(t)) = 2 * N
  BY <1>3, <1>7, <1>8, IsASeq
<1>10. Readable(Snapshot(t))
  BY <1>1, <1>9 DEF Readable
<1>11. ASSUME NEW i \in 1 .. N
       PROVE  Snapshot(t)[2 * i - 1] = Nth(i) /\ Snapshot(t)[2 * i] = t[Nth(i)]
  <2>1. /\ 2 * i - 1 \in 1 .. 2 * N /\ 2 * i \in 1 .. 2 * N
        /\ (2 * i - 1) % 2 = 1 /\ ((2 * i - 1) + 1) \div 2 = i
        /\ (2 * i) % 2 # 1 /\ (2 * i + 1) \div 2 = i
    BY <1>1
  <2>2. QED
    BY <1>3, <2>1
<1>12. ASSUME NEW i \in 1 .. Len(Snapshot(t)), 2 * i <= Len(Snapshot(t))
       PROVE  /\ Snapshot(t)[2 * i - 1] \in Devices /\ t[Snapshot(t)[2 * i - 1]] # NoKey
              /\ Snapshot(t)[2 * i] = t[Snapshot(t)[2 * i - 1]]
  <2>1. i \in 1 .. N
    BY <1>1, <1>9, <1>12
  <2>2. QED
    BY <1>2, <1>4, <1>11, <2>1
<1>13. ASSUME NEW d \in Devices, t[d] # NoKey
       PROVE  \E i \in 1 .. Len(Snapshot(t)) : 2 * i <= Len(Snapshot(t)) /\ Snapshot(t)[2 * i - 1] = d
  <2>1. PICK i \in 1 .. N : i = Rank(S)[d]
    BY <1>1, <1>5, <1>13
  <2>2. Nth(i) = d
    BY <1>1, <1>2, <1>5, <1>13, <2>1
  <2>3. i \in 1 .. Len(Snapshot(t)) /\ 2 * i <= Len(Snapshot(t))
    BY <1>1, <1>9
  <2>4. QED
    BY <1>11, <2>2, <2>3
<1>14. QED
  BY <1>9, <1>10, <1>12, <1>13

\* What is read for a device: the last of its entries.
LEMMA Loaded ==
  ASSUME NEW cells \in Seq(Nat), NEW d \in Devices
  PROVE  \/ /\ Load(cells)[d] = NoKey
            /\ \A i \in 1 .. Len(cells) : 2 * i <= Len(cells) => cells[2 * i - 1] # d
         \/ \E i \in 1 .. Len(cells) : /\ 2 * i <= Len(cells) /\ cells[2 * i - 1] = d
                                       /\ Load(cells)[d] = cells[2 * i] /\ cells[2 * i] \in Nat
<1> DEFINE at == {i \in 1 .. Len(cells) \div 2 : cells[2 * i - 1] = d}
<1>1. Load(cells)[d] = IF at = {} THEN NoKey ELSE cells[2 * Max(at)]
  BY DEF Load
<1>2. Len(cells) \in Nat
  BY LenProperties
<1>3. Len(cells) \div 2 \in Nat
  BY <1>2
<1>4. \A i \in 1 .. Len(cells) : 2 * i <= Len(cells) => i \in 1 .. Len(cells) \div 2
  BY <1>2
<1>5. \A i \in 1 .. Len(cells) \div 2 : i \in 1 .. Len(cells) /\ 2 * i \in 1 .. Len(cells) /\ 2 * i <= Len(cells)
  BY <1>2
<1>6. CASE at = {}
  BY <1>1, <1>4, <1>6
<1>7. CASE at # {}
  <2>1. at \in SUBSET (1 .. Len(cells) \div 2)
    OBVIOUS
  <2>2. Max(at) \in at
    <3> HIDE DEF at
    <3>1. QED
      BY <1>3, <1>7, <2>1, Greatest
  <2>3. PICK i \in at : i = Max(at)
    BY <2>2
  <2>4. cells[2 * i - 1] = d /\ i \in 1 .. Len(cells) /\ 2 * i \in 1 .. Len(cells) /\ 2 * i <= Len(cells)
    BY <1>5
  <2>5. cells[2 * i] \in Nat
    BY <2>4, ElementOfSeq
  <2>6. Load(cells)[d] = cells[2 * i]
    BY <1>1, <1>7, <2>3
  <2>7. QED
    BY <2>4, <2>5, <2>6
<1>8. QED
  BY <1>6, <1>7

LEMMA LoadType == ASSUME NEW cells \in Seq(Nat) PROVE Load(cells) \in [Devices -> Nat]
<1>1. \A d \in Devices : Load(cells)[d] \in Nat
  BY Loaded DEF NoKey
<1>2. Load(cells) = [d \in Devices |-> Load(cells)[d]]
  BY DEF Load
<1>3. QED
  BY <1>1, <1>2

\* A table that was saved is read as it was.
LEMMA LoadSnapshot ==
  ASSUME NEW t \in [Devices -> Nat]
  PROVE  Load(Snapshot(t)) = t
<1>1. ASSUME NEW d \in Devices PROVE Load(Snapshot(t))[d] = t[d]
  <2>1. PICK cells \in Seq(Nat) : cells = Snapshot(t)
    BY SnapshotCells
  <2>2. \A i \in 1 .. Len(cells) : 2 * i <= Len(cells) => cells[2 * i] = t[cells[2 * i - 1]]
    BY <2>1, SnapshotCells
  <2>3. t[d] # NoKey => \E i \in 1 .. Len(cells) : 2 * i <= Len(cells) /\ cells[2 * i - 1] = d
    BY <2>1, SnapshotCells
  <2>4. Load(cells)[d] = t[d]
    BY <2>2, <2>3, Loaded
  <2>5. QED
    BY <2>1, <2>4
<1>2. QED
  BY <1>1, LoadType, SnapshotCells

LEMMA LoadGiven ==
  ASSUME NEW cells \in Seq(Nat), Aligned(cells), NEW d \in Devices
  PROVE  Load(cells)[d] = NoKey \/ Given(d, Load(cells)[d])
BY Loaded DEF Aligned

LEMMA SnapshotGiven ==
  ASSUME NEW t \in [Devices -> Nat], \A d \in Devices : t[d] = NoKey \/ Given(d, t[d])
  PROVE  Aligned(Snapshot(t))
BY SnapshotCells DEF Aligned


-----------------------------------------------------------------------------
(* Writes: what they leave of the file. *)
LEMMA OverlayCells ==
  ASSUME NEW old \in Seq(Nat), NEW new \in Seq(Nat)
  PROVE  /\ Overlay(old, new) \in Seq(Nat)
         /\ Len(Overlay(old, new)) = IF Len(old) > Len(new) THEN Len(old) ELSE Len(new)
         /\ \A i \in 1 .. Len(new) : Overlay(old, new)[i] = new[i]
         /\ \A i \in 1 .. Len(old) : i > Len(new) => Overlay(old, new)[i] = old[i]
<1>1. Len(old) \in Nat /\ Len(new) \in Nat
  BY LenProperties
<1>2. PICK rest : rest = SubSeq(old, Len(new) + 1, Len(old))
  OBVIOUS
<1>3. /\ rest \in Seq(Nat)
      /\ Len(rest) = IF Len(new) + 1 <= Len(old) THEN Len(old) - Len(new) ELSE 0
      /\ \A i \in 1 .. Len(rest) : rest[i] = old[Len(new) + i]
  <2>1. \A i \in (Len(new) + 1) .. Len(old) : old[i] \in Nat
    BY <1>1, ElementOfSeq
  <2>2. /\ rest \in Seq(Nat)
        /\ Len(rest) = IF Len(new) + 1 <= Len(old) THEN Len(old) - (Len(new) + 1) + 1 ELSE 0
        /\ \A i \in 1 .. Len(old) - (Len(new) + 1) + 1 : rest[i] = old[(Len(new) + 1) + i - 1]
    BY <1>1, <1>2, <2>1, SubSeqProperties
  <2>3. Len(rest) = IF Len(new) + 1 <= Len(old) THEN Len(old) - Len(new) ELSE 0
    BY <1>1, <2>2
  <2>4. ASSUME NEW i \in 1 .. Len(rest) PROVE rest[i] = old[Len(new) + i]
    <3>1. (Len(new) + 1) + i - 1 = Len(new) + i /\ i \in 1 .. Len(old) - (Len(new) + 1) + 1
      BY <1>1, <2>3
    <3>2. QED
      BY <2>2, <3>1
  <2>5. QED
    BY <2>2, <2>3, <2>4
<1>4. Overlay(old, new) = new \o rest
  BY <1>2 DEF Overlay
<1>5. /\ new \o rest \in Seq(Nat)
      /\ Len(new \o rest) = Len(new) + Len(rest)
      /\ \A i \in 1 .. Len(new) + Len(rest) :
             (new \o rest)[i] = IF i <= Len(new) THEN new[i] ELSE rest[i - Len(new)]
  BY <1>3, ConcatProperties
<1>6. Len(Overlay(old, new)) = IF Len(old) > Len(new) THEN Len(old) ELSE Len(new)
  BY <1>1, <1>3, <1>4, <1>5
<1>7. \A i \in 1 .. Len(new) : Overlay(old, new)[i] = new[i]
  BY <1>1, <1>3, <1>4, <1>5
<1>8. ASSUME NEW i \in 1 .. Len(old), i > Len(new) PROVE Overlay(old, new)[i] = old[i]
  <2>1. PICK j \in 1 .. Len(rest) : j = i - Len(new)
    <3>1. Len(rest) = Len(old) - Len(new) /\ i - Len(new) \in 1 .. Len(old) - Len(new)
      BY <1>1, <1>3, <1>8
    <3>2. QED
      BY <3>1
  <2>2. i \in 1 .. Len(new) + Len(rest) /\ ~(i <= Len(new)) /\ Len(new) + j = i
    BY <1>1, <1>3, <1>8, <2>1
  <2>3. QED
    BY <1>3, <1>4, <1>5, <2>1, <2>2
<1>9. QED
  BY <1>4, <1>5, <1>6, <1>7, <1>8

\* The first write to a file that was cut to nothing.
LEMMA OverlayEmpty == ASSUME NEW new \in Seq(Nat) PROVE Overlay(<<>>, new) = new
<1>1. <<>> \in Seq(Nat) /\ Len(<<>>) = 0 /\ Len(new) \in Nat
  BY EmptySeq, LenProperties
<1>2. PICK old \in Seq(Nat) : old = <<>>
  BY <1>1
<1>3. /\ Overlay(old, new) \in Seq(Nat)
      /\ Len(Overlay(old, new)) = IF Len(old) > Len(new) THEN Len(old) ELSE Len(new)
      /\ \A i \in 1 .. Len(new) : Overlay(old, new)[i] = new[i]
  BY OverlayCells
<1>4. Len(Overlay(old, new)) = Len(new)
  BY <1>1, <1>2, <1>3
<1>5. Overlay(old, new) = new
  BY <1>3, <1>4, SeqEqual
<1>6. QED
  BY <1>2, <1>5

\* Files and writes of whole entries stay in step.
LEMMA OverlayReadable ==
  ASSUME NEW old \in Seq(Nat), NEW new \in Seq(Nat), Readable(old), Readable(new)
  PROVE  Readable(Overlay(old, new))
BY OverlayCells DEF Readable

LEMMA OverlayGiven ==
  ASSUME NEW old \in Seq(Nat), NEW new \in Seq(Nat), Readable(new), Aligned(old), Aligned(new)
  PROVE  Aligned(Overlay(old, new))
<1>1. PICK cells : cells = Overlay(old, new)
  OBVIOUS
<1>2. /\ Len(cells) = IF Len(old) > Len(new) THEN Len(old) ELSE Len(new)
      /\ \A i \in 1 .. Len(new) : cells[i] = new[i]
      /\ \A i \in 1 .. Len(old) : i > Len(new) => cells[i] = old[i]
  BY <1>1, OverlayCells
<1>3. Len(old) \in Nat /\ Len(new) \in Nat
  BY LenProperties
<1>4. ASSUME NEW i \in 1 .. Len(cells), 2 * i <= Len(cells)
      PROVE  cells[2 * i - 1] \in Devices /\ Given(cells[2 * i - 1], cells[2 * i])
  <2>1. CASE 2 * i <= Len(new)
    <3>1. i \in 1 .. Len(new) /\ 2 * i \in 1 .. Len(new) /\ 2 * i - 1 \in 1 .. Len(new)
      BY <1>2, <1>3, <2>1
    <3>2. QED
      BY <1>2, <2>1, <3>1 DEF Aligned
  <2>2. CASE ~(2 * i <= Len(new))
    <3>1. 2 * i - 1 > Len(new) /\ 2 * i <= Len(old)
      <4>1. PICK k \in Nat : Len(new) = 2 * k
        BY <1>3 DEF Readable
      <4>2. i \in Nat /\ 2 * i > 2 * k
        BY <1>3, <2>2, <4>1
      <4>3. Len(old) > Len(new)
        BY <1>2, <1>3, <1>4, <2>2
      <4>4. QED
        BY <1>2, <1>4, <4>1, <4>2, <4>3
    <3>2. i \in 1 .. Len(old) /\ 2 * i \in 1 .. Len(old) /\ 2 * i - 1 \in 1 .. Len(old) /\ 2 * i > Len(new)
      BY <1>2, <1>3, <3>1
    <3>3. QED
      BY <1>2, <3>1, <3>2 DEF Aligned
  <2>3. QED
    BY <2>1, <2>2
<1>5. QED
  BY <1>1, <1>4 DEF Aligned

\* A part of what was to be written.
LEMMA PrefixGiven ==
  ASSUME NEW cells \in Seq(Nat), NEW n \in 0 .. Len(cells)
  PROVE  SubSeq(cells, 1, n) \in Seq(Nat) /\ (Aligned(cells) => Aligned(SubSeq(cells, 1, n)))
<1>1. Len(cells) \in Nat /\ \A i \in 1 .. n : i \in 1 .. Len(cells) /\ cells[i] \in Nat
  BY LenProperties, ElementOfSeq
<1>2. PICK part : part = SubSeq(cells, 1, n)
  OBVIOUS
<1>3. part \in Seq(Nat) /\ Len(part) = n /\ \A i \in 1 .. n : part[i] = cells[i]
  BY <1>1, <1>2, SubSeqProperties
<1>4. ASSUME Aligned(cells) PROVE Aligned(part)
  <2>1. ASSUME NEW i \in 1 .. Len(part), 2 * i <= Len(part)
        PROVE  part[2 * i - 1] \in Devices /\ Given(part[2 * i - 1], part[2 * i])
    <3>1. i \in 1 .. Len(cells) /\ 2 * i <= Len(cells) /\ 2 * i \in 1 .. n /\ 2 * i - 1 \in 1 .. n
      BY <1>1, <1>3, <2>1
    <3>2. QED
      BY <1>3, <1>4, <3>1 DEF Aligned
  <2>2. QED
    BY <2>1 DEF Aligned
<1>5. QED
  BY <1>2, <1>3, <1>4

-----------------------------------------------------------------------------
(* What an event carries. *)
LEMMA EventFields ==
  ASSUME NEW e \in ManagerEvent
  PROVE  /\ e.device \in Devices
         /\ e.kind = "LinkKeyNotification" => e.key \in Keys
         /\ e.kind = "LinkKeyRequest" => e.expects \in Nat
BY DEF ManagerEvent

(* The first event is taken. *)
Taken ==
    /\ inbox' \in Seq(ManagerEvent) /\ inbox[1] \in ManagerEvent /\ Head(inbox) = inbox[1]
    /\ 1 \in 1 .. Len(inbox) /\ Len(inbox) = Len(inbox') + 1 /\ Len(inbox') \in Nat
    /\ \A i \in 1 .. Len(inbox') : i + 1 \in 1 .. Len(inbox) /\ inbox'[i] = inbox[i + 1]
    /\ \A i \in 1 .. Len(inbox) : i = 1 \/ \E j \in 1 .. Len(inbox') : i = j + 1 /\ inbox'[j] = inbox[i]

LEMMA Taking ==
  ASSUME Types, NEW kind, Takes(kind)
  PROVE  Taken /\ status = "up" /\ inbox[1].kind = kind
<1>1. /\ Head(inbox) = inbox[1] /\ inbox[1] \in ManagerEvent /\ inbox' \in Seq(ManagerEvent)
      /\ Len(inbox) \in Nat \ {0} /\ Len(inbox') = Len(inbox) - 1
      /\ \A i \in 1 .. Len(inbox') : inbox'[i] = inbox[i + 1]
  BY HeadTailProperties, EmptySeq DEF Types, Takes
<1>2. ASSUME NEW i \in 1 .. Len(inbox), i # 1
      PROVE  \E j \in 1 .. Len(inbox') : i = j + 1 /\ inbox'[j] = inbox[i]
  <2>1. PICK j \in 1 .. Len(inbox') : i = j + 1
    <3>1. i - 1 \in 1 .. Len(inbox') /\ i = (i - 1) + 1
      BY <1>1, <1>2
    <3>2. QED
      BY <3>1
  <2>2. QED
    BY <1>1, <2>1
<1>3. QED
  BY <1>1, <1>2 DEF Taken, Takes

(* An event is posted. *)
Posted(e) ==
    /\ inbox' \in Seq(ManagerEvent) /\ Len(inbox) \in Nat /\ Len(inbox') = Len(inbox) + 1
    /\ Len(inbox') \in 1 .. Len(inbox') /\ inbox'[Len(inbox')] = e
    /\ \A i \in 1 .. Len(inbox) : i \in 1 .. Len(inbox') /\ inbox'[i] = inbox[i]
    /\ \A i \in 1 .. Len(inbox') : i \in 1 .. Len(inbox) \/ i = Len(inbox')

LEMMA Posting ==
  ASSUME Types, NEW e \in ManagerEvent, Post(e)
  PROVE  Posted(e)
<1>1. /\ inbox' \in Seq(ManagerEvent) /\ Len(inbox) \in Nat /\ Len(inbox') = Len(inbox) + 1
      /\ \A i \in 1 .. Len(inbox) : inbox'[i] = inbox[i]
      /\ inbox'[Len(inbox) + 1] = e
  BY AppendProperties, LenProperties DEF Types, Post
<1>2. QED
  BY <1>1 DEF Posted

-----------------------------------------------------------------------------
(* The key of a device, as the notifications are handled. *)
LEMMA LeadsTaken ==
  ASSUME Taken, NEW d, NEW n \in Nat, n >= 1, NEW k,
         table'[d] = IF IsKey(1, d) THEN inbox[1].key ELSE table[d],
         BringsTo(n + 1, d, k)
  PROVE  BringsTo(n, d, k)'
<1>1. \A i \in 1 .. Len(inbox') : i \in Nat /\ (IsKey(i, d)' <=> IsKey(i + 1, d))
  BY DEF Taken, IsKey
<1>2. CASE table[d] = k /\ \A j \in 1 .. Len(inbox) : j < n + 1 => ~IsKey(j, d)
  <2>1. ~IsKey(1, d)
    BY <1>2 DEF Taken
  <2>2. \A j \in 1 .. Len(inbox') : j < n => ~IsKey(j, d)'
    BY <1>1, <1>2 DEF Taken
  <2>3. QED
    BY <1>2, <2>1, <2>2 DEF BringsTo
<1>3. ASSUME NEW j \in 1 .. Len(inbox), j < n + 1, IsKey(j, d), inbox[j].key = k,
             \A m \in 1 .. Len(inbox) : j < m /\ m < n + 1 => ~IsKey(m, d)
      PROVE  BringsTo(n, d, k)'
  <2>1. CASE j = 1
    <3>1. table'[d] = k
      BY <1>3, <2>1
    <3>2. \A m \in 1 .. Len(inbox') : m < n => ~IsKey(m, d)'
      BY <1>1, <1>3, <2>1 DEF Taken
    <3>3. QED
      BY <3>1, <3>2 DEF BringsTo
  <2>2. CASE j # 1
    <3>1. PICK i \in 1 .. Len(inbox') : j = i + 1 /\ inbox'[i] = inbox[j]
      BY <2>2 DEF Taken
    <3>2. i < n /\ IsKey(i, d)' /\ inbox'[i].key = k
      BY <1>1, <1>3, <3>1
    <3>3. \A m \in 1 .. Len(inbox') : i < m /\ m < n => ~IsKey(m, d)'
      <4>1. SUFFICES ASSUME NEW m \in 1 .. Len(inbox'), i < m, m < n PROVE ~IsKey(m, d)'
        OBVIOUS
      <4>2. m + 1 \in 1 .. Len(inbox) /\ j < m + 1 /\ m + 1 < n + 1
        BY <1>1, <3>1, <4>1 DEF Taken
      <4>3. QED
        BY <1>1, <1>3, <4>2
    <3>4. QED
      BY <3>2, <3>3 DEF BringsTo
  <2>3. QED
    BY <2>1, <2>2
<1>4. QED
  BY <1>2, <1>3 DEF BringsTo

LEMMA LeadsPosted ==
  ASSUME NEW e, Posted(e), UNCHANGED table, NEW d, NEW n \in 1 .. Len(inbox) + 1, NEW k, BringsTo(n, d, k)
  PROVE  /\ BringsTo(n, d, k)'
         /\ n = Len(inbox) + 1 /\ ~(e.kind = "LinkKeyNotification" /\ e.device = d)
              => BringsTo(Len(inbox) + 1, d, k)'
<1>1. \A i \in 1 .. Len(inbox) : i \in 1 .. Len(inbox') /\ inbox'[i] = inbox[i] /\ (IsKey(i, d)' <=> IsKey(i, d))
  BY DEF Posted, IsKey
<1>2. \A i \in 1 .. Len(inbox') : i < n => i \in 1 .. Len(inbox)
  BY DEF Posted
<1>3. BringsTo(n, d, k)'
  BY <1>1, <1>2 DEF BringsTo
<1>4. ASSUME n = Len(inbox) + 1, ~(e.kind = "LinkKeyNotification" /\ e.device = d)
      PROVE  BringsTo(Len(inbox) + 1, d, k)'
  <2>1. ~IsKey(Len(inbox), d)'
    BY <1>4 DEF Posted, IsKey
  <2>2. \A i \in 1 .. Len(inbox) : i < n
    BY <1>4 DEF Posted
  <2>3. \A i \in 1 .. Len(inbox') : i < Len(inbox') + 1
    BY DEF Posted
  <2>4. \A i \in 1 .. Len(inbox') : i \in 1 .. Len(inbox) \/ ~IsKey(i, d)'
    BY <2>1 DEF Posted
  <2>5. QED
    BY <1>1, <2>2, <2>3, <2>4 DEF BringsTo
<1>5. QED
  BY <1>3, <1>4


-----------------------------------------------------------------------------
(* The steps of the controller. *)
Invs == Types /\ FileInv /\ GivenInv /\ LastInv

LEMMA GivenFrame == ASSUME UNCHANGED notified, NEW d, NEW k PROVE Given(d, k)' <=> Given(d, k)
BY DEF Given

LEMMA LastKeyType ==
  ASSUME Types, NEW d \in Devices
  PROVE  LastKey(d) \in Nat /\ LastKeys \in [Devices -> Nat] /\ LastKeys[d] = LastKey(d)
<1>1. ASSUME NEW e \in Devices PROVE LastKey(e) \in Nat
  <2>1. CASE notified[e] = <<>>
    BY <2>1 DEF LastKey, NoKey
  <2>2. CASE notified[e] # <<>>
    <3>1. notified[e] \in Seq(Keys)
      BY DEF Types
    <3>2. Len(notified[e]) \in 1 .. Len(notified[e])
      BY <2>2, <3>1, EmptySeq, LenProperties
    <3>3. notified[e][Len(notified[e])] \in Keys
      BY <3>1, <3>2, ElementOfSeq
    <3>4. QED
      BY <2>2, <3>3 DEF LastKey, Last, Keys
  <2>3. QED
    BY <2>1, <2>2
<1>2. QED
  BY <1>1 DEF LastKeys

LEMMA PostKeyKeeps == ASSUME Invs, PostKey PROVE Invs'
<1>1. PICK d \in Devices : /\ Post([kind |-> "LinkKeyNotification", device |-> d, key |-> NewKey])
                           /\ notified' = [notified EXCEPT ![d] = Append(@, NewKey)]
  BY DEF PostKey
<1>2. PICK k : k = NewKey
  OBVIOUS
<1>3. k \in Keys /\ budget' \in [keys : 0 .. MaxKeys, requests : 0 .. MaxRequests, crashes : 0 .. MaxCrashes]
  <2>1. /\ budget \in [keys : 0 .. MaxKeys, requests : 0 .. MaxRequests, crashes : 0 .. MaxCrashes]
        /\ budget' = [budget EXCEPT !.keys = @ - 1] /\ budget.keys > 0
    BY DEF PostKey, Invs, Types
  <2>2. budget.keys \in 0 .. MaxKeys /\ budget.keys - 1 \in 0 .. MaxKeys
    BY <2>1, ManagerAssumption
  <2>3. k \in Keys
    BY <1>2, <2>2, ManagerAssumption DEF Keys, NoKey, NewKey
  <2>4. QED
    BY <2>1, <2>2, <2>3
<1>4. PICK e : e = [kind |-> "LinkKeyNotification", device |-> d, key |-> k]
  OBVIOUS
<1>5. e \in ManagerEvent /\ e.kind = "LinkKeyNotification" /\ e.device = d /\ e.key = k
  BY <1>3, <1>4 DEF ManagerEvent
<1>6. Posted(e)
  BY <1>1, <1>2, <1>4, <1>5, Posting DEF Invs
<1>7. status = "up" /\ UNCHANGED <<status, table, store, saves, overlapped, cutShort>>
  BY DEF PostKey
<1>8. /\ notified' \in [Devices -> Seq(Keys)]
      /\ Given(d, k)' /\ LastKey(d)' = k
      /\ \A b \in Devices : b # d => notified'[b] = notified[b]
      /\ \A b \in Devices : \A l : Given(b, l) => Given(b, l)'
  <2>1. notified[d] \in Seq(Keys)
    BY DEF Invs, Types
  <2>2. PICK s : s = Append(notified[d], k)
    OBVIOUS
  <2>3. /\ s \in Seq(Keys) /\ Len(s) = Len(notified[d]) + 1 /\ s[Len(s)] = k /\ Len(s) \in 1 .. Len(s)
        /\ \A i \in 1 .. Len(notified[d]) : i \in 1 .. Len(s) /\ s[i] = notified[d][i]
    BY <1>3, <2>1, <2>2, AppendProperties, LenProperties
  <2>4. notified' = [notified EXCEPT ![d] = s]
    BY <1>1, <1>2, <2>2
  <2>5. notified'[d] = s /\ \A b \in Devices : b # d => notified'[b] = notified[b]
    BY <2>4 DEF Invs, Types
  <2>6. notified' \in [Devices -> Seq(Keys)]
    BY <2>3, <2>4 DEF Invs, Types
  <2>7. Given(d, k)'
    BY <2>3, <2>5 DEF Given, Contains
  <2>8. s # <<>>
    BY <2>3
  <2>9. LastKey(d)' = k
    BY <2>3, <2>5, <2>8 DEF LastKey, Last
  <2>10. ASSUME NEW b \in Devices, NEW l, Given(b, l) PROVE Given(b, l)'
    BY <2>3, <2>5, <2>10 DEF Given, Contains
  <2>11. QED
    BY <2>5, <2>6, <2>7, <2>9, <2>10
<1>9. Types'
  BY <1>3, <1>6, <1>7, <1>8 DEF Invs, Types, Posted
<1>10. FileInv'
  BY <1>7 DEF Invs, FileInv, Readable
<1>11. GivenInv'
  <2>1. ASSUME NEW i \in 1 .. Len(inbox'), inbox'[i].kind = "LinkKeyNotification",
               NEW b, b = inbox'[i].device, NEW l, l = inbox'[i].key
        PROVE  Given(b, l)'
    <3>1. CASE i \in 1 .. Len(inbox)
      <4>1. inbox[i] \in ManagerEvent /\ inbox'[i] = inbox[i]
        BY <1>6, <3>1, ElementOfSeq DEF Invs, Types, Posted
      <4>2. b \in Devices /\ Given(b, l)
        BY <2>1, <3>1, <4>1, EventFields DEF Invs, GivenInv
      <4>3. QED
        BY <1>8, <4>2
    <3>2. CASE i = Len(inbox')
      <4>1. inbox'[i] = e
        BY <1>6, <3>2 DEF Posted
      <4>2. QED
        BY <1>5, <1>8, <2>1, <4>1
    <3>3. QED
      BY <1>6, <3>1, <3>2 DEF Posted
  <2>2. ASSUME NEW cells, Aligned(cells) PROVE Aligned(cells)'
    BY <1>8, <2>2 DEF Aligned
  <2>3. \A i \in 1 .. Len(inbox') : inbox'[i].kind = "LinkKeyNotification" =>
          \A b, l : b = inbox'[i].device /\ l = inbox'[i].key => Given(b, l)'
    BY <2>1
  <2>4. ASSUME ~(overlapped /\ cutShort)
        PROVE  /\ \A b \in Devices : (table[b] = NoKey \/ Given(b, table[b]))'
               /\ (store # Absent => Aligned(store))'
               /\ \A i \in 1 .. Len(saves') : Aligned(saves[i].data)'
    <3>1. ASSUME NEW b \in Devices PROVE (table[b] = NoKey \/ Given(b, table[b]))'
      <4>1. PICK l : l = table[b]
        OBVIOUS
      <4>2. l = NoKey \/ Given(b, l)
        BY <2>4, <4>1 DEF Invs, GivenInv
      <4>3. l = NoKey \/ Given(b, l)'
        BY <1>8, <4>2
      <4>4. QED
        BY <1>7, <4>1, <4>3 DEF Given
    <3>2. (store # Absent => Aligned(store))'
      <4>1. PICK cells : cells = store
        OBVIOUS
      <4>2. cells # Absent => Aligned(cells)'
        BY <2>2, <2>4, <4>1 DEF Invs, GivenInv
      <4>3. QED
        BY <1>7, <4>1, <4>2 DEF Aligned
    <3>3. ASSUME NEW i \in 1 .. Len(saves') PROVE Aligned(saves[i].data)'
      <4>1. PICK cells : cells = saves[i].data
        OBVIOUS
      <4>2. Aligned(cells)'
        BY <1>7, <2>2, <2>4, <4>1 DEF Invs, GivenInv
      <4>3. QED
        BY <1>7, <4>1, <4>2 DEF Aligned
    <3>4. QED
      BY <3>1, <3>2, <3>3
  <2>5. QED
    BY <1>7, <2>3, <2>4 DEF GivenInv
<1>12. LastInv'
  <2> SUFFICES ASSUME ~overlapped, ~cutShort PROVE LastInv'
    BY <1>7 DEF LastInv
  <2>1. PICK n : n = Len(inbox) + 1 /\ n \in 1 .. Len(inbox) + 1
    BY <1>6 DEF Posted
  <2>2. ASSUME NEW b \in Devices PROVE BringsTo(Len(inbox) + 1, b, LastKey(b))'
    <3>1. PICK l : l = LastKey(b)
      OBVIOUS
    <3>2. CASE b # d
      <4>1. LastKey(b)' = l
        BY <1>8, <3>1, <3>2 DEF LastKey, Last
      <4>2. BringsTo(n, b, l)
        BY <1>7, <2>1, <3>1 DEF Invs, LastInv
      <4>3. BringsTo(Len(inbox) + 1, b, l)'
        BY <1>5, <1>6, <1>7, <2>1, <3>2, <4>2, LeadsPosted
      <4>4. QED
        BY <4>1, <4>3
    <3>3. CASE b = d
      <4>1. IsKey(Len(inbox), d)' /\ inbox'[Len(inbox')].key = k
        BY <1>5, <1>6 DEF Posted, IsKey
      <4>2. Len(inbox') \in 1 .. Len(inbox') /\ Len(inbox') < Len(inbox') + 1
            /\ \A m \in 1 .. Len(inbox') : ~(Len(inbox') < m)
        BY <1>6 DEF Posted
      <4>3. BringsTo(Len(inbox) + 1, d, k)'
        BY <4>1, <4>2 DEF BringsTo
      <4>4. QED
        BY <1>8, <3>3, <4>3
    <3>4. QED
      BY <3>2, <3>3
  <2>3. ASSUME NEW i \in 1 .. Len(inbox'), inbox'[i].kind = "LinkKeyRequest",
               NEW b, b = inbox'[i].device, NEW l, l = inbox'[i].expects
        PROVE  BringsTo(i, b, l)'
    <3>1. i \in 1 .. Len(inbox) /\ inbox'[i] = inbox[i]
      BY <1>5, <1>6, <2>3 DEF Posted
    <3>2. BringsTo(i, b, l)
      BY <1>7, <2>3, <3>1 DEF Invs, LastInv
    <3>3. i \in 1 .. Len(inbox) + 1
      BY <1>6, <3>1 DEF Posted
    <3>4. QED
      BY <1>6, <1>7, <3>2, <3>3, LeadsPosted
  <2>4. (saves = <<>> => Holds(table)) /\ (saves # <<>> => saves[Len(saves)].data = Snapshot(table))
    BY <1>7 DEF Invs, LastInv
  <2>5. (saves = <<>> => Holds(table))' /\ (saves # <<>> => saves[Len(saves)].data = Snapshot(table))'
    BY <1>7, <2>4 DEF Holds
  <2>6. QED
    BY <1>7, <2>2, <2>3, <2>5 DEF LastInv
<1>13. QED
  BY <1>9, <1>10, <1>11, <1>12 DEF Invs


\* Of what was given nothing changes, and no more is known.
LEMMA GivenKept ==
  ASSUME GivenInv, UNCHANGED <<table, store, saves, notified>>,
         overlapped' <=> overlapped, cutShort' <=> cutShort,
         \A i \in 1 .. Len(inbox') : inbox'[i].kind = "LinkKeyNotification" =>
             \E j \in 1 .. Len(inbox) : inbox[j] = inbox'[i]
  PROVE  GivenInv'
<1>1. \A d, k : Given(d, k)' <=> Given(d, k)
  BY DEF Given
<1>2. \A cells : Aligned(cells)' <=> Aligned(cells)
  BY <1>1 DEF Aligned
<1>3. ASSUME NEW i \in 1 .. Len(inbox'), inbox'[i].kind = "LinkKeyNotification",
             NEW b, b = inbox'[i].device, NEW l, l = inbox'[i].key
      PROVE  Given(b, l)'
  BY <1>1, <1>3 DEF GivenInv
<1>4. (\A i \in 1 .. Len(inbox) :
           inbox[i].kind = "LinkKeyNotification" => Given(inbox[i].device, inbox[i].key))'
  BY <1>3
<1>5. ASSUME ~(overlapped /\ cutShort)
      PROVE  /\ \A d \in Devices : table[d] = NoKey \/ Given(d, table[d])
             /\ store # Absent => Aligned(store)
             /\ \A i \in 1 .. Len(saves) : Aligned(saves[i].data)
  BY <1>5 DEF GivenInv
<1>6. ASSUME ~(overlapped /\ cutShort)
      PROVE  (/\ \A d \in Devices : table[d] = NoKey \/ Given(d, table[d])
              /\ store # Absent => Aligned(store)
              /\ \A i \in 1 .. Len(saves) : Aligned(saves[i].data))'
  BY <1>5, <1>6 DEF Given, Aligned
<1>7. QED
  BY <1>4, <1>6 DEF GivenInv

LEMMA PostQuestionKeeps == ASSUME Invs, PostQuestion PROVE Invs'
<1>1. PICK d \in Devices : \E q \in Questions(d) : Post(q)
  BY DEF PostQuestion
<1>2. PICK e \in Questions(d) : Post(e)
  BY <1>1
<1>3. e \in ManagerEvent /\ e.kind # "LinkKeyNotification"
      /\ (e.kind = "LinkKeyRequest" => e.device = d /\ e.expects = LastKey(d))
  BY LastKeyType DEF Questions, ManagerEvent, Invs
<1>4. Posted(e)
  BY <1>2, <1>3, Posting DEF Invs
<1>5. status = "up" /\ UNCHANGED <<status, table, store, saves, notified, overlapped, cutShort>>
  BY DEF PostQuestion
<1>6. budget' \in [keys : 0 .. MaxKeys, requests : 0 .. MaxRequests, crashes : 0 .. MaxCrashes]
  <2>1. /\ budget \in [keys : 0 .. MaxKeys, requests : 0 .. MaxRequests, crashes : 0 .. MaxCrashes]
        /\ budget' = [budget EXCEPT !.requests = @ - 1] /\ budget.requests > 0
    BY DEF PostQuestion, Invs, Types
  <2>2. budget.requests - 1 \in 0 .. MaxRequests
    BY <2>1, ManagerAssumption
  <2>3. QED
    BY <2>1, <2>2
<1>7. Types'
  BY <1>4, <1>5, <1>6 DEF Invs, Types, Posted
<1>8. FileInv'
  BY <1>5 DEF Invs, FileInv, Readable
<1>9. \A i \in 1 .. Len(inbox') : (i \in 1 .. Len(inbox) /\ inbox'[i] = inbox[i]) \/ inbox'[i] = e
  BY <1>4 DEF Posted
<1>10. GivenInv'
  BY <1>3, <1>5, <1>9, GivenKept DEF Invs
<1>11. LastInv'
  <2> SUFFICES ASSUME ~overlapped, ~cutShort PROVE LastInv'
    BY <1>5 DEF LastInv
  <2>1. PICK n : n = Len(inbox) + 1 /\ n \in 1 .. Len(inbox) + 1
    BY <1>4 DEF Posted
  <2>2. \A b : LastKey(b)' = LastKey(b)
    BY <1>5 DEF LastKey
  <2>3. ASSUME NEW b \in Devices, NEW l, l = LastKey(b)
        PROVE  BringsTo(n, b, l) /\ BringsTo(n, b, l)' /\ BringsTo(Len(inbox) + 1, b, l)'
    <3>1. BringsTo(n, b, l)
      BY <1>5, <2>1, <2>3 DEF Invs, LastInv
    <3>2. QED
      BY <1>3, <1>4, <1>5, <2>1, <3>1, LeadsPosted
  <2>4. ASSUME NEW b \in Devices PROVE BringsTo(Len(inbox) + 1, b, LastKey(b))'
    <3>1. PICK l : l = LastKey(b)
      OBVIOUS
    <3>2. LastKey(b)' = l
      BY <2>2, <3>1
    <3>3. BringsTo(Len(inbox) + 1, b, l)'
      BY <2>3, <3>1
    <3>4. QED
      BY <3>2, <3>3
  <2>5. ASSUME NEW i \in 1 .. Len(inbox'), inbox'[i].kind = "LinkKeyRequest",
               NEW b, b = inbox'[i].device, NEW l, l = inbox'[i].expects
        PROVE  BringsTo(i, b, l)'
    <3>1. CASE i \in 1 .. Len(inbox)
      <4>1. inbox'[i] = inbox[i] /\ i \in 1 .. Len(inbox) + 1
        BY <1>4, <3>1 DEF Posted
      <4>2. BringsTo(i, b, l)
        BY <1>5, <2>5, <3>1, <4>1 DEF Invs, LastInv
      <4>3. QED
        BY <1>4, <1>5, <4>1, <4>2, LeadsPosted
    <3>2. CASE i = Len(inbox')
      <4>1. i = n /\ b = d /\ l = LastKey(d)
        BY <1>3, <1>4, <2>1, <2>5, <3>2 DEF Posted
      <4>2. QED
        BY <2>3, <4>1
    <3>3. QED
      BY <1>4, <3>1, <3>2 DEF Posted
  <2>6. (saves = <<>> => Holds(table)) /\ (saves # <<>> => saves[Len(saves)].data = Snapshot(table))
    BY <1>5 DEF Invs, LastInv
  <2>7. (saves = <<>> => Holds(table))' /\ (saves # <<>> => saves[Len(saves)].data = Snapshot(table))'
    BY <1>5, <2>6 DEF Holds
  <2>8. QED
    BY <1>5, <2>4, <2>5, <2>7 DEF LastInv
<1>12. QED
  BY <1>7, <1>8, <1>10, <1>11 DEF Invs

-----------------------------------------------------------------------------
(* The steps of the manager.  The notifications and the requests that stay *)
(* are led to the same keys.                                               *)
LEMMA LeadsKept ==
  ASSUME Invs, Taken, status = "up", status' \in {"up", "panicked"}, ~overlapped, ~cutShort, UNCHANGED notified,
         \A d \in Devices : table'[d] = IF IsKey(1, d) THEN inbox[1].key ELSE table[d]
  PROVE  /\ \A d \in Devices : BringsTo(Len(inbox) + 1, d, LastKey(d))'
         /\ (\A i \in 1 .. Len(inbox) :
               inbox[i].kind = "LinkKeyRequest" => BringsTo(i, inbox[i].device, inbox[i].expects))'
<1>1. ASSUME NEW d \in Devices PROVE BringsTo(Len(inbox) + 1, d, LastKey(d))'
  <2>1. PICK n \in Nat : n = Len(inbox') + 1 /\ n >= 1 /\ n + 1 = Len(inbox) + 1
    BY DEF Taken
  <2>2. PICK l : l = LastKey(d)
    OBVIOUS
  <2>3. BringsTo(n + 1, d, l)
    BY <2>1, <2>2 DEF Invs, LastInv
  <2>4. BringsTo(n, d, l)'
    BY <2>1, <2>3, LeadsTaken
  <2>5. LastKey(d)' = l
    BY <2>2 DEF LastKey
  <2>6. QED
    BY <2>1, <2>4, <2>5 DEF BringsTo
<1>2. ASSUME NEW i \in 1 .. Len(inbox'), inbox'[i].kind = "LinkKeyRequest",
             NEW b, b = inbox'[i].device, NEW l, l = inbox'[i].expects
      PROVE  BringsTo(i, b, l)'
  <2>1. i \in Nat /\ i >= 1 /\ i + 1 \in 1 .. Len(inbox) /\ inbox'[i] = inbox[i + 1]
    BY DEF Taken
  <2>2. inbox[i + 1] \in ManagerEvent
    BY <2>1, ElementOfSeq DEF Invs, Types
  <2>3. b \in Devices /\ BringsTo(i + 1, b, l)
    BY <1>2, <2>1, <2>2, EventFields DEF Invs, LastInv
  <2>4. QED
    BY <2>1, <2>3, LeadsTaken
<1>3. QED
  BY <1>1, <1>2

\* Every event but a notification.
Answered ==
  \/ LinkKeyRequest \/ ConnectionRequest \/ PairingRequest \/ Ignored \/ PasskeyPanics

LEMMA AnsweredKeeps == ASSUME Invs, Answered PROVE Invs'
<1>1. /\ UNCHANGED <<table, store, saves, notified, overlapped, cutShort, budget>>
      /\ status' \in {"up", "panicked"} /\ status = "up"
  BY DEF Answered, LinkKeyRequest, ConnectionRequest, PairingRequest, Ignored, PasskeyPanics, Takes
<1>2. Taken /\ inbox[1].kind # "LinkKeyNotification"
  <2>1. ASSUME NEW kind, Takes(kind), kind # "LinkKeyNotification"
        PROVE  Taken /\ inbox[1].kind # "LinkKeyNotification"
    BY <2>1, Taking DEF Invs
  <2>2. \E kind : Takes(kind) /\ kind # "LinkKeyNotification"
    BY DEF Answered, LinkKeyRequest, ConnectionRequest, PairingRequest, Ignored, PasskeyPanics, PairingReply
  <2>3. QED
    BY <2>1, <2>2
<1>3. Types'
  BY <1>1, <1>2 DEF Invs, Types, Taken
<1>4. FileInv'
  BY <1>1 DEF Invs, FileInv, Readable
<1>5. GivenInv'
  BY <1>1, <1>2, GivenKept DEF Invs, Taken
<1>6. LastInv'
  <2> SUFFICES ASSUME ~overlapped, ~cutShort PROVE LastInv'
    BY <1>1 DEF LastInv
  <2>1. \A d \in Devices : table'[d] = IF IsKey(1, d) THEN inbox[1].key ELSE table[d]
    BY <1>1, <1>2 DEF IsKey
  <2>2. /\ \A d \in Devices : BringsTo(Len(inbox) + 1, d, LastKey(d))'
        /\ (\A i \in 1 .. Len(inbox) :
              inbox[i].kind = "LinkKeyRequest" => BringsTo(i, inbox[i].device, inbox[i].expects))'
    BY <1>1, <1>2, <2>1, LeadsKept
  <2>3. (saves = <<>> => Holds(table)) /\ (saves # <<>> => saves[Len(saves)].data = Snapshot(table))
    BY <1>1 DEF Invs, LastInv
  <2>4. (saves = <<>> => Holds(table))' /\ (saves # <<>> => saves[Len(saves)].data = Snapshot(table))'
    BY <1>1, <2>3 DEF Holds
  <2>5. QED
    BY <1>1, <2>2, <2>4 DEF LastInv
<1>7. QED
  BY <1>3, <1>4, <1>5, <1>6 DEF Invs

\* A new key: the table, and a save of all of it.
LEMMA LinkKeyNotificationKeeps == ASSUME Invs, LinkKeyNotification PROVE Invs'
<1>1. Taken /\ status = "up" /\ inbox[1].kind = "LinkKeyNotification"
  BY Taking DEF LinkKeyNotification, Invs
<1>2. PICK d \in Devices, k \in Keys : d = inbox[1].device /\ k = inbox[1].key
  BY <1>1, EventFields DEF Taken
<1>3. PICK t : t = [table EXCEPT ![d] = k]
  OBVIOUS
<1>4. PICK bytes : bytes = Snapshot(t)
  OBVIOUS
<1>5. PICK s : s = [data |-> bytes, opened |-> FALSE]
  OBVIOUS
<1>6. /\ table' = t /\ saves' = Append(saves, s)
      /\ UNCHANGED <<status, store, notified, overlapped, cutShort, budget>>
  BY <1>1, <1>2, <1>3, <1>4, <1>5 DEF LinkKeyNotification, SnapshotOf, Taken
<1>7. t \in [Devices -> Nat] /\ \A b \in Devices : t[b] = IF b = d THEN k ELSE table[b]
  BY <1>3 DEF Invs, Types, Keys
<1>8. bytes \in Seq(Nat) /\ Readable(bytes) /\ s \in Saved /\ s.data = bytes /\ ~s.opened
  BY <1>4, <1>5, <1>7, SnapshotCells DEF Saved
<1>9. /\ saves' \in Seq(Saved) /\ Len(saves) \in Nat /\ Len(saves') = Len(saves) + 1 /\ saves' # <<>>
      /\ saves'[Len(saves')] = s
      /\ \A i \in 1 .. Len(saves) : saves'[i] = saves[i]
      /\ \A i \in 1 .. Len(saves') : i \in 1 .. Len(saves) \/ i = Len(saves')
  <2>1. saves \in Seq(Saved) /\ s \in Saved
    BY <1>8 DEF Invs, Types
  <2>2. PICK n : n = Len(saves)
    OBVIOUS
  <2>3. n \in Nat
    BY <2>1, <2>2, LenProperties
  <2>4. /\ saves' \in Seq(Saved) /\ saves' # <<>> /\ Len(saves') = n + 1 /\ saves'[n + 1] = s
        /\ \A i \in 1 .. n : saves'[i] = saves[i]
    BY <1>6, <2>1, <2>2, <2>3, AppendProperties
  <2>5. QED
    BY <2>2, <2>3, <2>4
<1>10. Types'
  BY <1>1, <1>6, <1>7, <1>9 DEF Invs, Types, Taken
<1>11. FileInv'
  <2>1. \A i \in 1 .. Len(saves') : (saves'[i].opened => i \in 1 .. Len(saves) /\ saves[i].opened)
                                   /\ Readable(saves'[i].data)
    BY <1>8, <1>9 DEF Invs, FileInv
  <2>2. \A i \in 1 .. Len(saves') : Readable(saves[i].data)'
    BY <2>1 DEF Readable
  <2>3. (\A i \in 1 .. Len(saves) : saves[i].opened => store # Absent)'
        /\ (~overlapped => \A i \in 1 .. Len(saves) : saves[i].opened => i = 1 /\ store = <<>>)'
    BY <1>6, <2>1 DEF Invs, FileInv
  <2>4. ((~cutShort => (store # Absent => Readable(store)) /\ status # "refused")
         /\ (status \in {"down", "refused"} => saves = <<>> /\ inbox = <<>>))'
    BY <1>1, <1>6 DEF Invs, FileInv, Readable
  <2>5. QED
    BY <2>2, <2>3, <2>4 DEF FileInv
<1>12. Given(d, k)
  BY <1>1, <1>2 DEF Invs, GivenInv, Taken
<1>13. GivenInv'
  <2>1. ASSUME NEW i \in 1 .. Len(inbox'), inbox'[i].kind = "LinkKeyNotification",
               NEW b, b = inbox'[i].device, NEW l, l = inbox'[i].key
        PROVE  Given(b, l)'
    <3>1. Given(b, l)
      BY <1>1, <2>1 DEF Invs, GivenInv, Taken
    <3>2. QED
      BY <1>6, <3>1, GivenFrame
  <2>2. (\A i \in 1 .. Len(inbox) :
             inbox[i].kind = "LinkKeyNotification" => Given(inbox[i].device, inbox[i].key))'
    BY <2>1
  <2>3. ASSUME ~(overlapped /\ cutShort)
        PROVE  /\ \A b \in Devices : t[b] = NoKey \/ Given(b, t[b])
               /\ store # Absent => Aligned(store)
               /\ \A i \in 1 .. Len(saves') : Aligned(saves'[i].data)
    <3>1. \A b \in Devices : t[b] = NoKey \/ Given(b, t[b])
      BY <1>7, <1>12, <2>3 DEF Invs, GivenInv
    <3>2. Aligned(bytes)
      BY <1>4, <1>7, <3>1, SnapshotGiven
    <3>3. \A i \in 1 .. Len(saves') : Aligned(saves'[i].data)
      BY <1>8, <1>9, <2>3, <3>2 DEF Invs, GivenInv
    <3>4. QED
      BY <2>3, <3>1, <3>3 DEF Invs, GivenInv
  <2>4. ASSUME ~(overlapped /\ cutShort)
        PROVE  (/\ \A b \in Devices : table[b] = NoKey \/ Given(b, table[b])
                /\ store # Absent => Aligned(store)
                /\ \A i \in 1 .. Len(saves) : Aligned(saves[i].data))'
    BY <1>6, <2>3, <2>4 DEF Given, Aligned
  <2>5. QED
    BY <1>6, <2>2, <2>4 DEF GivenInv
<1>14. LastInv'
  <2> SUFFICES ASSUME ~overlapped, ~cutShort PROVE LastInv'
    BY <1>6 DEF LastInv
  <2>1. \A b \in Devices : table'[b] = IF IsKey(1, b) THEN inbox[1].key ELSE table[b]
    BY <1>1, <1>2, <1>6, <1>7 DEF IsKey
  <2>2. /\ \A b \in Devices : BringsTo(Len(inbox) + 1, b, LastKey(b))'
        /\ (\A i \in 1 .. Len(inbox) :
              inbox[i].kind = "LinkKeyRequest" => BringsTo(i, inbox[i].device, inbox[i].expects))'
    BY <1>1, <1>6, <2>1, LeadsKept
  <2>3. saves'[Len(saves')].data = Snapshot(t) /\ saves' # <<>>
    BY <1>4, <1>8, <1>9
  <2>4. (saves = <<>> => Holds(table))' /\ (saves # <<>> => saves[Len(saves)].data = Snapshot(table))'
    BY <1>6, <2>3
  <2>5. QED
    BY <1>1, <1>6, <2>2, <2>4 DEF LastInv
<1>15. QED
  BY <1>10, <1>11, <1>13, <1>14 DEF Invs

-----------------------------------------------------------------------------
(* The steps of the saves. *)
LEMMA SaveOpensKeeps == ASSUME Invs, SaveOpens PROVE Invs'
<1>1. PICK i \in DOMAIN saves :
        /\ ~saves[i].opened
        /\ saves' = [saves EXCEPT ![i].opened = TRUE]
        /\ store' = <<>>
        /\ overlapped' = (overlapped \/ \E j \in DOMAIN saves : j # i /\ (j < i \/ saves[j].opened))
        /\ UNCHANGED <<status, table, inbox, answer, notified, cutShort, budget>>
  BY DEF SaveOpens
<1>2. /\ saves \in Seq(Saved) /\ Len(saves) \in Nat /\ i \in 1 .. Len(saves) /\ DOMAIN saves = 1 .. Len(saves)
      /\ saves[i] \in Saved
  BY <1>1, LenProperties, ElementOfSeq DEF Invs, Types
<1>3. PICK s : s = [saves[i] EXCEPT !.opened = TRUE]
  OBVIOUS
<1>4. s \in Saved /\ s.data = saves[i].data /\ s.opened
  BY <1>2, <1>3 DEF Saved
<1>5. /\ saves' = [saves EXCEPT ![i] = s] /\ saves' \in Seq(Saved) /\ Len(saves') = Len(saves)
      /\ \A j \in 1 .. Len(saves) : saves'[j] = IF j = i THEN s ELSE saves[j]
  <2>1. saves' = [saves EXCEPT ![i] = s]
    BY <1>1, <1>3
  <2>2. QED
    BY <1>2, <1>4, <2>1, ExceptSeq
<1>6. <<>> \in Seq(Nat) /\ Len(<<>>) = 0 /\ <<>> # Absent /\ saves # <<>> /\ saves' # <<>>
  <2>1. <<>> \in Seq(Nat) /\ Len(<<>>) = 0
    BY EmptySeq
  <2>2. Len(saves) # 0 /\ Len(saves') # 0
    BY <1>2, <1>5
  <2>3. QED
    BY <2>1, <2>2, ManagerAssumption
<1>7. ~overlapped' => /\ ~overlapped /\ i = 1
                      /\ \A j \in 1 .. Len(saves) : saves[j].opened => j = 1
  <2>1. SUFFICES ASSUME ~overlapped' PROVE ~overlapped /\ i = 1 /\ \A j \in 1 .. Len(saves) : saves[j].opened => j = 1
    OBVIOUS
  <2>2. ~overlapped /\ \A j \in 1 .. Len(saves) : j = i \/ (~(j < i) /\ ~saves[j].opened)
    BY <1>1, <1>2, <2>1
  <2>3. i = 1
    BY <1>2, <2>2
  <2>4. QED
    BY <2>2, <2>3
<1>8. Types'
  <2>1. overlapped' \in BOOLEAN
    BY <1>1
  <2>2. QED
    BY <1>1, <1>5, <1>6, <2>1 DEF Invs, Types
<1>9. FileInv'
  <2>1. \A j \in 1 .. Len(saves') : Readable(saves'[j].data)
    BY <1>4, <1>5 DEF Invs, FileInv
  <2>2. (\A j \in 1 .. Len(saves) : Readable(saves[j].data))'
    BY <2>1 DEF Readable
  <2>3. (\A j \in 1 .. Len(saves) : saves[j].opened => store # Absent)'
    BY <1>1, <1>6
  <2>4. ~overlapped' => \A j \in 1 .. Len(saves') : saves'[j].opened => j = 1 /\ store' = <<>>
    BY <1>1, <1>5, <1>7
  <2>5. (~cutShort => (store # Absent => Readable(store)) /\ status # "refused")'
    BY <1>1, <1>6 DEF Readable, Invs, FileInv
  <2>6. (status \in {"down", "refused"} => saves = <<>> /\ inbox = <<>>)'
    BY <1>1, <1>6 DEF Invs, FileInv
  <2>7. QED
    BY <2>2, <2>3, <2>4, <2>5, <2>6 DEF FileInv
<1>10. GivenInv'
  <2>1. ASSUME NEW j \in 1 .. Len(inbox'), inbox'[j].kind = "LinkKeyNotification",
               NEW b, b = inbox'[j].device, NEW l, l = inbox'[j].key
        PROVE  Given(b, l)'
    BY <1>1, <2>1, GivenFrame DEF Invs, GivenInv
  <2>2. (\A j \in 1 .. Len(inbox) :
             inbox[j].kind = "LinkKeyNotification" => Given(inbox[j].device, inbox[j].key))'
    BY <2>1
  <2>3. ASSUME ~(overlapped' /\ cutShort)
        PROVE  /\ \A b \in Devices : table[b] = NoKey \/ Given(b, table[b])
               /\ Aligned(<<>>)
               /\ \A j \in 1 .. Len(saves') : Aligned(saves'[j].data)
    <3>1. ~(overlapped /\ cutShort)
      BY <1>1, <2>3
    <3>2. \A j \in 1 .. Len(saves') : Aligned(saves'[j].data)
      BY <1>2, <1>4, <1>5, <3>1 DEF Invs, GivenInv
    <3>3. Aligned(<<>>)
      BY <1>6 DEF Aligned
    <3>4. QED
      BY <3>1, <3>2, <3>3 DEF Invs, GivenInv
  <2>4. ASSUME ~(overlapped' /\ cutShort')
        PROVE  (/\ \A b \in Devices : table[b] = NoKey \/ Given(b, table[b])
                /\ store # Absent => Aligned(store)
                /\ \A j \in 1 .. Len(saves) : Aligned(saves[j].data))'
    BY <1>1, <2>3, <2>4 DEF Given, Aligned
  <2>5. QED
    BY <2>2, <2>4 DEF GivenInv
<1>11. LastInv'
  <2> SUFFICES ASSUME ~overlapped', ~cutShort PROVE LastInv'
    BY <1>1 DEF LastInv
  <2>1. ~overlapped
    BY <1>7
  <2>2. status \in {"up", "panicked"}
    BY <1>6 DEF Invs, FileInv, Types
  <2>3. /\ \A d \in Devices : BringsTo(Len(inbox) + 1, d, LastKey(d))
        /\ \A j \in 1 .. Len(inbox) :
               inbox[j].kind = "LinkKeyRequest" => BringsTo(j, inbox[j].device, inbox[j].expects)
        /\ saves[Len(saves)].data = Snapshot(table)
    BY <1>6, <2>1, <2>2 DEF Invs, LastInv
  <2>4. /\ (\A d \in Devices : BringsTo(Len(inbox) + 1, d, LastKey(d)))'
        /\ (\A j \in 1 .. Len(inbox) :
               inbox[j].kind = "LinkKeyRequest" => BringsTo(j, inbox[j].device, inbox[j].expects))'
    BY <1>1, <2>3 DEF BringsTo, IsKey, LastKey
  <2>5. saves'[Len(saves')].data = Snapshot(table)
    BY <1>2, <1>4, <1>5, <2>3
  <2>6. (saves = <<>> => Holds(table))' /\ (saves # <<>> => saves[Len(saves)].data = Snapshot(table))'
    BY <1>1, <1>6, <2>5
  <2>7. QED
    BY <1>1, <2>2, <2>4, <2>6 DEF LastInv
<1>12. QED
  BY <1>8, <1>9, <1>10, <1>11 DEF Invs

\* A save that is done, or given up, leaves the others as they were.
LEMMA SaveGone ==
  ASSUME Invs, NEW i \in DOMAIN saves, saves' = RemoveAt(saves, i)
  PROVE  /\ saves \in Seq(Saved) /\ i \in 1 .. Len(saves) /\ saves[i] \in Saved /\ Readable(saves[i].data)
         /\ status \in {"up", "panicked"} /\ saves # <<>>
         /\ saves' \in Seq(Saved) /\ Len(saves) \in Nat /\ Len(saves') = Len(saves) - 1
         /\ \A j \in 1 .. Len(saves') :
                /\ j < i => j \in 1 .. Len(saves) /\ saves'[j] = saves[j]
                /\ ~(j < i) => j + 1 \in 1 .. Len(saves) /\ saves'[j] = saves[j + 1]
         /\ (\A j \in 1 .. Len(saves) : Readable(saves[j].data))'
         /\ saves[i].opened => store \in Seq(Nat) /\ (~overlapped => i = 1 /\ store = <<>>)
<1>1. saves \in Seq(Saved) /\ Len(saves) \in Nat /\ i \in 1 .. Len(saves) /\ saves[i] \in Saved
  BY LenProperties, ElementOfSeq DEF Invs, Types
<1>2. saves # <<>>
  <2>1. Len(<<>>) = 0 /\ Len(saves) # 0
    BY <1>1, EmptySeq
  <2>2. QED
    BY <2>1
<1>3. status \in {"up", "panicked"}
  BY <1>2 DEF Invs, Types, FileInv
<1>4. PICK r : r = RemoveAt(saves, i)
  OBVIOUS
<1>5. /\ r \in Seq(Saved) /\ Len(saves) \in Nat /\ Len(r) = Len(saves) - 1
      /\ \A j \in 1 .. Len(r) : /\ j < i => j \in 1 .. Len(saves) /\ r[j] = saves[j]
                                /\ ~(j < i) => j + 1 \in 1 .. Len(saves) /\ r[j] = saves[j + 1]
  <2>1. ASSUME NEW S, NEW s \in Seq(S), NEW k \in 1 .. Len(s), NEW q, q = RemoveAt(s, k)
        PROVE  /\ q \in Seq(S) /\ Len(s) \in Nat /\ Len(q) = Len(s) - 1
               /\ \A j \in 1 .. Len(q) : /\ j < k => j \in 1 .. Len(s) /\ q[j] = s[j]
                                         /\ ~(j < k) => j + 1 \in 1 .. Len(s) /\ q[j] = s[j + 1]
    BY <2>1, Removed
  <2>2. PICK S : S = Saved
    OBVIOUS
  <2>3. PICK s \in Seq(S) : s = saves
    BY <1>1, <2>2
  <2>4. i \in 1 .. Len(s) /\ r = RemoveAt(s, i)
    BY <1>1, <1>4, <2>3
  <2>5. /\ r \in Seq(S) /\ Len(s) \in Nat /\ Len(r) = Len(s) - 1
        /\ \A j \in 1 .. Len(r) : /\ j < i => j \in 1 .. Len(s) /\ r[j] = s[j]
                                  /\ ~(j < i) => j + 1 \in 1 .. Len(s) /\ r[j] = s[j + 1]
    BY <2>1, <2>4
  <2>6. QED
    BY <2>2, <2>3, <2>5
<1>6. saves' = r
  BY <1>4
<1>7. \A j \in 1 .. Len(r) : Readable(r[j].data)
  BY <1>5 DEF Invs, FileInv
<1>8. (\A j \in 1 .. Len(saves) : Readable(saves[j].data))'
  BY <1>6, <1>7 DEF Readable
<1>9. saves[i].opened => store \in Seq(Nat) /\ (~overlapped => i = 1 /\ store = <<>>)
  BY <1>1 DEF Invs, Types, FileInv
<1>10. Readable(saves[i].data)
  BY <1>1 DEF Invs, FileInv
<1>11. QED
  BY <1>1, <1>2, <1>3, <1>5, <1>6, <1>8, <1>9, <1>10

LEMMA SaveWritesKeeps == ASSUME Invs, SaveWrites PROVE Invs'
<1>1. PICK i \in DOMAIN saves :
        /\ saves[i].opened
        /\ saves' = RemoveAt(saves, i)
        /\ store' = Overlay(store, saves[i].data)
        /\ UNCHANGED <<status, table, inbox, answer, notified, overlapped, cutShort, budget>>
  BY DEF SaveWrites
<1>2. /\ saves \in Seq(Saved) /\ i \in 1 .. Len(saves) /\ saves[i] \in Saved /\ Readable(saves[i].data)
      /\ status \in {"up", "panicked"} /\ saves # <<>>
      /\ saves' \in Seq(Saved) /\ Len(saves) \in Nat /\ Len(saves') = Len(saves) - 1
      /\ \A j \in 1 .. Len(saves') :
             /\ j < i => j \in 1 .. Len(saves) /\ saves'[j] = saves[j]
             /\ ~(j < i) => j + 1 \in 1 .. Len(saves) /\ saves'[j] = saves[j + 1]
      /\ (\A j \in 1 .. Len(saves) : Readable(saves[j].data))'
      /\ store \in Seq(Nat) /\ (~overlapped => i = 1 /\ store = <<>>)
  BY <1>1, SaveGone
<1>3. PICK bytes \in Seq(Nat) : bytes = saves[i].data
  BY <1>2 DEF Saved
<1>4. store' = Overlay(store, bytes) /\ store' \in Seq(Nat) /\ store' # Absent
  BY <1>1, <1>2, <1>3, OverlayCells, ManagerAssumption
<1>5. Types'
  BY <1>1, <1>2, <1>4 DEF Invs, Types
<1>6. FileInv'
  <2>1. ~overlapped' => \A j \in 1 .. Len(saves') : saves'[j].opened => FALSE
    <3>1. SUFFICES ASSUME ~overlapped, NEW j \in 1 .. Len(saves'), saves'[j].opened PROVE FALSE
      BY <1>1
    <3>2. ~(j < i) /\ saves[j + 1].opened /\ j + 1 \in 1 .. Len(saves)
      BY <1>2, <3>1
    <3>3. j + 1 = 1
      BY <3>1, <3>2 DEF Invs, FileInv
    <3>4. QED
      BY <3>3, <1>2
  <2>2. ~cutShort => Readable(store')
    BY <1>2, <1>3, <1>4, OverlayReadable, ManagerAssumption DEF Invs, FileInv
  <2>3. (~cutShort => (store # Absent => Readable(store)) /\ status # "refused")'
    BY <1>1, <1>2, <2>2 DEF Readable
  <2>4. (status \in {"down", "refused"} => saves = <<>> /\ inbox = <<>>)'
    BY <1>1, <1>2
  <2>5. QED
    BY <1>2, <1>4, <2>1, <2>3, <2>4 DEF FileInv
<1>7. GivenInv'
  <2>1. ASSUME NEW j \in 1 .. Len(inbox'), inbox'[j].kind = "LinkKeyNotification",
               NEW b, b = inbox'[j].device, NEW l, l = inbox'[j].key
        PROVE  Given(b, l)'
    BY <1>1, <2>1, GivenFrame DEF Invs, GivenInv
  <2>2. (\A j \in 1 .. Len(inbox) :
             inbox[j].kind = "LinkKeyNotification" => Given(inbox[j].device, inbox[j].key))'
    BY <2>1
  <2>3. ASSUME ~(overlapped /\ cutShort)
        PROVE  /\ \A b \in Devices : table[b] = NoKey \/ Given(b, table[b])
               /\ Aligned(Overlay(store, bytes))
               /\ \A j \in 1 .. Len(saves') : Aligned(saves'[j].data)
    <3>1. \A j \in 1 .. Len(saves') : Aligned(saves'[j].data)
      BY <1>2, <2>3 DEF Invs, GivenInv
    <3>2. Aligned(bytes) /\ Aligned(store)
      BY <1>2, <1>3, <2>3, ManagerAssumption DEF Invs, GivenInv
    <3>3. Aligned(Overlay(store, bytes))
      BY <1>2, <1>3, <3>2, OverlayGiven
    <3>4. QED
      BY <2>3, <3>1, <3>3 DEF Invs, GivenInv
  <2>4. ASSUME ~(overlapped' /\ cutShort')
        PROVE  (/\ \A b \in Devices : table[b] = NoKey \/ Given(b, table[b])
                /\ store # Absent => Aligned(store)
                /\ \A j \in 1 .. Len(saves) : Aligned(saves[j].data))'
    <3>1. PICK cells : cells = Overlay(store, bytes)
      OBVIOUS
    <3>2. /\ \A b \in Devices : table[b] = NoKey \/ Given(b, table[b])
          /\ Aligned(cells)
          /\ \A j \in 1 .. Len(saves') : Aligned(saves'[j].data)
      BY <1>1, <2>3, <2>4, <3>1
    <3>3. store' = cells
      BY <1>4, <3>1
    <3>4. QED
      BY <1>1, <3>2, <3>3 DEF Given, Aligned
  <2>5. QED
    BY <2>2, <2>4 DEF GivenInv
<1>8. LastInv'
  <2> SUFFICES ASSUME ~overlapped, ~cutShort PROVE LastInv'
    BY <1>1 DEF LastInv
  <2>1. i = 1 /\ store' = bytes
    BY <1>2, <1>3, <1>4, OverlayEmpty
  <2>2. /\ \A d \in Devices : BringsTo(Len(inbox) + 1, d, LastKey(d))
        /\ \A j \in 1 .. Len(inbox) :
               inbox[j].kind = "LinkKeyRequest" => BringsTo(j, inbox[j].device, inbox[j].expects)
        /\ saves[Len(saves)].data = Snapshot(table)
    BY <1>2 DEF Invs, LastInv
  <2>3. /\ (\A d \in Devices : BringsTo(Len(inbox) + 1, d, LastKey(d)))'
        /\ (\A j \in 1 .. Len(inbox) :
               inbox[j].kind = "LinkKeyRequest" => BringsTo(j, inbox[j].device, inbox[j].expects))'
    BY <1>1, <2>2 DEF BringsTo, IsKey, LastKey
  <2>4. ASSUME saves' = <<>> PROVE store' = Snapshot(table)
    <3>1. Len(saves) = 1
      BY <1>2, <2>4, EmptySeq
    <3>2. QED
      BY <1>3, <2>1, <2>2, <3>1
  <2>5. ASSUME saves' # <<>> PROVE saves'[Len(saves')].data = Snapshot(table)
    <3>1. Len(saves') \in 1 .. Len(saves') /\ Len(saves') + 1 = Len(saves)
      BY <1>2, <2>5, EmptySeq
    <3>2. saves'[Len(saves')] = saves[Len(saves)]
      BY <1>2, <2>1, <3>1
    <3>3. QED
      BY <2>2, <3>2
  <2>6. (saves = <<>> => Holds(table))' /\ (saves # <<>> => saves[Len(saves)].data = Snapshot(table))'
    BY <1>1, <2>4, <2>5 DEF Holds
  <2>7. QED
    BY <1>1, <1>2, <2>3, <2>6 DEF LastInv
<1>9. QED
  BY <1>5, <1>6, <1>7, <1>8 DEF Invs

\* What is left when a write is cut short.
LEMMA CutGiven ==
  ASSUME NEW old \in Seq(Nat), old = <<>>, NEW bytes \in Seq(Nat), NEW n \in 0 .. Len(bytes), Aligned(bytes)
  PROVE  Aligned(Overlay(old, SubSeq(bytes, 1, n)))
<1>1. PICK part : part = SubSeq(bytes, 1, n)
  OBVIOUS
<1>2. part \in Seq(Nat) /\ Aligned(part)
  BY <1>1, PrefixGiven
<1>3. Overlay(<<>>, part) = part
  BY <1>2, OverlayEmpty
<1>4. QED
  BY <1>1, <1>2, <1>3

\* A crash or a full disk takes one from the budget.
LEMMA CrashSpent ==
  ASSUME Types, budget.crashes > 0, budget' = [budget EXCEPT !.crashes = @ - 1]
  PROVE  budget' \in [keys : 0 .. MaxKeys, requests : 0 .. MaxRequests, crashes : 0 .. MaxCrashes]
<1>1. budget \in [keys : 0 .. MaxKeys, requests : 0 .. MaxRequests, crashes : 0 .. MaxCrashes]
  BY DEF Types
<1>2. budget.crashes - 1 \in 0 .. MaxCrashes
  BY <1>1, ManagerAssumption
<1>3. QED
  BY <1>1, <1>2

LEMMA SaveFailsKeeps == ASSUME Invs, SaveFails PROVE Invs'
<1>1. PICK i \in DOMAIN saves :
        /\ budget.crashes > 0
        /\ saves' = RemoveAt(saves, i)
        /\ IF saves[i].opened
              THEN \E n \in 0 .. Len(saves[i].data) :
                       store' = Overlay(store, SubSeq(saves[i].data, 1, n))
              ELSE store' = store
        /\ cutShort' = TRUE
        /\ budget' = [budget EXCEPT !.crashes = @ - 1]
        /\ UNCHANGED <<status, table, inbox, answer, notified, overlapped>>
  BY DEF SaveFails
<1>2. /\ saves \in Seq(Saved) /\ i \in 1 .. Len(saves) /\ saves[i] \in Saved /\ Readable(saves[i].data)
      /\ status \in {"up", "panicked"} /\ saves # <<>>
      /\ saves' \in Seq(Saved) /\ Len(saves) \in Nat /\ Len(saves') = Len(saves) - 1
      /\ \A j \in 1 .. Len(saves') :
             /\ j < i => j \in 1 .. Len(saves) /\ saves'[j] = saves[j]
             /\ ~(j < i) => j + 1 \in 1 .. Len(saves) /\ saves'[j] = saves[j + 1]
      /\ (\A j \in 1 .. Len(saves) : Readable(saves[j].data))'
      /\ saves[i].opened => store \in Seq(Nat) /\ (~overlapped => i = 1 /\ store = <<>>)
  BY <1>1, SaveGone
<1>3. PICK bytes \in Seq(Nat) : bytes = saves[i].data
  BY <1>2 DEF Saved
<1>4. \/ ~saves[i].opened /\ store' = store
      \/ /\ saves[i].opened
         /\ \E n \in 0 .. Len(bytes) : store' = Overlay(store, SubSeq(bytes, 1, n))
  BY <1>1, <1>3
<1>5. saves[i].opened => store' \in Seq(Nat) /\ store' # Absent
  <2>1. SUFFICES ASSUME saves[i].opened, NEW n \in 0 .. Len(bytes),
                        store' = Overlay(store, SubSeq(bytes, 1, n))
                 PROVE  store' \in Seq(Nat)
    BY <1>4, ManagerAssumption
  <2>2. SubSeq(bytes, 1, n) \in Seq(Nat)
    BY PrefixGiven
  <2>3. QED
    BY <1>2, <2>1, <2>2, OverlayCells
<1>6. Types'
  <2>1. (store = Absent \/ store \in Seq(Nat))'
    BY <1>4, <1>5 DEF Invs, Types
  <2>2. budget' \in [keys : 0 .. MaxKeys, requests : 0 .. MaxRequests, crashes : 0 .. MaxCrashes]
    BY <1>1, CrashSpent DEF Invs
  <2>3. QED
    BY <1>1, <1>2, <2>1, <2>2 DEF Invs, Types
<1>7. FileInv'
  <2>1. ASSUME NEW j \in 1 .. Len(saves'), saves'[j].opened
        PROVE  /\ store' # Absent
               /\ ~overlapped => j = 1 /\ store' = <<>>
    <3>1. PICK k \in 1 .. Len(saves) : saves'[j] = saves[k] /\ k = IF j < i THEN j ELSE j + 1
      BY <1>2
    <3>2. saves[k].opened
      BY <2>1, <3>1
    <3>3. store # Absent /\ (~overlapped => k = 1 /\ store = <<>>)
      BY <3>2 DEF Invs, FileInv
    <3>4. CASE saves[i].opened
      <4>1. overlapped
        <5>1. SUFFICES ASSUME ~overlapped PROVE FALSE
          OBVIOUS
        <5>2. i = 1 /\ k = 1
          BY <1>2, <3>3, <3>4, <5>1
        <5>3. QED
          BY <3>1, <5>2
      <4>2. QED
        BY <1>5, <3>4, <4>1
    <3>5. CASE ~saves[i].opened
      <4>1. store' = store
        BY <1>4, <3>5
      <4>2. k = 1 => j = 1
        BY <3>1
      <4>3. QED
        BY <3>3, <4>1, <4>2
    <3>6. QED
      BY <3>4, <3>5
  <2>2. (\A j \in 1 .. Len(saves) : saves[j].opened => store # Absent)'
        /\ (~overlapped => \A j \in 1 .. Len(saves) : saves[j].opened => j = 1 /\ store = <<>>)'
    BY <1>1, <2>1
  <2>3. (~cutShort => (store # Absent => Readable(store)) /\ status # "refused")'
    BY <1>1
  <2>4. (status \in {"down", "refused"} => saves = <<>> /\ inbox = <<>>)'
    BY <1>1, <1>2
  <2>5. QED
    BY <1>2, <2>2, <2>3, <2>4 DEF FileInv
<1>8. GivenInv'
  <2>1. ASSUME NEW j \in 1 .. Len(inbox'), inbox'[j].kind = "LinkKeyNotification",
               NEW b, b = inbox'[j].device, NEW l, l = inbox'[j].key
        PROVE  Given(b, l)'
    BY <1>1, <2>1, GivenFrame DEF Invs, GivenInv
  <2>2. (\A j \in 1 .. Len(inbox) :
             inbox[j].kind = "LinkKeyNotification" => Given(inbox[j].device, inbox[j].key))'
    BY <2>1
  <2>3. PICK cells : cells = store'
    OBVIOUS
  <2>4. ASSUME ~overlapped
        PROVE  /\ \A b \in Devices : table[b] = NoKey \/ Given(b, table[b])
               /\ cells # Absent => Aligned(cells)
               /\ \A j \in 1 .. Len(saves') : Aligned(saves'[j].data)
    <3>1. \A j \in 1 .. Len(saves') : Aligned(saves'[j].data)
      BY <1>2, <2>4 DEF Invs, GivenInv
    <3>2. CASE ~saves[i].opened
      BY <1>4, <2>3, <2>4, <3>1, <3>2 DEF Invs, GivenInv
    <3>3. CASE saves[i].opened
      <4>1. PICK n \in 0 .. Len(bytes) : cells = Overlay(store, SubSeq(bytes, 1, n))
        BY <1>4, <2>3, <3>3
      <4>2. Aligned(bytes)
        BY <1>2, <1>3, <2>4 DEF Invs, GivenInv
      <4>3. Aligned(cells)
        BY <1>2, <2>4, <3>3, <4>1, <4>2, CutGiven
      <4>4. QED
        BY <2>4, <3>1, <4>3 DEF Invs, GivenInv
    <3>4. QED
      BY <3>2, <3>3
  <2>5. ASSUME ~(overlapped' /\ cutShort')
        PROVE  (/\ \A b \in Devices : table[b] = NoKey \/ Given(b, table[b])
                /\ store # Absent => Aligned(store)
                /\ \A j \in 1 .. Len(saves) : Aligned(saves[j].data))'
    <3>1. /\ \A b \in Devices : table[b] = NoKey \/ Given(b, table[b])
          /\ cells # Absent => Aligned(cells)
          /\ \A j \in 1 .. Len(saves') : Aligned(saves'[j].data)
      BY <1>1, <2>4, <2>5
    <3>2. QED
      BY <1>1, <2>3, <3>1 DEF Given, Aligned
  <2>6. QED
    BY <2>2, <2>5 DEF GivenInv
<1>9. LastInv'
  BY <1>1 DEF LastInv
<1>10. QED
  BY <1>6, <1>7, <1>8, <1>9 DEF Invs

-----------------------------------------------------------------------------
(* The process dies, and is started again. *)
LEMMA CrashKeeps == ASSUME Invs, Crash PROVE Invs'
<1>1. /\ status \in {"up", "panicked"} /\ status' = "down"
      /\ table' = Unknown /\ saves' = <<>> /\ inbox' = <<>>
      /\ cutShort' = (cutShort \/ saves # <<>>
                        \/ \E i \in DOMAIN inbox : inbox[i].kind = "LinkKeyNotification")
      /\ UNCHANGED <<notified, overlapped>>
  BY DEF Crash
<1>2. /\ <<>> \in Seq(Saved) /\ <<>> \in Seq(ManagerEvent) /\ Len(<<>>) = 0
      /\ 1 .. Len(inbox) = DOMAIN inbox /\ Len(inbox) \in Nat
      /\ saves \in Seq(Saved) /\ DOMAIN saves = 1 .. Len(saves)
      /\ Unknown \in [Devices -> Nat] /\ \A d \in Devices : Unknown[d] = NoKey
  BY EmptySeq, LenProperties DEF Invs, Types, Unknown, NoKey
<1>3. \/ store' = store
      \/ \E i \in 1 .. Len(saves) : \E n \in 0 .. Len(saves[i].data) :
             saves[i].opened /\ store' = Overlay(store, SubSeq(saves[i].data, 1, n))
  BY <1>2 DEF Crash
<1>4. ASSUME store' # store
      PROVE  /\ saves # <<>> /\ store' \in Seq(Nat)
             /\ ~overlapped => Aligned(store')
  <2>1. PICK i \in 1 .. Len(saves) : \E n \in 0 .. Len(saves[i].data) :
               saves[i].opened /\ store' = Overlay(store, SubSeq(saves[i].data, 1, n))
    BY <1>3, <1>4
  <2>2. PICK n \in 0 .. Len(saves[i].data) :
               saves[i].opened /\ store' = Overlay(store, SubSeq(saves[i].data, 1, n))
    BY <2>1
  <2>3. saves # <<>>
    BY <1>2
  <2>4. PICK bytes \in Seq(Nat) : bytes = saves[i].data
    <3>1. saves[i] \in Saved
      BY <1>2, ElementOfSeq
    <3>2. QED
      BY <3>1 DEF Saved
  <2>5. n \in 0 .. Len(bytes) /\ store' = Overlay(store, SubSeq(bytes, 1, n))
    BY <2>2, <2>4
  <2>6. store \in Seq(Nat) /\ (~overlapped => store = <<>>)
    BY <2>2 DEF Invs, Types, FileInv
  <2>7. SubSeq(bytes, 1, n) \in Seq(Nat)
    BY <2>5, PrefixGiven
  <2>8. store' \in Seq(Nat)
    BY <2>5, <2>6, <2>7, OverlayCells
  <2>9. ASSUME ~overlapped PROVE Aligned(store')
    <3>1. Aligned(bytes)
      BY <2>4, <2>9 DEF Invs, GivenInv
    <3>2. Aligned(Overlay(store, SubSeq(bytes, 1, n)))
      BY <2>5, <2>6, <2>9, <3>1, CutGiven
    <3>3. QED
      BY <2>5, <3>2
  <2>10. QED
    BY <2>3, <2>8, <2>9
<1>5. Types'
  <2>1. cutShort' \in BOOLEAN
    BY <1>1
  <2>2. (store = Absent \/ store \in Seq(Nat))'
    BY <1>4 DEF Invs, Types
  <2>3. budget' \in [keys : 0 .. MaxKeys, requests : 0 .. MaxRequests, crashes : 0 .. MaxCrashes]
    BY CrashSpent DEF Invs, Crash
  <2>4. QED
    BY <1>1, <1>2, <2>1, <2>2, <2>3 DEF Invs, Types
<1>6. FileInv'
  <2>1. ASSUME ~cutShort' PROVE (store # Absent => Readable(store))'
    BY <1>1, <1>4, <2>1 DEF Invs, FileInv, Readable
  <2>2. QED
    BY <1>1, <1>2, <2>1 DEF FileInv
<1>7. GivenInv'
  <2>1. PICK cells : cells = store'
    OBVIOUS
  <2>2. ASSUME ~(overlapped' /\ cutShort')
        PROVE  cells # Absent => Aligned(cells)
    <3>1. CASE store' = store
      BY <1>1, <2>1, <2>2, <3>1 DEF Invs, GivenInv
    <3>2. CASE store' # store
      BY <1>1, <1>4, <2>1, <2>2, <3>2
    <3>3. QED
      BY <3>1, <3>2
  <2>3. ASSUME ~(overlapped' /\ cutShort')
        PROVE  (store # Absent => Aligned(store))'
    BY <1>1, <2>1, <2>2, <2>3 DEF Aligned, Given
  <2>4. QED
    BY <1>1, <1>2, <2>3 DEF GivenInv
<1>8. LastInv'
  <2> SUFFICES ASSUME ~overlapped', ~cutShort' PROVE Holds(LastKeys)'
    BY <1>1 DEF LastInv
  <2>1. /\ ~overlapped /\ ~cutShort /\ saves = <<>> /\ store' = store
        /\ \A i \in 1 .. Len(inbox) : inbox[i].kind # "LinkKeyNotification"
    BY <1>1, <1>2, <1>4
  <2>2. \A d \in Devices : table[d] = LastKey(d)
    <3>1. SUFFICES ASSUME NEW d \in Devices PROVE table[d] = LastKey(d)
      OBVIOUS
    <3>2. BringsTo(Len(inbox) + 1, d, LastKey(d))
      BY <1>1, <2>1 DEF Invs, LastInv
    <3>3. QED
      BY <2>1, <3>2 DEF BringsTo, IsKey
  <2>3. table = LastKeys
    BY <2>2 DEF LastKeys, Invs, Types
  <2>4. PICK t : t = LastKeys
    OBVIOUS
  <2>5. Holds(t)
    BY <1>1, <2>1, <2>3, <2>4 DEF Invs, LastInv
  <2>6. LastKeys' = t
    BY <1>1, <2>4 DEF LastKeys, LastKey
  <2>7. QED
    BY <2>1, <2>5, <2>6 DEF Holds
<1>9. QED
  BY <1>5, <1>6, <1>7, <1>8 DEF Invs

LEMMA StartKeeps == ASSUME Invs, Start PROVE Invs'
<1>1. /\ status = "down" /\ saves = <<>> /\ inbox = <<>>
      /\ UNCHANGED <<store, saves, inbox, answer, notified, overlapped, cutShort, budget>>
  BY DEF Start, Invs, FileInv
<1>2. \/ /\ store = Absent /\ status' = "up" /\ table' = Unknown
      \/ /\ store # Absent /\ Readable(store) /\ status' = "up" /\ table' = Load(store)
      \/ /\ store # Absent /\ ~Readable(store) /\ status' = "refused" /\ table' = table
  BY DEF Start
<1>3. Len(<<>>) = 0 /\ <<>> \in Seq(Saved)
  BY EmptySeq
<1>4. Unknown \in [Devices -> Nat] /\ \A d \in Devices : Unknown[d] = NoKey
  BY DEF Unknown, NoKey
<1>5. store # Absent => store \in Seq(Nat)
  BY DEF Invs, Types
<1>6. Types'
  <2>1. table' \in [Devices -> Nat] /\ status' \in {"up", "down", "refused", "panicked"}
    BY <1>2, <1>4, <1>5, LoadType DEF Invs, Types
  <2>2. QED
    BY <1>1, <2>1 DEF Invs, Types
<1>7. FileInv'
  <2>1. ASSUME ~cutShort PROVE (store # Absent => Readable(store)) /\ status' # "refused"
    BY <1>2, <2>1 DEF Invs, FileInv
  <2>2. (~cutShort => (store # Absent => Readable(store)) /\ status # "refused")'
    BY <1>1, <2>1 DEF Readable
  <2>3. QED
    BY <1>1, <1>3, <2>2 DEF FileInv
<1>8. GivenInv'
  <2>1. ASSUME ~(overlapped /\ cutShort), NEW d \in Devices, NEW k, k = table'[d]
        PROVE  k = NoKey \/ Given(d, k)
    <3>1. CASE store = Absent
      BY <1>2, <1>4, <2>1, <3>1
    <3>2. CASE store # Absent /\ Readable(store)
      <4>1. Aligned(store) /\ store \in Seq(Nat)
        BY <1>5, <2>1, <3>2 DEF Invs, GivenInv
      <4>2. k = Load(store)[d]
        BY <1>2, <2>1, <3>2
      <4>3. QED
        BY <4>1, <4>2, LoadGiven
    <3>3. CASE store # Absent /\ ~Readable(store)
      BY <1>2, <2>1, <3>3 DEF Invs, GivenInv
    <3>4. QED
      BY <3>1, <3>2, <3>3
  <2>2. ASSUME ~(overlapped /\ cutShort)
        PROVE  (\A d \in Devices : table[d] = NoKey \/ Given(d, table[d]))'
    <3>1. SUFFICES ASSUME NEW d \in Devices PROVE (table[d] = NoKey \/ Given(d, table[d]))'
      OBVIOUS
    <3>2. PICK k : k = table'[d]
      OBVIOUS
    <3>3. k = NoKey \/ Given(d, k)'
      BY <1>1, <2>1, <2>2, <3>2, GivenFrame
    <3>4. QED
      BY <3>2, <3>3
  <2>3. ASSUME ~(overlapped /\ cutShort) PROVE (store # Absent => Aligned(store))'
    BY <1>1, <2>3 DEF Invs, GivenInv, Aligned, Given
  <2>4. QED
    BY <1>1, <1>3, <2>2, <2>3 DEF GivenInv
<1>9. LastInv'
  <2> SUFFICES ASSUME ~overlapped, ~cutShort PROVE LastInv'
    BY <1>1 DEF LastInv
  <2>1. Holds(LastKeys) /\ status' = "up"
    BY <1>1, <1>2 DEF Invs, LastInv, FileInv
  <2>2. LastKeys \in [Devices -> Nat] /\ \A d \in Devices : LastKeys[d] = LastKey(d) /\ LastKey(d)' = LastKey(d)
    <3>1. \A d \in Devices : LastKey(d) \in Nat
      BY LastKeyType DEF Invs
    <3>2. QED
      BY <1>1, <3>1 DEF LastKeys, LastKey
  <2>3. table' = LastKeys /\ Holds(LastKeys)'
    <3>1. PICK t \in [Devices -> Nat] : t = LastKeys
      BY <2>2
    <3>2. table' = t
      <4>1. CASE store = Absent
        <5>1. Snapshot(t) # Absent
          BY SnapshotCells, ManagerAssumption
        <5>2. QED
          BY <1>2, <2>1, <3>1, <4>1, <5>1 DEF Holds
      <4>2. CASE store # Absent
        <5>1. store = Snapshot(t)
          BY <2>1, <3>1, <4>2 DEF Holds
        <5>2. QED
          BY <1>2, <4>2, <5>1, LoadSnapshot, SnapshotCells
      <4>3. QED
        BY <4>1, <4>2
    <3>3. LastKeys' = t
      BY <1>1, <3>1 DEF LastKeys, LastKey
    <3>4. QED
      BY <1>1, <2>1, <3>1, <3>2, <3>3 DEF Holds
  <2>4. (\A d \in Devices : BringsTo(Len(inbox) + 1, d, LastKey(d)))'
    <3>1. \A d \in Devices : table'[d] = LastKey(d)'
      BY <2>2, <2>3
    <3>2. QED
      BY <1>1, <1>3, <3>1 DEF BringsTo
  <2>5. Holds(table)'
    <3>1. PICK t : t = LastKeys
      OBVIOUS
    <3>2. Holds(t)
      BY <2>1, <3>1
    <3>3. QED
      BY <1>1, <2>3, <3>1, <3>2 DEF Holds
  <2>6. QED
    BY <1>1, <1>3, <2>1, <2>4, <2>5 DEF LastInv
<1>10. QED
  BY <1>6, <1>7, <1>8, <1>9 DEF Invs

-----------------------------------------------------------------------------
(* The answer: until the controller asks again it is what was known then,  *)
(* and the keys that were given only grow.                                 *)
KeyAnswers == {"link_key_present", "link_key_not_present"}

AnswerInv == answer.kind \in KeyAnswers =>
    /\ answer.event.device \in Devices
    /\ ~overlapped /\ ~cutShort => answer.key = answer.event.expects
    /\ ~(overlapped /\ cutShort) => answer.key = NoKey \/ Given(answer.event.device, answer.key)

LEMMA AnswerKept ==
  ASSUME AnswerInv, UNCHANGED answer, overlapped => overlapped', cutShort => cutShort',
         \A d \in Devices : \A k : Given(d, k) => Given(d, k)'
  PROVE  AnswerInv'
<1>1. SUFFICES ASSUME answer.kind \in KeyAnswers
               PROVE  (/\ answer.event.device \in Devices
                       /\ ~overlapped /\ ~cutShort => answer.key = answer.event.expects
                       /\ ~(overlapped /\ cutShort) => answer.key = NoKey \/ Given(answer.event.device, answer.key))'
  BY DEF AnswerInv
<1>2. PICK d : d = answer.event.device
  OBVIOUS
<1>3. PICK k : k = answer.key
  OBVIOUS
<1>4. /\ d \in Devices
      /\ ~overlapped /\ ~cutShort => k = answer.event.expects
      /\ ~(overlapped /\ cutShort) => k = NoKey \/ Given(d, k)
  BY <1>1, <1>2, <1>3 DEF AnswerInv
<1>5. ~(overlapped' /\ cutShort') => k = NoKey \/ Given(d, k)'
  BY <1>4
<1>6. QED
  BY <1>2, <1>3, <1>4, <1>5 DEF Given

LEMMA NoAnswerKept == ASSUME answer' = NoAnswer PROVE AnswerInv'
BY DEF AnswerInv, NoAnswer, KeyAnswers

LEMMA LinkKeyRequestAnswers == ASSUME Invs, LinkKeyRequest PROVE AnswerInv'
<1>1. Taken /\ status = "up" /\ inbox[1].kind = "LinkKeyRequest"
  BY Taking DEF LinkKeyRequest, Invs
<1>2. PICK e \in ManagerEvent : e = inbox[1] /\ e = Head(inbox)
  BY <1>1 DEF Taken
<1>3. PICK d \in Devices : \E k : d = e.device /\ k = table[d]
  BY <1>2, EventFields
<1>4. PICK k : d = e.device /\ k = table[d]
  BY <1>3
<1>5. /\ answer'.event = e /\ answer'.key = k
      /\ UNCHANGED <<notified, overlapped, cutShort>>
  BY <1>2, <1>4 DEF LinkKeyRequest
<1>6. ~overlapped /\ ~cutShort => k = e.expects
  <2>1. SUFFICES ASSUME ~overlapped, ~cutShort PROVE k = e.expects
    OBVIOUS
  <2>2. 1 \in 1 .. Len(inbox) /\ BringsTo(1, d, e.expects)
    BY <1>1, <1>2, <1>4, <2>1 DEF Invs, LastInv, Taken
  <2>3. QED
    BY <1>4, <2>2 DEF BringsTo
<1>7. ~(overlapped /\ cutShort) => k = NoKey \/ Given(d, k)
  BY <1>4 DEF Invs, GivenInv
<1>8. ~(overlapped /\ cutShort) => k = NoKey \/ Given(d, k)'
  BY <1>5, <1>7, GivenFrame
<1>9. QED
  BY <1>4, <1>5, <1>6, <1>8 DEF AnswerInv, Given

LEMMA AnsweredAnswers == ASSUME Invs, AnswerInv, Answered PROVE AnswerInv'
<1>1. CASE LinkKeyRequest
  BY <1>1, LinkKeyRequestAnswers
<1>2. CASE ConnectionRequest
  <2>1. answer' = NoAnswer \/ answer'.kind = "accept_connection_request"
    BY <1>2 DEF ConnectionRequest, Reply
  <2>2. QED
    BY <2>1, NoAnswerKept DEF AnswerInv, KeyAnswers
<1>3. CASE PairingRequest
  <2>1. PICK kind \in {"PinCodeRequest", "IoCapabilityRequest", "UserConfirmationRequest"} :
          Reply(PairingReply[kind], Head(inbox))
    BY <1>3 DEF PairingRequest, PairingReply
  <2>2. answer'.kind \in {"pin_code_request_reply", "io_capability_reply", "user_confirmation_request_accept"}
    BY <2>1 DEF Reply, PairingReply
  <2>3. QED
    BY <2>2 DEF AnswerInv, KeyAnswers
<1>4. CASE Ignored \/ PasskeyPanics
  BY <1>4, NoAnswerKept DEF Ignored, PasskeyPanics
<1>5. QED
  BY <1>1, <1>2, <1>3, <1>4 DEF Answered

LEMMA NextAnswers == ASSUME Invs, AnswerInv, [ManagerNext]_managerVars PROVE AnswerInv'
<1>1. CASE PostKey
  <2>1. PICK d \in Devices : notified' = [notified EXCEPT ![d] = Append(@, NewKey)]
    BY <1>1 DEF PostKey
  <2>2. PICK s : s = Append(notified[d], NewKey)
    OBVIOUS
  <2>3. notified' = [notified EXCEPT ![d] = s] /\ notified \in [Devices -> Seq(Keys)]
    BY <2>1, <2>2 DEF Invs, Types
  <2>4. \A b \in Devices : notified'[b] = IF b = d THEN s ELSE notified[b]
    BY <2>3
  <2>5. \A i \in 1 .. Len(notified[d]) : i \in 1 .. Len(s) /\ s[i] = notified[d][i]
    <3>1. PICK k \in Keys : k = NewKey
      <4>1. budget.keys \in 1 .. MaxKeys
        BY <1>1 DEF PostKey, Invs, Types
      <4>2. QED
        BY <4>1, ManagerAssumption DEF NewKey, Keys, NoKey
    <3>2. notified[d] \in Seq(Keys) /\ s = Append(notified[d], k)
      BY <2>2, <2>3, <3>1
    <3>3. QED
      BY <3>2, AppendProperties, LenProperties
  <2>6. ASSUME NEW b \in Devices, NEW l, Given(b, l) PROVE Given(b, l)'
    BY <2>4, <2>5, <2>6 DEF Given, Contains
  <2>7. UNCHANGED <<answer, overlapped, cutShort>>
    BY <1>1 DEF PostKey
  <2>8. QED
    BY <2>6, <2>7, AnswerKept
<1>2. CASE PostQuestion
  BY <1>2, AnswerKept, GivenFrame DEF PostQuestion
<1>3. CASE LinkKeyNotification
  BY <1>3, NoAnswerKept DEF LinkKeyNotification
<1>4. CASE Answered
  BY <1>4, AnsweredAnswers
<1>5. CASE SaveOpens
  <2>1. /\ UNCHANGED <<answer, notified, cutShort>>
        /\ \E X \in BOOLEAN : overlapped' = (overlapped \/ X)
    <3>1. PICK i \in DOMAIN saves :
            /\ UNCHANGED <<answer, notified, cutShort>>
            /\ overlapped' = (overlapped \/ \E j \in DOMAIN saves : j # i /\ (j < i \/ saves[j].opened))
      BY <1>5 DEF SaveOpens
    <3>2. QED
      BY <3>1
  <2>2. overlapped => overlapped'
    BY <2>1
  <2>3. QED
    BY <2>1, <2>2, AnswerKept, GivenFrame
<1>6. CASE SaveWrites
  BY <1>6, AnswerKept, GivenFrame DEF SaveWrites
<1>7. CASE SaveFails
  BY <1>7, AnswerKept, GivenFrame DEF SaveFails
<1>8. CASE Crash
  BY <1>8, NoAnswerKept DEF Crash
<1>9. CASE Start
  BY <1>9, AnswerKept, GivenFrame DEF Start
<1>10. CASE UNCHANGED managerVars
  BY <1>10, AnswerKept, GivenFrame DEF managerVars
<1>11. QED
  BY <1>1, <1>2, <1>3, <1>4, <1>5, <1>6, <1>7, <1>8, <1>9, <1>10 DEF ManagerNext, Answered

-----------------------------------------------------------------------------
(* The invariant. *)
LEMMA InitInvs == ASSUME ManagerInit PROVE Invs /\ AnswerInv
<1>1. /\ <<>> \in Seq(Saved) /\ <<>> \in Seq(ManagerEvent) /\ <<>> \in Seq(Keys) /\ Len(<<>>) = 0
      /\ Unknown \in [Devices -> Nat] /\ \A d \in Devices : Unknown[d] = NoKey
  BY EmptySeq DEF Unknown, NoKey
<1>2. budget \in [keys : 0 .. MaxKeys, requests : 0 .. MaxRequests, crashes : 0 .. MaxCrashes]
  BY ManagerAssumption DEF ManagerInit
<1>3. Types
  BY <1>1, <1>2 DEF ManagerInit, Types
<1>4. FileInv
  BY <1>1 DEF ManagerInit, FileInv
<1>5. GivenInv
  BY <1>1 DEF ManagerInit, GivenInv
<1>6. LastInv
  <2>1. \A d \in Devices : LastKey(d) = NoKey
    BY DEF ManagerInit, LastKey
  <2>2. LastKeys = Unknown
    BY <2>1 DEF LastKeys, Unknown
  <2>3. QED
    BY <2>2 DEF ManagerInit, LastInv, Holds
<1>7. AnswerInv
  BY DEF ManagerInit, AnswerInv, NoAnswer, KeyAnswers
<1>8. QED
  BY <1>3, <1>4, <1>5, <1>6, <1>7 DEF Invs

LEMMA StutterKeeps == ASSUME Invs, UNCHANGED managerVars PROVE Invs'
<1>1. Types'
  BY DEF managerVars, Invs, Types
<1>2. FileInv'
  BY DEF managerVars, Invs, FileInv, Readable
<1>3. GivenInv'
  BY GivenKept DEF managerVars, Invs
<1>4. LastInv'
  BY DEF managerVars, Invs, LastInv, BringsTo, IsKey, LastKey, Holds, LastKeys
<1>5. QED
  BY <1>1, <1>2, <1>3, <1>4 DEF Invs

LEMMA NextInvs == ASSUME Invs, [ManagerNext]_managerVars PROVE Invs'
<1>1. CASE PostKey
  BY <1>1, PostKeyKeeps
<1>2. CASE PostQuestion
  BY <1>2, PostQuestionKeeps
<1>3. CASE LinkKeyNotification
  BY <1>3, LinkKeyNotificationKeeps
<1>4. CASE Answered
  BY <1>4, AnsweredKeeps
<1>5. CASE SaveOpens
  BY <1>5, SaveOpensKeeps
<1>6. CASE SaveWrites
  BY <1>6, SaveWritesKeeps
<1>7. CASE SaveFails
  BY <1>7, SaveFailsKeeps
<1>8. CASE Crash
  BY <1>8, CrashKeeps
<1>9. CASE Start
  BY <1>9, StartKeeps
<1>10. CASE UNCHANGED managerVars
  BY <1>10, StutterKeeps
<1>11. QED
  BY <1>1, <1>2, <1>3, <1>4, <1>5, <1>6, <1>7, <1>8, <1>9, <1>10 DEF ManagerNext, Answered

\* What is saved, read and answered are keys the device was given, in the
\* order they were given, whatever the sizes (connection.rs:108-122, 155-174).
THEOREM KeysOnTheirWay == ManagerSpec => []Invs
<1>1. ManagerInit => Invs
  BY InitInvs
<1>2. Invs /\ [ManagerNext]_managerVars => Invs'
  BY NextInvs
<1>3. QED
  BY <1>1, <1>2, PTL DEF ManagerSpec

\* The controller is told the key it was last given, unless saves overlapped or
\* one was cut short; never another device's, unless both; and the manager
\* starts unless a save was cut short (connection.rs:108-122, 164-174).
THEOREM LinkKeysSurvive == ManagerSpec => []KeysSurvive
<1>1. ManagerInit => AnswerInv
  BY InitInvs
<1>2. Invs /\ AnswerInv /\ [ManagerNext]_managerVars => AnswerInv'
  BY NextAnswers
<1>3. Invs /\ AnswerInv => KeysSurvive
  BY DEF KeysSurvive, AnswerInv, KeyAnswers, Given, Invs, FileInv
<1>4. QED
  BY <1>1, <1>2, <1>3, KeysOnTheirWay, PTL DEF ManagerSpec

-----------------------------------------------------------------------------
(* The L2CAP server.                                                       *)

Event == [kind : {"ConnectionComplete"}, status : {"Success", "Failed"}, handle : Handles, life : Nat]
           \union [kind : {"DisconnectionComplete"}, status : {"Success", "Failed"}, handle : Handles,
                   life : Nat]
           \union [kind : {"ModeChange"}, handle : Handles, life : Nat]

Request == [kind : {"ConnectionRequest"}, psm : Psms \union {"other"}, valid : BOOLEAN]
             \union [kind : {"Data", "DisconnectionRequest", "DisconnectionResponse"}, cid : Cids,
                     task : Nat]
             \union [kind : {"EchoRequest"}]

Received == [handle : Handles, life : Nat \ {0}, content : Request]

Task == [psm : Psms, handle : Handles, life : Nat, cid : Cids,
         state : {"configuring", "session", "ended", "rejected"},
         told : {"no", "request", "response"}]

LinkTypes ==
    /\ lives \in Nat
    /\ link \in [Handles -> Nat] /\ connections \in [Handles -> Nat]
    /\ events \in Seq(Event)

TaskTypes ==
    /\ data \in Seq(Received)
    /\ channels \in [Cids -> Nat]
    /\ tasks \in Seq(Task)

-----------------------------------------------------------------------------
(* Links: what the queue of events still has to tell the server.           *)

Opens(e) == e.kind = "ConnectionComplete" /\ e.status = "Success"
Closes(e) == e.kind = "DisconnectionComplete" /\ e.status = "Success"
Fails(e) == e.kind = "DisconnectionComplete" /\ e.status = "Failed"
Concerns(e, h) == e.handle = h /\ (Opens(e) \/ Closes(e))
Before(e) == IF Opens(e) THEN 0 ELSE e.life
Result(e) == IF Opens(e) THEN e.life ELSE 0

\* The connection of h is x, or was until its disconnection failed.
Held(h, x) == connections[h] = x \/ (connections[h] = 0 /\ x \in forgotten)

\* The first i events take the connection of h to x.
Leads(h, i, x) ==
    \/ Held(h, x) /\ \A j \in 1 .. i : ~Concerns(events[j], h)
    \/ \E j \in 1 .. i : /\ Concerns(events[j], h) /\ x = Result(events[j])
                         /\ \A k \in (j + 1) .. i : ~Concerns(events[k], h)

LinksFollow ==
    \A h \in Handles :
        /\ Leads(h, Len(events), link[h])
        /\ \A j \in 1 .. Len(events) :
               Concerns(events[j], h) => Leads(h, j - 1, Before(events[j]))

\* A disconnection that failed is the next event, of a link that is connected.
FailedFirst ==
    \A j \in 1 .. Len(events) :
        Fails(events[j]) => j = 1 /\ connections[events[j].handle] = events[j].life

LinkInv == LinkTypes /\ LinksFollow /\ FailedFirst

(* An event that applies to the link as it is joins the queue. *)
LEMMA EventAppended ==
  ASSUME LinkInv, NEW e \in Event, events' = Append(events, e), UNCHANGED <<connections, forgotten>>,
         Fails(e) => events = <<>> /\ connections[e.handle] = e.life,
         \A h \in Handles : Concerns(e, h) => link[h] = Before(e) /\ link'[h] = Result(e),
         \A h \in Handles : ~Concerns(e, h) => link'[h] = link[h]
  PROVE  events' \in Seq(Event) /\ LinksFollow' /\ FailedFirst'
<1> DEFINE n == Len(events)
<1>1. /\ events' \in Seq(Event) /\ n \in Nat /\ Len(events') = n + 1
      /\ \A i \in 1 .. n : events'[i] = events[i]
      /\ events'[n + 1] = e
  BY AppendProperties, LenProperties DEF LinkInv, LinkTypes
<1>2. ASSUME NEW h \in Handles, NEW i \in 0 .. n, NEW x, Leads(h, i, x)
      PROVE  \/ Held(h, x)' /\ (\A j \in 1 .. i : ~Concerns(events'[j], h))
             \/ \E j \in 1 .. i : /\ Concerns(events'[j], h) /\ x = Result(events'[j])
                                  /\ \A k \in (j + 1) .. i : ~Concerns(events'[k], h)
  BY <1>1, <1>2 DEF Leads, Held
<1>3. ASSUME NEW h \in Handles
      PROVE  Leads(h, Len(events), link[h])'
  <2>1. CASE Concerns(e, h)
    BY <1>1, <2>1 DEF Leads
  <2>2. CASE ~Concerns(e, h)
    <3>1. Leads(h, n, link[h]) /\ link'[h] = link[h]
      BY <2>2 DEF LinkInv, LinksFollow
    <3>2. \A j \in 1 .. (n + 1) : j \in 1 .. n \/ j = n + 1
      BY <1>1
    <3>3. PICK x : x = link[h] /\ n \in 0 .. n
      BY <1>1
    <3>4. /\ \/ Held(h, x)' /\ (\A j \in 1 .. n : ~Concerns(events'[j], h))
             \/ \E j \in 1 .. n : /\ Concerns(events'[j], h) /\ x = Result(events'[j])
                                /\ \A k \in (j + 1) .. n : ~Concerns(events'[k], h)
          /\ x = link'[h]
      BY <1>2, <3>1, <3>3
    <3>5. CASE Held(h, x)' /\ (\A j \in 1 .. n : ~Concerns(events'[j], h))
      <4>1. \A j \in 1 .. (n + 1) : ~Concerns(events'[j], h)
        BY <1>1, <2>2, <3>2, <3>5
      <4>2. QED
        BY <1>1, <3>4, <3>5, <4>1 DEF Leads
    <3>6. CASE \E j \in 1 .. n : /\ Concerns(events'[j], h) /\ x = Result(events'[j])
                                 /\ \A k \in (j + 1) .. n : ~Concerns(events'[k], h)
      <4>1. PICK j \in 1 .. n : /\ Concerns(events'[j], h) /\ x = Result(events'[j])
                                /\ \A k \in (j + 1) .. n : ~Concerns(events'[k], h)
        BY <3>6
      <4>2. \A k \in (j + 1) .. (n + 1) : ~Concerns(events'[k], h)
        BY <1>1, <2>2, <4>1
      <4>3. j \in 1 .. (n + 1)
        BY <1>1
      <4>4. QED
        BY <1>1, <3>4, <4>1, <4>2, <4>3 DEF Leads
    <3>7. QED
      BY <3>4, <3>5, <3>6
  <2>3. QED
    BY <2>1, <2>2
<1>4. ASSUME NEW h \in Handles, NEW j \in 1 .. (n + 1), Concerns(events'[j], h)
      PROVE  Leads(h, j - 1, Before(events[j]))'
  <2>1. CASE j = n + 1
    <3>1. Leads(h, n, link[h]) /\ link[h] = Before(e)
      BY <1>1, <1>4, <2>1 DEF LinkInv, LinksFollow
    <3>2. QED
      BY <1>1, <1>2, <2>1, <3>1 DEF Leads
  <2>2. CASE j \in 1 .. n
    <3>1. Leads(h, j - 1, Before(events[j])) /\ j - 1 \in 0 .. n
      BY <1>1, <1>4, <2>2 DEF LinkInv, LinksFollow
    <3>2. QED
      BY <1>1, <1>2, <2>2, <3>1 DEF Leads
  <2>3. QED
    BY <1>1, <2>1, <2>2
<1>5. FailedFirst'
  <2>1. SUFFICES ASSUME NEW j \in 1 .. (n + 1), Fails(events'[j])
                 PROVE  j = 1 /\ connections[events'[j].handle] = events'[j].life
    BY <1>1 DEF FailedFirst
  <2>2. CASE j \in 1 .. n
    BY <1>1, <2>1, <2>2 DEF LinkInv, FailedFirst
  <2>3. CASE j = n + 1
    <3>1. Fails(e) /\ events = <<>>
      BY <1>1, <2>1, <2>3
    <3>2. n = 0
      BY <3>1
    <3>3. QED
      BY <1>1, <2>3, <3>1, <3>2
  <2>4. QED
    BY <1>1, <2>2, <2>3
<1>6. QED
  BY <1>1, <1>3, <1>4, <1>5 DEF LinksFollow

(* The server applies the first event. *)
LEMMA EventTaken ==
  ASSUME LinkInv, events # <<>>, events' = Tail(events), UNCHANGED link,
         \A h \in Handles : /\ Concerns(events[1], h) => connections'[h] = Result(events[1])
                            /\ \A x : ~Concerns(events[1], h) /\ Held(h, x) => Held(h, x)'
  PROVE  events' \in Seq(Event) /\ LinksFollow' /\ FailedFirst'
<1> DEFINE n == Len(events')
<1>1. /\ events' \in Seq(Event) /\ n \in Nat /\ Len(events) = n + 1
      /\ \A i \in 1 .. n : events'[i] = events[i + 1]
  BY HeadTailProperties, LenProperties DEF LinkInv, LinkTypes
<1>2. ASSUME NEW h \in Handles, NEW i \in 0 .. n, NEW x, Leads(h, i + 1, x)
      PROVE  \/ Held(h, x)' /\ (\A j \in 1 .. i : ~Concerns(events'[j], h))
             \/ \E j \in 1 .. i : /\ Concerns(events'[j], h) /\ x = Result(events'[j])
                                  /\ \A k \in (j + 1) .. i : ~Concerns(events'[k], h)
  <2>1. CASE Held(h, x) /\ \A j \in 1 .. (i + 1) : ~Concerns(events[j], h)
    <3>1. Held(h, x)'
      <4>1. 1 \in 1 .. (i + 1)
        OBVIOUS
      <4>2. QED
        BY <2>1, <4>1
    <3>2. ASSUME NEW m \in 1 .. i PROVE ~Concerns(events'[m], h)
      <4>1. m \in 1 .. n /\ m + 1 \in 1 .. (i + 1)
        BY <1>1
      <4>2. QED
        BY <1>1, <2>1, <4>1
    <3>3. QED
      BY <3>1, <3>2
  <2>2. ASSUME NEW j \in 1 .. (i + 1), Concerns(events[j], h), x = Result(events[j]),
               \A k \in (j + 1) .. (i + 1) : ~Concerns(events[k], h)
        PROVE  \/ Held(h, x)' /\ (\A m \in 1 .. i : ~Concerns(events'[m], h))
               \/ \E m \in 1 .. i : /\ Concerns(events'[m], h) /\ x = Result(events'[m])
                                    /\ \A k \in (m + 1) .. i : ~Concerns(events'[k], h)
    <3>1. CASE j = 1
      <4>1. Held(h, x)'
        BY <2>2, <3>1 DEF Held
      <4>2. ASSUME NEW m \in 1 .. i PROVE ~Concerns(events'[m], h)
        <5>1. m \in 1 .. n /\ m + 1 \in (j + 1) .. (i + 1)
          BY <1>1, <3>1
        <5>2. QED
          BY <1>1, <2>2, <5>1
      <4>3. QED
        BY <4>1, <4>2
    <3>2. CASE j # 1
      <4>1. j - 1 \in 1 .. i /\ j - 1 \in 1 .. n /\ events'[j - 1] = events[j]
        BY <1>1, <3>2
      <4>2. ASSUME NEW k \in ((j - 1) + 1) .. i PROVE ~Concerns(events'[k], h)
        <5>1. k \in 1 .. n /\ k + 1 \in (j + 1) .. (i + 1)
          BY <1>1, <3>2
        <5>2. QED
          BY <1>1, <2>2, <5>1
      <4>3. QED
        BY <2>2, <4>1, <4>2
    <3>3. QED
      BY <3>1, <3>2
  <2>3. QED
    BY <1>2, <2>1, <2>2 DEF Leads
<1>3. ASSUME NEW h \in Handles PROVE Leads(h, Len(events), link[h])'
  <2>1. Leads(h, n + 1, link[h])
    BY <1>1 DEF LinkInv, LinksFollow
  <2>2. QED
    BY <1>1, <1>2, <2>1 DEF Leads
<1>4. ASSUME NEW h \in Handles, NEW j \in 1 .. n, Concerns(events'[j], h)
      PROVE  Leads(h, j - 1, Before(events[j]))'
  <2>1. j + 1 \in 1 .. Len(events) /\ events'[j] = events[j + 1] /\ (j + 1) - 1 = (j - 1) + 1
    BY <1>1
  <2>2. Leads(h, (j - 1) + 1, Before(events[j + 1]))
    BY <1>4, <2>1 DEF LinkInv, LinksFollow
  <2>3. j - 1 \in 0 .. n
    BY <1>1
  <2>4. PICK x : x = Before(events[j + 1])
    OBVIOUS
  <2>5. Leads(h, j - 1, x)'
    BY <1>2, <2>2, <2>3, <2>4 DEF Leads
  <2>6. QED
    BY <2>1, <2>4, <2>5
<1>5. FailedFirst'
  <2>1. ASSUME NEW j \in 1 .. n PROVE ~Fails(events'[j])
    <3>1. j + 1 \in 1 .. Len(events) /\ events'[j] = events[j + 1] /\ j + 1 # 1
      BY <1>1
    <3>2. QED
      BY <3>1 DEF LinkInv, FailedFirst
  <2>2. QED
    BY <2>1 DEF FailedFirst
<1>6. QED
  BY <1>1, <1>3, <1>4, <1>5 DEF LinksFollow

(* An event joins an empty queue by Append too. *)
LEMMA OnlyEvent == ASSUME NEW S, NEW e \in S PROVE <<e>> = Append(<<>>, e) /\ <<e>> \in Seq(S)
OBVIOUS

(* The steps of the controller that post an event. *)
Posts == LinkUp \/ LinkDown \/ LinkStays \/ OddEvent

LEMMA PostsKeep == ASSUME LinkInv, Posts PROVE LinkInv'
<1>1. CASE LinkUp
  <2>1. PICK h \in Handles : /\ link[h] = 0 /\ lives' = lives + 1
                             /\ link' = [link EXCEPT ![h] = lives']
                             /\ events' = Append(events, [kind |-> "ConnectionComplete",
                                    status |-> "Success", handle |-> h, life |-> lives'])
    BY <1>1 DEF LinkUp
  <2> DEFINE e == [kind |-> "ConnectionComplete", status |-> "Success", handle |-> h, life |-> lives + 1]
  <2>2. lives' \in Nat /\ link' \in [Handles -> Nat] /\ UNCHANGED <<connections, forgotten>>
    BY <1>1, <2>1 DEF LinkUp, LinkInv, LinkTypes, history
  <2>3. e \in Event /\ events' = Append(events, e) /\ ~Fails(e)
    BY <2>1, <2>2 DEF Event, Fails
  <2>4. \A k \in Handles : Concerns(e, k) => link[k] = Before(e) /\ link'[k] = Result(e)
    BY <2>1 DEF Concerns, Opens, Closes, Before, Result, LinkInv, LinkTypes
  <2>5. \A k \in Handles : ~Concerns(e, k) => link'[k] = link[k]
    BY <2>1 DEF Concerns, Opens, Closes, LinkInv, LinkTypes
  <2>6. events' \in Seq(Event) /\ LinksFollow' /\ FailedFirst'
    BY <2>2, <2>3, <2>4, <2>5, EventAppended
  <2>7. QED
    BY <2>2, <2>6 DEF LinkInv, LinkTypes
<1>2. CASE LinkDown
  <2>1. PICK h \in Handles : /\ link[h] # 0
                             /\ link' = [link EXCEPT ![h] = 0]
                             /\ events' = Append(events, [kind |-> "DisconnectionComplete",
                                    status |-> "Success", handle |-> h, life |-> link[h]])
                             /\ UNCHANGED <<lives, connections, forgotten>>
    BY <1>2 DEF LinkDown, history
  <2> DEFINE e == [kind |-> "DisconnectionComplete", status |-> "Success", handle |-> h,
                   life |-> link[h]]
  <2>2. link' \in [Handles -> Nat]
    BY <2>1 DEF LinkInv, LinkTypes
  <2>3. e \in Event /\ events' = Append(events, e) /\ ~Fails(e)
    BY <2>1 DEF Event, Fails, LinkInv, LinkTypes
  <2>4. \A k \in Handles : Concerns(e, k) => link[k] = Before(e) /\ link'[k] = Result(e)
    BY <2>1 DEF Concerns, Opens, Closes, Before, Result, LinkInv, LinkTypes
  <2>5. \A k \in Handles : ~Concerns(e, k) => link'[k] = link[k]
    BY <2>1 DEF Concerns, Opens, Closes, LinkInv, LinkTypes
  <2>6. events' \in Seq(Event) /\ LinksFollow' /\ FailedFirst'
    BY <2>1, <2>3, <2>4, <2>5, EventAppended
  <2>7. QED
    BY <2>1, <2>2, <2>6 DEF LinkInv, LinkTypes
<1>3. CASE LinkStays
  <2>1. PICK h \in Handles : /\ connections[h] = link[h]
                             /\ events = <<>>
                             /\ events' = <<[kind |-> "DisconnectionComplete", status |-> "Failed",
                                            handle |-> h, life |-> link[h]]>>
    BY <1>3 DEF LinkStays
  <2>2. PICK e \in Event :
          /\ events' = <<e>> /\ e.kind = "DisconnectionComplete" /\ e.status = "Failed"
          /\ e.handle = h /\ e.life = link[h]
    <3> DEFINE f == [kind |-> "DisconnectionComplete", status |-> "Failed", handle |-> h,
                     life |-> link[h]]
    <3>1. f \in Event
      BY DEF Event, LinkInv, LinkTypes
    <3>2. QED
      BY <2>1, <3>1
  <2>3. \A k \in Handles : ~Concerns(e, k)
    BY <2>2 DEF Concerns, Opens, Closes
  <2>4. events' = Append(events, e) /\ UNCHANGED <<lives, link, connections, forgotten>>
    BY <1>3, <2>1, <2>2, OnlyEvent DEF LinkStays, history
  <2>5. events' \in Seq(Event) /\ LinksFollow' /\ FailedFirst'
    BY <2>1, <2>2, <2>3, <2>4, EventAppended
  <2>6. QED
    BY <2>4, <2>5 DEF LinkInv, LinkTypes
<1>4. CASE OddEvent
  <2>1. PICK h \in Handles : \E e \in OddEvents(h) : events' = <<e>>
    BY <1>4 DEF OddEvent
  <2>2. PICK e \in OddEvents(h) : events' = <<e>>
    BY <2>1
  <2>3. e \in Event /\ ~Fails(e) /\ \A k \in Handles : ~Concerns(e, k)
    <3>1. CASE link[h] = 0
      BY <3>1 DEF OddEvents, Event, Concerns, Opens, Closes, Fails
    <3>2. CASE link[h] # 0
      BY <3>2 DEF OddEvents, Event, Concerns, Opens, Closes, Fails, LinkInv, LinkTypes
    <3>3. QED
      BY <3>1, <3>2
  <2>4. events' = Append(events, e) /\ UNCHANGED <<lives, link, connections, forgotten>>
    BY <1>4, <2>2, <2>3, OnlyEvent DEF OddEvent, history
  <2>5. events' \in Seq(Event) /\ LinksFollow' /\ FailedFirst'
    BY <2>3, <2>4, EventAppended
  <2>6. QED
    BY <2>4, <2>5 DEF LinkInv, LinkTypes
<1>5. QED
  BY <1>1, <1>2, <1>3, <1>4 DEF Posts

LEMMA EventsKeep ==
  ASSUME LinkInv, ConnectionComplete \/ DisconnectionComplete \/ ModeChange
  PROVE  LinkInv'
<1>1. /\ events # <<>> /\ events' = Tail(events) /\ Head(events) = events[1] /\ events[1] \in Event
      /\ UNCHANGED <<lives, link>>
  <2>1. events # <<>> /\ events' = Tail(events) /\ UNCHANGED <<lives, link>>
    BY DEF ConnectionComplete, DisconnectionComplete, ModeChange, NextEvent
  <2>2. QED
    BY <2>1, HeadTailProperties DEF LinkInv, LinkTypes
<1>2. /\ connections' \in [Handles -> Nat]
      /\ \A h \in Handles : /\ Concerns(events[1], h) => connections'[h] = Result(events[1])
                            /\ \A x : ~Concerns(events[1], h) /\ Held(h, x) => Held(h, x)'
  <2>1. CASE ConnectionComplete
    <3>1. CASE events[1].status = "Success"
      <4>1. /\ connections' = [connections EXCEPT ![events[1].handle] = events[1].life]
            /\ UNCHANGED forgotten
        BY <1>1, <2>1, <3>1 DEF ConnectionComplete, history
      <4>2. Opens(events[1]) /\ events[1].handle \in Handles /\ events[1].life \in Nat
        BY <1>1, <2>1, <3>1 DEF ConnectionComplete, Opens, Event
      <4>3. QED
        BY <4>1, <4>2 DEF Concerns, Result, Held, LinkInv, LinkTypes
    <3>2. CASE events[1].status # "Success"
      BY <1>1, <2>1, <3>2 DEF ConnectionComplete, Concerns, Opens, Closes, Held, LinkInv, LinkTypes,
                              history
    <3>3. QED
      BY <3>1, <3>2
  <2>2. CASE DisconnectionComplete
    <3>1. /\ connections' = [connections EXCEPT ![events[1].handle] = 0]
          /\ events[1].kind = "DisconnectionComplete"
          /\ forgotten' = IF events[1].status = "Failed" THEN forgotten \union {events[1].life}
                                                         ELSE forgotten
          /\ events[1].status \in {"Success", "Failed"} /\ events[1].handle \in Handles
      BY <1>1, <2>2 DEF DisconnectionComplete, Event
    <3>2. CASE events[1].status = "Success"
      BY <3>1, <3>2 DEF Concerns, Opens, Closes, Result, Held, LinkInv, LinkTypes
    <3>3. CASE events[1].status = "Failed"
      <4>1. 1 \in 1 .. Len(events)
        BY <1>1, EmptySeq, LenProperties DEF LinkInv, LinkTypes
      <4>2. connections[events[1].handle] = events[1].life
        BY <3>1, <3>3, <4>1 DEF LinkInv, FailedFirst, Fails
      <4>3. QED
        BY <3>1, <3>3, <4>2 DEF Concerns, Opens, Closes, Held, LinkInv, LinkTypes
    <3>4. QED
      BY <3>1, <3>2, <3>3
  <2>3. CASE ModeChange
    BY <1>1, <2>3 DEF ModeChange, Concerns, Opens, Closes, Held, LinkInv, LinkTypes, history
  <2>4. QED
    BY <2>1, <2>2, <2>3
<1>3. events' \in Seq(Event) /\ LinksFollow' /\ FailedFirst'
  BY <1>1, <1>2, EventTaken
<1>4. QED
  BY <1>1, <1>2, <1>3 DEF LinkInv, LinkTypes

(* The steps that leave both ends of the queue alone. *)
Elsewhere ==
    \/ PeerSends \/ PacketsDone \/ EventsDone
    \/ UnknownConnectionHandle \/ EchoRequest \/ RefuseConnection \/ NoResources \/ NewChannel
    \/ ChannelData \/ DisconnectRequest \/ DisconnectResponse
    \/ Configured \/ ConfigureFails \/ SessionEnds

LEMMA ElsewhereFrame ==
  ASSUME Elsewhere PROVE UNCHANGED <<lives, link, connections, events, forgotten>>
BY DEF Elsewhere, PeerSends, PacketsDone, EventsDone, UnknownConnectionHandle, EchoRequest,
       RefuseConnection, NoResources, NewChannel, ChannelData, DisconnectRequest,
       DisconnectResponse, Configured, ConfigureFails, SessionEnds, history

LEMMA LinkFrame ==
  ASSUME LinkInv, UNCHANGED <<lives, link, connections, events, forgotten>>
  PROVE  LinkInv'
BY DEF LinkInv, LinkTypes, LinksFollow, Leads, Held, FailedFirst

LEMMA InitLinkInv == Init => LinkInv
<1> SUFFICES ASSUME Init PROVE LinkInv
  OBVIOUS
<1>1. LinkTypes
  BY EmptySeq DEF Init, LinkTypes
<1>2. Len(events) = 0
  BY EmptySeq DEF Init
<1>3. ASSUME NEW h \in Handles PROVE Leads(h, Len(events), link[h])
  <2>1. link[h] = connections[h]
    BY DEF Init
  <2>2. QED
    BY <1>2, <2>1 DEF Leads, Held
<1>4. QED
  BY <1>1, <1>2, <1>3 DEF LinkInv, LinksFollow, FailedFirst

LEMMA NextLinkInv == LinkInv /\ [Next]_vars => LinkInv'
<1> SUFFICES ASSUME LinkInv, [Next]_vars PROVE LinkInv'
  OBVIOUS
<1>1. CASE Posts
  BY <1>1, PostsKeep
<1>2. CASE ConnectionComplete \/ DisconnectionComplete \/ ModeChange
  BY <1>2, EventsKeep
<1>3. CASE Elsewhere
  BY <1>3, ElsewhereFrame, LinkFrame
<1>4. CASE UNCHANGED vars
  BY <1>4, LinkFrame DEF vars, history
<1>5. QED
  BY <1>1, <1>2, <1>3, <1>4 DEF Next, Posts, Elsewhere

(***************************************************************************)
(* The server is behind the controller by the events it has not read, and  *)
(* without the links whose disconnection failed, and in nothing else       *)
(* (hci/mod.rs:227-247 to l2cap/mod.rs:133-178).                           *)
(***************************************************************************)
THEOREM ServerFollowsLinks == Spec => []LinkInv
BY InitLinkInv, NextLinkInv, PTL DEF Spec

-----------------------------------------------------------------------------
(* Tasks: what channel ids and handles lead to.                            *)

\* The task a channel id leads to has that id.
HoldersRight ==
    \A c \in Cids : channels[c] # 0 => /\ channels[c] \in 1 .. Len(tasks)
                                       /\ tasks[channels[c]].cid = c

\* A packet for a channel has the id of the task it is meant for.
MeantRight ==
    \A i \in 1 .. Len(data) :
        data[i].content.kind \in {"Data", "DisconnectionRequest"} =>
            /\ data[i].content.task \in 1 .. Len(tasks)
            /\ tasks[data[i].content.task].cid = data[i].content.cid

\* The handle of an AVRCP task that can still run is taken.
HandlesTaken ==
    \A n \in 1 .. Len(tasks) :
        Live(n) /\ tasks[n].psm = "AVCTP" => tasks[n].handle \in existing

TaskInv == TaskTypes /\ HoldersRight /\ MeantRight /\ CidsLead
             /\ HandlesFreed /\ OneSession /\ HandlesTaken

Fixed(n) == <<tasks[n].psm, tasks[n].handle, tasks[n].cid>>

LEMMA TaskDomain ==
  TaskTypes => /\ Len(tasks) \in Nat /\ DOMAIN tasks = 1 .. Len(tasks)
               /\ \A n \in 1 .. Len(tasks) : tasks[n] \in Task
BY LenProperties, ElementOfSeq DEF TaskTypes

(* A step that leaves tasks, ids and handles alone and takes at most a packet. *)
LEMMA PacketTaken ==
  ASSUME TaskInv, data # <<>>, data' = Tail(data)
  PROVE  /\ Packet = data[1] /\ Packet \in Received
         /\ Len(data) \in Nat \ {0}
         /\ data' \in Seq(Received)
         /\ Len(tasks) <= Len(tasks)' /\ Len(tasks)' \in Nat
              /\ (\A n \in 1 .. Len(tasks) : tasks'[n].cid = tasks[n].cid) => MeantRight'
<1> data \in Seq(Received)
  BY DEF TaskInv, TaskTypes
<1>1. /\ Head(data) = data[1] /\ Head(data) \in Received
      /\ Tail(data) \in Seq(Received)
      /\ Len(Tail(data)) = Len(data) - 1 /\ \A i \in 1 .. Len(Tail(data)) : Tail(data)[i] = data[i + 1]
      /\ Len(data) \in Nat \ {0}
  BY HeadTailProperties, EmptySeq
<1>2. ASSUME Len(tasks) <= Len(tasks)', Len(tasks)' \in Nat,
             \A n \in 1 .. Len(tasks) : tasks'[n].cid = tasks[n].cid
      PROVE  MeantRight'
  <2>1. SUFFICES ASSUME NEW i \in 1 .. Len(data'),
                        data'[i].content.kind \in {"Data", "DisconnectionRequest"}
                 PROVE  /\ data'[i].content.task \in 1 .. Len(tasks')
                        /\ tasks'[data'[i].content.task].cid = data'[i].content.cid
    BY DEF MeantRight
  <2>2. data'[i] = data[i + 1] /\ i + 1 \in 1 .. Len(data)
    BY <1>1
  <2>3. /\ data'[i].content.task \in 1 .. Len(tasks)
        /\ tasks[data'[i].content.task].cid = data'[i].content.cid
    BY <2>1, <2>2 DEF TaskInv, MeantRight
  <2>4. QED
    BY <1>2, <2>3, TaskDomain DEF TaskInv
<1>3. QED
  BY <1>1, <1>2 DEF Packet

(* The tasks and what leads to them are as they were. *)
LEMMA TaskFrame ==
  ASSUME TaskInv, UNCHANGED <<channels, tasks, existing>>, leaked \subseteq leaked',
         data' \in Seq(Received), MeantRight'
  PROVE  TaskInv'
BY DEF TaskInv, TaskTypes, HoldersRight, CidsLead, HandlesFreed, OneSession, HandlesTaken, Live

(* A task comes to another state.  What it had stays its own. *)
LEMMA StateChanged ==
  ASSUME TaskTypes, NEW n \in DOMAIN tasks,
         NEW s \in {"configuring", "session", "ended", "rejected"},
         tasks' = [tasks EXCEPT ![n].state = s]
  PROVE  /\ tasks' \in Seq(Task) /\ Len(tasks') = Len(tasks)
         /\ \A m \in 1 .. Len(tasks) : /\ Fixed(m)' = Fixed(m) /\ tasks'[m].told = tasks[m].told
                                       /\ tasks'[m].state = IF m = n THEN s ELSE tasks[m].state
<1>1. tasks \in [1 .. Len(tasks) -> Task] /\ Len(tasks) \in Nat /\ n \in 1 .. Len(tasks)
  BY LenProperties DEF TaskTypes
<1>2. [tasks[n] EXCEPT !.state = s] \in Task
  BY <1>1 DEF Task
<1>3. tasks' \in Seq(Task) /\ Len(tasks') = Len(tasks)
  BY <1>2, ExceptSeq DEF TaskTypes
<1>4. \A m \in 1 .. Len(tasks) : tasks'[m] = IF m = n THEN [tasks[n] EXCEPT !.state = s] ELSE tasks[m]
  BY <1>1
<1>5. \A m \in 1 .. Len(tasks) : tasks[m] \in Task
  BY <1>1
<1>6. QED
  BY <1>3, <1>4, <1>5 DEF Fixed, Task

LEMMA TaskEnded ==
  ASSUME TaskInv, NEW n \in DOMAIN tasks, Live(n), End(n), UNCHANGED <<channels, data>>,
         \/ existing' = Forget(n) /\ UNCHANGED leaked
         \/ /\ UNCHANGED existing
            /\ leaked' = IF tasks[n].psm = "AVCTP" THEN leaked \union {tasks[n].handle} ELSE leaked
  PROVE  TaskInv'
<1>1. /\ tasks' \in Seq(Task) /\ Len(tasks') = Len(tasks) /\ Len(tasks) \in Nat
      /\ DOMAIN tasks = 1 .. Len(tasks) /\ DOMAIN tasks' = 1 .. Len(tasks)
      /\ \A m \in 1 .. Len(tasks) : /\ Fixed(m)' = Fixed(m) /\ tasks'[m].told = tasks[m].told
                                    /\ tasks'[m].state = IF m = n THEN "ended" ELSE tasks[m].state
  BY StateChanged, TaskDomain, LenProperties DEF End, TaskInv
<1>2. \A m \in 1 .. Len(tasks) : Live(m)' <=> Live(m) /\ m # n
  BY <1>1 DEF Live
<1>3. \A m \in 1 .. Len(tasks) : /\ tasks'[m].psm = tasks[m].psm /\ tasks'[m].handle = tasks[m].handle
                                 /\ tasks'[m].cid = tasks[m].cid
  BY <1>1 DEF Fixed
<1>4. TaskTypes' /\ HoldersRight' /\ MeantRight'
  <2>1. UNCHANGED <<channels, data>>
    OBVIOUS
  <2>2. TaskTypes'
    BY <1>1, <2>1 DEF TaskInv, TaskTypes
  <2>3. HoldersRight'
    <3>1. \A c \in Cids : channels[c] # 0 => /\ channels[c] \in 1 .. Len(tasks)
                                            /\ tasks'[channels[c]].cid = tasks[channels[c]].cid
      BY <1>3 DEF TaskInv, HoldersRight
    <3>2. QED
      BY <1>1, <2>1, <3>1 DEF TaskInv, HoldersRight
  <2>4. MeantRight'
    BY <1>1, <1>3, <2>1 DEF TaskInv, MeantRight
  <2>5. QED
    BY <2>2, <2>3, <2>4
<1>5. CidsLead' /\ OneSession'
  BY <1>1, <1>2, <1>3 DEF TaskInv, CidsLead, OneSession
<1>6. \A m \in 1 .. Len(tasks) : Live(m)' /\ tasks[m].psm = "AVCTP" /\ tasks[n].psm = "AVCTP" =>
                                   tasks[m].handle # tasks[n].handle
  BY <1>1, <1>2 DEF TaskInv, OneSession
<1>7. HandlesTaken'
  BY <1>1, <1>2, <1>3, <1>6 DEF TaskInv, HandlesTaken, Forget
<1>8. HandlesFreed'
  <2>1. SUFFICES ASSUME NEW h \in existing', h \notin leaked'
                 PROVE  \E m \in DOMAIN tasks' : /\ Live(m)' /\ tasks'[m].psm = "AVCTP"
                                                 /\ tasks'[m].handle = h
    BY DEF HandlesFreed
  <2>2. h \in existing /\ h \notin leaked
    BY <2>1 DEF Forget
  <2>3. PICK m \in DOMAIN tasks : Live(m) /\ tasks[m].psm = "AVCTP" /\ tasks[m].handle = h
    BY <2>2 DEF TaskInv, HandlesFreed
  <2>4. m # n
    BY <2>1, <2>3 DEF Forget
  <2>5. QED
    BY <1>1, <1>2, <1>3, <2>3, <2>4
<1>9. QED
  BY <1>4, <1>5, <1>7, <1>8 DEF TaskInv

LEMMA SessionsKeep ==
  ASSUME TaskInv, Configured \/ ConfigureFails \/ SessionEnds
  PROVE  TaskInv'
<1>1. CASE Configured
  <2>1. PICK n \in DOMAIN tasks : /\ tasks[n].state = "configuring"
                                  /\ tasks' = [tasks EXCEPT ![n].state = "session"]
    BY <1>1 DEF Configured
  <2>2. UNCHANGED <<channels, data, existing, leaked>>
    BY <1>1 DEF Configured, history
  <2>3. /\ tasks' \in Seq(Task) /\ Len(tasks') = Len(tasks) /\ Len(tasks) \in Nat
        /\ DOMAIN tasks = 1 .. Len(tasks) /\ DOMAIN tasks' = 1 .. Len(tasks)
        /\ \A m \in 1 .. Len(tasks) : /\ Fixed(m)' = Fixed(m) /\ tasks'[m].told = tasks[m].told
                                      /\ tasks'[m].state = IF m = n THEN "session" ELSE tasks[m].state
    BY <2>1, StateChanged, TaskDomain, LenProperties DEF TaskInv
  <2>4. \A m \in 1 .. Len(tasks) : Live(m)' <=> Live(m)
    BY <2>1, <2>3 DEF Live
  <2>5. \A m \in 1 .. Len(tasks) : /\ tasks'[m].psm = tasks[m].psm /\ tasks'[m].cid = tasks[m].cid
                                   /\ tasks'[m].handle = tasks[m].handle
    BY <2>3 DEF Fixed
  <2>6. TaskTypes' /\ HoldersRight' /\ MeantRight'
    <3>1. TaskTypes'
      BY <2>2, <2>3 DEF TaskInv, TaskTypes
    <3>2. HoldersRight'
      BY <2>2, <2>3, <2>5 DEF TaskInv, HoldersRight
    <3>3. MeantRight'
      BY <2>2, <2>3, <2>5 DEF TaskInv, MeantRight
    <3>4. QED
      BY <3>1, <3>2, <3>3
  <2>7. CidsLead' /\ OneSession' /\ HandlesTaken' /\ HandlesFreed'
    BY <2>2, <2>3, <2>4, <2>5 DEF TaskInv, CidsLead, OneSession, HandlesTaken, HandlesFreed
  <2>8. QED
    BY <2>6, <2>7 DEF TaskInv
<1>2. CASE ConfigureFails
  <2>1. PICK n \in DOMAIN tasks :
           /\ tasks[n].state = "configuring" /\ End(n)
           /\ leaked' = IF tasks[n].psm = "AVCTP" THEN leaked \union {tasks[n].handle} ELSE leaked
    BY <1>2 DEF ConfigureFails
  <2>2. Live(n) /\ UNCHANGED <<channels, data, existing>>
    BY <1>2, <2>1, TaskDomain DEF ConfigureFails, Live, TaskInv
  <2>3. QED
    BY <2>1, <2>2, TaskEnded
<1>3. CASE SessionEnds
  <2>1. PICK n \in DOMAIN tasks : tasks[n].state = "session" /\ End(n) /\ existing' = Forget(n)
    BY <1>3 DEF SessionEnds
  <2>2. Live(n) /\ UNCHANGED <<channels, data, leaked>>
    BY <1>3, <2>1, TaskDomain DEF SessionEnds, Live, TaskInv, history
  <2>3. QED
    BY <2>1, <2>2, TaskEnded
<1>4. QED
  BY <1>1, <1>2, <1>3

(* What a peer sends is meant for a task of its link. *)
LEMMA PeerKeeps == ASSUME LinkInv, TaskInv, PeerSends PROVE TaskInv'
<1>1. PICK h \in Handles : /\ link[h] # 0
                           /\ \E c \in Contents(h) :
                                data' = Append(data, [handle |-> h, life |-> link[h], content |-> c])
  BY DEF PeerSends
<1>2. PICK c \in Contents(h) : data' = Append(data, [handle |-> h, life |-> link[h], content |-> c])
  BY <1>1
<1> DEFINE m == [handle |-> h, life |-> link[h], content |-> c]
<1>3. DOMAIN tasks = 1 .. Len(tasks) /\ Len(tasks) \in Nat /\ \A n \in 1 .. Len(tasks) : tasks[n] \in Task
  BY TaskDomain DEF TaskInv
<1>4. Odd \subseteq Request
  BY DEF Odd, Request, Psms
<1>5. ASSUME c \in Uses(h)
      PROVE  /\ c \in Request
             /\ c.kind \in {"Data", "DisconnectionRequest"} =>
                  c.task \in 1 .. Len(tasks) /\ tasks[c.task].cid = c.cid
  <2>1. CASE c \in [kind : {"ConnectionRequest"}, psm : Psms, valid : {TRUE}]
    BY <2>1 DEF Request
  <2>2. ASSUME NEW n \in Tasks(h),
               c \in [kind : {"Data", "DisconnectionRequest"}, cid : {tasks[n].cid}, task : {n}]
        PROVE  c \in Request /\ c.task \in 1 .. Len(tasks) /\ tasks[c.task].cid = c.cid
    <3>1. n \in 1 .. Len(tasks) /\ tasks[n].cid \in Cids
      BY <1>3 DEF Tasks, Task
    <3>2. n \in Nat
      BY <1>3, <3>1
    <3>3. QED
      BY <2>2, <3>1, <3>2 DEF Request
  <2>3. CASE c \in [kind : {"DisconnectionResponse"}, cid : Cids, task : Closing(h)]
    <3>1. Closing(h) \subseteq Nat
      BY <1>3 DEF Closing, Tasks
    <3>2. PICK k \in Cids, n \in Nat :
            c = [kind |-> "DisconnectionResponse", cid |-> k, task |-> n]
      BY <2>3, <3>1
    <3>3. QED
      BY <3>2 DEF Request
  <2>4. \/ c \in [kind : {"ConnectionRequest"}, psm : Psms, valid : {TRUE}]
        \/ \E n \in Tasks(h) :
             c \in [kind : {"Data", "DisconnectionRequest"}, cid : {tasks[n].cid}, task : {n}]
        \/ c \in [kind : {"DisconnectionResponse"}, cid : Cids, task : Closing(h)]
    BY <1>5, Zenon DEF Uses
  <2>5. QED
    BY <2>1, <2>2, <2>3, <2>4
<1>6. c \in Odd \/ c \in Uses(h)
  BY DEF Contents
<1>7. /\ c \in Request
      /\ c.kind \in {"Data", "DisconnectionRequest"} =>
           c.task \in 1 .. Len(tasks) /\ tasks[c.task].cid = c.cid
  <2>1. c \in Odd => c.kind \notin {"Data", "DisconnectionRequest"}
    BY DEF Odd
  <2>2. QED
    BY <1>4, <1>5, <1>6, <2>1
<1>8. m \in Received
  BY <1>1, <1>7 DEF Received, LinkInv, LinkTypes
<1>9. /\ data' \in Seq(Received) /\ Len(data) \in Nat /\ Len(data') = Len(data) + 1
      /\ \A i \in 1 .. Len(data) : data'[i] = data[i]
      /\ data'[Len(data) + 1] = m
  BY <1>2, <1>8, AppendProperties, LenProperties DEF TaskInv, TaskTypes
<1>10. UNCHANGED <<channels, tasks, existing, leaked>>
  BY DEF PeerSends
<1>11. MeantRight'
  <2>1. SUFFICES ASSUME NEW i \in 1 .. Len(data'),
                        data'[i].content.kind \in {"Data", "DisconnectionRequest"}
                 PROVE  /\ data'[i].content.task \in 1 .. Len(tasks)
                        /\ tasks[data'[i].content.task].cid = data'[i].content.cid
    BY <1>10 DEF MeantRight
  <2>2. CASE i = Len(data) + 1
    BY <1>7, <1>9, <2>1, <2>2
  <2>3. CASE i \in 1 .. Len(data)
    BY <1>9, <2>1, <2>3 DEF TaskInv, MeantRight
  <2>4. QED
    BY <1>9, <2>2, <2>3
<1>12. QED
  BY <1>9, <1>10, <1>11, TaskFrame

(* The packets that change neither tasks nor channels. *)
LEMMA AnsweredKeep ==
  ASSUME TaskInv, UnknownConnectionHandle \/ EchoRequest \/ RefuseConnection
  PROVE  TaskInv'
<1>1. data # <<>> /\ data' = Tail(data) /\ UNCHANGED <<channels, tasks, existing, leaked>>
  BY DEF UnknownConnectionHandle, EchoRequest, RefuseConnection, Signal, NextPacket, history
<1>2. data' \in Seq(Received) /\ MeantRight'
  BY <1>1, PacketTaken, TaskDomain DEF TaskInv
<1>3. QED
  BY <1>1, <1>2, TaskFrame

(* A channel nobody may read any more is forgotten. *)
LEMMA ChannelsForgotten ==
  ASSUME TaskInv, data # <<>>, data' = Tail(data), UNCHANGED <<tasks, existing, leaked>>,
         channels' \in [Cids -> Nat],
         \A c \in Cids : channels'[c] = channels[c] \/ (channels'[c] = 0 /\ ~Live(channels[c]))
  PROVE  TaskInv'
<1>1. data' \in Seq(Received) /\ MeantRight'
  BY PacketTaken, TaskDomain DEF TaskInv
<1>2. HoldersRight'
  BY DEF TaskInv, HoldersRight
<1>3. CidsLead'
  <2>1. SUFFICES ASSUME NEW n \in DOMAIN tasks, Live(n), tasks[n].told = "no"
                 PROVE  channels'[tasks[n].cid] = n
    BY DEF CidsLead, Live
  <2>2. tasks[n].cid \in Cids
    BY TaskDomain DEF TaskInv, Task
  <2>3. channels[tasks[n].cid] = n
    BY <2>1 DEF TaskInv, CidsLead
  <2>4. QED
    BY <2>1, <2>2, <2>3
<1>4. QED
  BY <1>1, <1>2, <1>3 DEF TaskInv, TaskTypes, HandlesFreed, OneSession, HandlesTaken, Live

LEMMA ForgettingKeeps == ASSUME TaskInv, NoResources \/ ChannelData PROVE TaskInv'
<1>1. data # <<>> /\ data' = Tail(data) /\ UNCHANGED <<tasks, existing, leaked>>
  BY DEF NoResources, ChannelData, Signal, NextPacket, history
<1>2. CASE NoResources
  <2>1. channels' = Retained
    BY <1>2 DEF NoResources
  <2>2. QED
    BY <1>1, <2>1, ChannelsForgotten DEF Retained, TaskInv, TaskTypes
<1>3. CASE ChannelData
  <2>1. \/ channels' = channels
        \/ ~Live(channels[Content.cid]) /\ channels' = [channels EXCEPT ![Content.cid] = 0]
    BY <1>3 DEF ChannelData, Holder
  <2>2. channels' \in [Cids -> Nat]
    BY <2>1 DEF TaskInv, TaskTypes
  <2>3. \A c \in Cids : channels'[c] = channels[c] \/ (channels'[c] = 0 /\ ~Live(channels[c]))
    BY <2>1 DEF TaskInv, TaskTypes
  <2>4. QED
    BY <1>1, <2>2, <2>3, ChannelsForgotten
<1>4. QED
  BY <1>2, <1>3

(* A channel is forgotten, and the task it leads to is told, or its queue ends. *)
LEMMA DisconnectKeeps ==
  ASSUME TaskInv, DisconnectRequest \/ DisconnectResponse
  PROVE  TaskInv'
<1>1. PICK cid : cid = Content.cid
  OBVIOUS
<1>2. PICK n : n = channels[cid]
  OBVIOUS
<1>3. /\ data # <<>> /\ data' = Tail(data) /\ UNCHANGED <<existing, leaked>>
      /\ channels' = [channels EXCEPT ![cid] = 0]
      /\ \E how \in {"request", "response"} :
           tasks' = IF Live(n) THEN [tasks EXCEPT ![n].told = how] ELSE tasks
  BY <1>1, <1>2 DEF DisconnectRequest, DisconnectResponse, Signal, NextPacket, Holder, history
<1> PICK how \in {"request", "response"} :
        tasks' = IF Live(n) THEN [tasks EXCEPT ![n].told = how] ELSE tasks
  BY <1>3
<1>4. /\ Len(tasks) \in Nat /\ DOMAIN tasks = 1 .. Len(tasks)
      /\ \A m \in 1 .. Len(tasks) : tasks[m] \in Task
  BY TaskDomain DEF TaskInv
<1>5. /\ tasks' \in Seq(Task) /\ Len(tasks') = Len(tasks) /\ DOMAIN tasks' = 1 .. Len(tasks)
      /\ \A m \in 1 .. Len(tasks) : /\ Fixed(m)' = Fixed(m) /\ tasks'[m].state = tasks[m].state
                                    /\ tasks'[m].told = IF m = n /\ Live(n) THEN how ELSE tasks[m].told
  <2>1. CASE Live(n) /\ n \in 1 .. Len(tasks)
    <3>1. [tasks[n] EXCEPT !.told = how] \in Task
      BY <1>4, <2>1 DEF Task
    <3>2. tasks' = [tasks EXCEPT ![n] = [tasks[n] EXCEPT !.told = how]]
      BY <1>3, <2>1
    <3>3. /\ tasks' \in Seq(Task) /\ Len(tasks') = Len(tasks)
          /\ \A m \in 1 .. Len(tasks) : tasks'[m] = IF m = n THEN [tasks[n] EXCEPT !.told = how]
                                                             ELSE tasks[m]
      BY <2>1, <3>1, <3>2, ExceptSeq DEF TaskInv, TaskTypes
    <3>4. QED
      BY <1>4, <2>1, <3>3, LenProperties DEF Fixed, Task
  <2>2. CASE ~(Live(n) /\ n \in 1 .. Len(tasks))
    <3>1. tasks' = tasks
      BY <1>3, <1>4, <2>2 DEF TaskInv, TaskTypes
    <3>2. QED
      BY <1>4, <2>2, <3>1 DEF Fixed, Task, TaskInv, TaskTypes
  <2>3. QED
    BY <2>1, <2>2
<1>6. \A m \in 1 .. Len(tasks) : /\ tasks'[m].psm = tasks[m].psm /\ tasks'[m].handle = tasks[m].handle
                                 /\ tasks'[m].cid = tasks[m].cid
  BY <1>5 DEF Fixed
<1>7. \A m \in 1 .. Len(tasks) : Live(m)' <=> Live(m)
  BY <1>5 DEF Live
<1>8. data' \in Seq(Received) /\ MeantRight'
  BY <1>3, <1>4, <1>5, <1>6, PacketTaken
<1>9. TaskTypes' /\ HoldersRight'
  BY <1>3, <1>5, <1>6, <1>8 DEF TaskInv, TaskTypes, HoldersRight
<1>10. CidsLead'
  <2>1. SUFFICES ASSUME NEW m \in 1 .. Len(tasks), Live(m), tasks'[m].told = "no"
                 PROVE  channels'[tasks'[m].cid] = m
    BY <1>5, <1>7 DEF CidsLead
  <2>2. tasks[m].told = "no" /\ m # n
    BY <1>5, <2>1 DEF Live
  <2>3. channels[tasks[m].cid] = m /\ tasks[m].cid \in Cids
    BY <1>4, <2>1, <2>2 DEF TaskInv, CidsLead, Task
  <2>4. tasks[m].cid # cid
    BY <1>2, <2>2, <2>3
  <2>5. QED
    BY <1>3, <1>6, <2>3, <2>4 DEF TaskInv, TaskTypes
<1>11. OneSession' /\ HandlesTaken' /\ HandlesFreed'
  BY <1>3, <1>4, <1>5, <1>6, <1>7 DEF TaskInv, OneSession, HandlesTaken, HandlesFreed
<1>12. QED
  BY <1>8, <1>9, <1>10, <1>11 DEF TaskInv

(* The lowest of some channel ids is one of them. *)
LEMMA LowestIsFree ==
  ASSUME Cids \subseteq Nat, NEW h, FreeCids(h) # {}
  PROVE  Lowest(FreeCids(h)) \in FreeCids(h)
<1>1. FreeCids(h) \subseteq Nat
  BY DEF FreeCids
<1>2. PICK c \in FreeCids(h) : \A d \in FreeCids(h) : ~(<<d, c>> \in OpToRel(<, Nat))
  BY <1>1, WFMin, NatLessThanWellFounded
<1>3. \A d \in FreeCids(h) : ~(d < c)
  BY <1>1, <1>2 DEF OpToRel
<1>4. \A d \in FreeCids(h) : c <= d
  BY <1>1, <1>3
<1>5. QED
  BY <1>4 DEF Lowest

(* A new task joins the others with an id that leads to none of them, and  *)
(* an AVRCP task runs only if no other has its handle.                     *)
LEMMA NewChannelKeeps == ASSUME Cids \subseteq Nat, TaskInv, NewChannel PROVE TaskInv'
<1>1. /\ data # <<>> /\ data' = Tail(data) /\ UNCHANGED leaked
      /\ Content.psm \in Psms /\ FreeCids(Packet.handle) # {}
  BY DEF NewChannel, Signal, NextPacket, history
<1>2. Packet.handle \in Handles /\ Packet.life \in Nat
  BY <1>1, PacketTaken DEF Received
<1>3. PICK h \in Handles : h = Packet.handle
  BY <1>2
<1>4. PICK cid \in Cids : cid = Lowest(FreeCids(h)) /\ ~Live(channels[cid])
  <2>1. PICK cid : cid = Lowest(FreeCids(h))
    OBVIOUS
  <2>2. cid \in FreeCids(h)
    BY <1>1, <1>3, <2>1, LowestIsFree
  <2>3. QED
    BY <2>1, <2>2 DEF FreeCids, Retained, Live
<1>5. PICK psm \in Psms : psm = Content.psm
  BY <1>1
<1> DEFINE admitted == psm = "AVCTP" => h \notin existing
<1>6. PICK t \in Task :
        /\ t.psm = psm /\ t.handle = h /\ t.cid = cid
        /\ t.state = IF admitted THEN "configuring" ELSE "rejected"
        /\ tasks' = Append(tasks, t)
  <2> DEFINE u == [psm |-> psm, handle |-> h, life |-> Packet.life, cid |-> cid,
                   state |-> IF admitted THEN "configuring" ELSE "rejected", told |-> "no"]
  <2>1. u \in Task
    BY <1>2 DEF Task
  <2>2. tasks' = Append(tasks, u)
    BY <1>3, <1>4, <1>5 DEF NewChannel, Admitted
  <2>3. QED
    BY <2>1, <2>2
<1>7. PICK N \in Nat : N = Len(tasks) + 1
  BY TaskDomain DEF TaskInv
<1>8. /\ tasks' \in Seq(Task) /\ Len(tasks) \in Nat /\ Len(tasks') = N /\ N = Len(tasks) + 1
      /\ DOMAIN tasks = 1 .. Len(tasks) /\ DOMAIN tasks' = 1 .. N
      /\ \A n \in 1 .. Len(tasks) : tasks'[n] = tasks[n] /\ tasks[n] \in Task
      /\ tasks'[N] = t
  BY <1>6, <1>7, AppendProperties, LenProperties, TaskDomain DEF TaskInv, TaskTypes
<1>9. \A n \in 1 .. N : n \in 1 .. Len(tasks) \/ n = N
  BY <1>8
<1>10. \A n \in 1 .. Len(tasks) : Live(n)' <=> Live(n)
  BY <1>8 DEF Live
<1>11. Live(N)' <=> admitted
  <2>1. N # 0 /\ tasks'[N].state = IF admitted THEN "configuring" ELSE "rejected"
    BY <1>6, <1>8
  <2>2. CASE admitted
    BY <2>1, <2>2 DEF Live
  <2>3. CASE ~admitted
    BY <2>1, <2>3 DEF Live
  <2>4. QED
    BY <2>2, <2>3
<1>12. channels' = [Retained EXCEPT ![cid] = N]
  BY <1>3, <1>4, <1>7 DEF NewChannel
<1>13. /\ channels' \in [Cids -> Nat] /\ channels'[cid] = N
       /\ \A c \in Cids : c # cid => channels'[c] = IF Live(channels[c]) THEN channels[c] ELSE 0
  <2>1. Retained \in [Cids -> Nat]
    BY DEF Retained, TaskInv, TaskTypes
  <2>2. QED
    BY <1>8, <1>12, <2>1 DEF Retained
<1>14. existing' = IF psm = "AVCTP" THEN existing \union {h} ELSE existing
  BY <1>3, <1>5 DEF NewChannel
<1>15. data' \in Seq(Received) /\ MeantRight'
  BY <1>1, <1>8, PacketTaken
<1>16. HoldersRight'
  <2>1. SUFFICES ASSUME NEW c \in Cids, channels'[c] # 0
                 PROVE  channels'[c] \in 1 .. N /\ tasks'[channels'[c]].cid = c
    BY <1>8 DEF HoldersRight
  <2>2. CASE c = cid
    BY <1>6, <1>8, <1>13, <2>2
  <2>3. CASE c # cid
    <3>1. channels'[c] = channels[c] /\ channels[c] # 0
      BY <1>13, <2>1, <2>3
    <3>2. channels[c] \in 1 .. Len(tasks) /\ tasks[channels[c]].cid = c
      BY <3>1 DEF TaskInv, HoldersRight
    <3>3. QED
      BY <1>8, <3>1, <3>2
  <2>4. QED
    BY <2>2, <2>3
<1>17. CidsLead'
  <2>1. SUFFICES ASSUME NEW n \in 1 .. N, Live(n)', tasks'[n].told = "no"
                 PROVE  channels'[tasks'[n].cid] = n
    BY <1>8 DEF CidsLead
  <2>2. CASE n = N
    BY <1>6, <1>8, <1>13, <2>2
  <2>3. CASE n \in 1 .. Len(tasks)
    <3>1. Live(n) /\ tasks[n].told = "no" /\ tasks[n].cid \in Cids
      BY <1>8, <1>10, <1>11, <2>1, <2>3 DEF Task
    <3>2. channels[tasks[n].cid] = n
      BY <1>8, <2>3, <3>1 DEF TaskInv, CidsLead
    <3>3. tasks[n].cid # cid
      BY <1>4, <3>1, <3>2
    <3>4. QED
      BY <1>8, <1>13, <2>3, <3>1, <3>2, <3>3
  <2>4. QED
    BY <1>9, <2>2, <2>3
<1>18. HandlesFreed'
  <2>1. SUFFICES ASSUME NEW k \in existing', k \notin leaked
                 PROVE  \E n \in 1 .. N : Live(n)' /\ tasks'[n].psm = "AVCTP" /\ tasks'[n].handle = k
    BY <1>1, <1>8 DEF HandlesFreed
  <2>2. CASE k \in existing
    <3>1. PICK n \in 1 .. Len(tasks) : Live(n) /\ tasks[n].psm = "AVCTP" /\ tasks[n].handle = k
      BY <1>8, <2>1, <2>2 DEF TaskInv, HandlesFreed
    <3>2. QED
      BY <1>8, <1>10, <1>11, <3>1
  <2>3. CASE k \notin existing
    <3>1. psm = "AVCTP" /\ k = h /\ admitted
      BY <1>14, <2>3
    <3>2. QED
      BY <1>6, <1>8, <1>10, <1>11, <3>1
  <2>4. QED
    BY <2>2, <2>3
<1>19. HandlesTaken'
  <2>1. SUFFICES ASSUME NEW n \in 1 .. N, Live(n)', tasks'[n].psm = "AVCTP"
                 PROVE  tasks'[n].handle \in existing'
    BY <1>8 DEF HandlesTaken
  <2>2. CASE n = N
    BY <1>6, <1>8, <1>14, <2>1, <2>2
  <2>3. CASE n \in 1 .. Len(tasks)
    BY <1>8, <1>10, <1>11, <1>14, <2>1, <2>3 DEF TaskInv, HandlesTaken
  <2>4. QED
    BY <1>9, <2>2, <2>3
<1>20. ASSUME Live(N)', tasks'[N].psm = "AVCTP", NEW n \in 1 .. Len(tasks), Live(n),
              tasks[n].psm = "AVCTP"
       PROVE  tasks[n].handle # tasks'[N].handle
  <2>1. h \notin existing
    BY <1>6, <1>8, <1>10, <1>11, <1>20
  <2>2. tasks[n].handle \in existing
    BY <1>20 DEF TaskInv, HandlesTaken
  <2>3. QED
    BY <1>6, <1>8, <2>1, <2>2
<1>21. OneSession'
  <2>1. SUFFICES ASSUME NEW n \in 1 .. N, NEW m \in 1 .. N, n # m, Live(n)', Live(m)',
                        tasks'[n].psm = "AVCTP", tasks'[m].psm = "AVCTP"
                 PROVE  tasks'[n].handle # tasks'[m].handle
    BY <1>8 DEF OneSession
  <2>2. CASE n \in 1 .. Len(tasks) /\ m \in 1 .. Len(tasks)
    BY <1>8, <1>10, <1>11, <2>1, <2>2 DEF TaskInv, OneSession
  <2>3. CASE n = N /\ m \in 1 .. Len(tasks)
    BY <1>8, <1>10, <1>11, <1>20, <2>1, <2>3
  <2>4. CASE n \in 1 .. Len(tasks) /\ m = N
    BY <1>8, <1>10, <1>11, <1>20, <2>1, <2>4
  <2>5. QED
    BY <1>9, <2>1, <2>2, <2>3, <2>4
<1>22. TaskTypes'
  BY <1>8, <1>13, <1>15 DEF TaskTypes
<1>23. QED
  BY <1>15, <1>16, <1>17, <1>18, <1>19, <1>21, <1>22 DEF TaskInv

LEMMA InitTaskInv == Init => TaskInv
<1> SUFFICES ASSUME Init PROVE TaskInv
  OBVIOUS
<1>1. TaskTypes /\ Len(tasks) = 0 /\ Len(data) = 0
  BY EmptySeq DEF Init, TaskTypes
<1>2. DOMAIN tasks = 1 .. 0
  BY <1>1, TaskDomain
<1>3. QED
  BY <1>1, <1>2 DEF Init, TaskInv, HoldersRight, MeantRight, CidsLead, HandlesFreed, OneSession,
                    HandlesTaken

LEMMA NextTaskInv ==
  ASSUME Cids \subseteq Nat, LinkInv, TaskInv, [Next]_vars
  PROVE  TaskInv'
<1>1. CASE UNCHANGED <<data, channels, tasks, existing, leaked>>
  BY <1>1 DEF TaskInv, TaskTypes, HoldersRight, MeantRight, CidsLead, HandlesFreed, OneSession,
              HandlesTaken, Live
<1>2. CASE \/ Posts \/ PacketsDone \/ EventsDone
           \/ ConnectionComplete \/ DisconnectionComplete \/ ModeChange
           \/ UNCHANGED vars
  BY <1>1, <1>2 DEF Posts, LinkUp, LinkDown, LinkStays, OddEvent, PacketsDone, EventsDone,
                    ConnectionComplete, DisconnectionComplete, ModeChange, vars, history
<1>3. CASE PeerSends
  BY <1>3, PeerKeeps
<1>4. CASE UnknownConnectionHandle \/ EchoRequest \/ RefuseConnection
  BY <1>4, AnsweredKeep
<1>5. CASE NoResources \/ ChannelData
  BY <1>5, ForgettingKeeps
<1>6. CASE NewChannel
  BY <1>6, NewChannelKeeps
<1>7. CASE DisconnectRequest \/ DisconnectResponse
  BY <1>7, DisconnectKeeps
<1>8. CASE Configured \/ ConfigureFails \/ SessionEnds
  BY <1>8, SessionsKeep
<1>9. QED
  BY <1>2, <1>3, <1>4, <1>5, <1>6, <1>7, <1>8 DEF Next, Posts

-----------------------------------------------------------------------------
(* The properties.                                                         *)

(* The assertion of handle_event holds where the first event applies. *)
LEMMA NotConnected == ASSUME LinkInv PROVE NotConnectedTwice
<1>1. SUFFICES ASSUME events # <<>>, Head(events).kind = "ConnectionComplete",
                      Head(events).status = "Success"
               PROVE  connections[Head(events).handle] = 0
  BY DEF NotConnectedTwice
<1>2. Head(events) = events[1] /\ events[1] \in Event /\ 1 \in 1 .. Len(events)
  BY <1>1, EmptySeq, HeadTailProperties DEF LinkInv, LinkTypes
<1>3. PICK h \in Handles : h = events[1].handle
  BY <1>2 DEF Event
<1>4. Concerns(events[1], h) /\ Before(events[1]) = 0
  BY <1>1, <1>2, <1>3 DEF Concerns, Before, Opens
<1>5. Leads(h, 0, 0)
  BY <1>2, <1>4 DEF LinkInv, LinksFollow
<1>6. QED
  BY <1>2, <1>3, <1>5 DEF Leads, Held

LEMMA Invariants == Cids \subseteq Nat => (Spec => [](LinkInv /\ TaskInv))
<1> SUFFICES ASSUME Cids \subseteq Nat PROVE Spec => [](LinkInv /\ TaskInv)
  OBVIOUS
<1>1. LinkInv /\ TaskInv /\ [Next]_vars => (LinkInv /\ TaskInv)'
  BY NextLinkInv, NextTaskInv
<1>2. QED
  BY <1>1, InitLinkInv, InitTaskInv, PTL DEF Spec

(***************************************************************************)
(* Handles and channel ids lead to the task that has them, for any number  *)
(* of links, channels and tasks (avrcp/mod.rs:55-94, l2cap/mod.rs).        *)
(***************************************************************************)
THEOREM HandlesAreAccounted == Cids \subseteq Nat => (Spec => []HandlesAccounted)
<1> SUFFICES ASSUME Cids \subseteq Nat PROVE Spec => []HandlesAccounted
  OBVIOUS
<1>1. LinkInv /\ TaskInv => HandlesAccounted
  BY NotConnected DEF TaskInv, HandlesAccounted
<1>2. QED
  BY <1>1, Invariants, PTL

(* Between a link and the connection the server has for its handle are the *)
(* events that open the one and close the other.                           *)
LEMMA EventsBetween ==
  ASSUME LinkInv, NEW h \in Handles, link[h] # 0, connections[h] # link[h],
         connections[h] # 0 \/ link[h] \notin forgotten
  PROVE  /\ Awaited("ConnectionComplete", link[h])
         /\ connections[h] # 0 => Awaited("DisconnectionComplete", connections[h])
<1>1. DOMAIN events = 1 .. Len(events) /\ Len(events) \in Nat
  BY LenProperties DEF LinkInv, LinkTypes
<1>2. PICK j \in 1 .. Len(events) : Concerns(events[j], h) /\ link[h] = Result(events[j])
  BY DEF LinkInv, LinksFollow, Leads, Held
<1>3. Awaited("ConnectionComplete", link[h])
  BY <1>1, <1>2 DEF Awaited, Result, Opens
<1> DEFINE S == {i \in 1 .. Len(events) : Concerns(events[i], h)}
<1>4. S # {} /\ S \subseteq Nat
  BY <1>1, <1>2
<1>5. PICK i \in S : \A k \in S : ~(<<k, i>> \in OpToRel(<, Nat))
  BY <1>4, WFMin, NatLessThanWellFounded
<1>6. \A k \in S : ~(k < i)
  BY <1>4, <1>5 DEF OpToRel
<1>7. \A k \in 1 .. (i - 1) : ~Concerns(events[k], h)
  BY <1>1, <1>6
<1>8. Leads(h, i - 1, Before(events[i]))
  BY DEF LinkInv, LinksFollow
<1>9. connections[h] # 0 => connections[h] = Before(events[i])
  BY <1>7, <1>8 DEF Leads, Held
<1>10. connections[h] # 0 => Awaited("DisconnectionComplete", connections[h])
  BY <1>1, <1>9 DEF Awaited, Before, Concerns, Closes
<1>11. QED
  BY <1>3, <1>10

(* The channel id of a packet leads to the task it is meant for. *)
LEMMA TaskBehindId ==
  ASSUME TaskInv, data # <<>>, Content.kind \in {"Data", "DisconnectionRequest"}
  PROVE  LET n == Content.task IN ~Live(n) \/ tasks[n].told # "no" \/ channels[Content.cid] = n
<1>1. Packet = data[1] /\ 1 \in 1 .. Len(data)
  BY EmptySeq DEF TaskInv, TaskTypes, Packet
<1>2. Content.task \in 1 .. Len(tasks) /\ tasks[Content.task].cid = Content.cid
  BY <1>1 DEF Content, TaskInv, MeantRight
<1>3. QED
  BY <1>2, TaskDomain DEF TaskInv, CidsLead

(* When ids have run out each is held by a task that can run. *)
LEMMA IdsHeld ==
  ASSUME TaskInv, NEW h, FreeCids(h) = {}
  PROVE  \A c \in Cids : \E m \in DOMAIN tasks : Live(m) /\ tasks[m].cid = c
<1>1. SUFFICES ASSUME NEW c \in Cids PROVE Live(channels[c]) /\ channels[c] \in DOMAIN tasks
                                           /\ tasks[channels[c]].cid = c
  OBVIOUS
<1>2. Live(channels[c])
  BY DEF FreeCids, Retained
<1>3. channels[c] # 0
  BY <1>2 DEF Live
<1>4. QED
  BY <1>2, <1>3, TaskDomain DEF TaskInv, HoldersRight

(* Sequences of different lengths are different. *)
LEMMA LengthsTell == ASSUME NEW s, NEW t, Len(s) # Len(t) PROVE s # t
<1>1. s = t => Len(s) = Len(t)
  OBVIOUS
<1>2. QED
  BY <1>1

LEMMA TailShorter == ASSUME NEW S, NEW q \in Seq(S), q # <<>> PROVE Len(Tail(q)) < Len(q)
<1>1. PICK n \in Nat : n = Len(q)
  BY LenProperties
<1>2. Len(Tail(q)) = n - 1
  BY <1>1, HeadTailProperties
<1>3. n - 1 < n
  OBVIOUS
<1>4. QED
  BY <1>1, <1>2, <1>3, Zenon

LEMMA AppendLonger == ASSUME NEW S, NEW q \in Seq(S), q # <<>>, NEW m PROVE Tail(q) # Append(q, m)
<1>1. PICK n \in Nat : n = Len(q)
  BY LenProperties
<1>2. PICK k \in Int : k = Len(Tail(q)) /\ k < n
  BY <1>1, HeadTailProperties
<1>3. Len(Append(q, m)) = n + 1
  BY <1>1
<1>4. k # n + 1
  BY <1>1, <1>2
<1>5. Len(Tail(q)) # Len(Append(q, m))
  BY <1>2, <1>3, <1>4, Zenon
<1>6. QED
  BY <1>5, LengthsTell

(* Which packets a step may take. *)
HandlesPacket ==
    \/ UnknownConnectionHandle \/ EchoRequest \/ RefuseConnection \/ NoResources \/ NewChannel
    \/ ChannelData \/ DisconnectRequest \/ DisconnectResponse

LEMMA OnlyHandlers ==
  ASSUME TaskInv, [Next]_vars, data # <<>>, data' = Tail(data)
  PROVE  HandlesPacket
<1>1. data' # data
  <2>1. PICK n \in Nat : n = Len(data)
    BY LenProperties DEF TaskInv, TaskTypes
  <2>2. Len(Tail(data)) < n
    BY <2>1, TailShorter DEF TaskInv, TaskTypes
  <2>3. QED
    BY <2>1, <2>2, LengthsTell
<1>2. ~PeerSends
  <2>1. SUFFICES ASSUME NEW m, data' = Append(data, m) PROVE FALSE
    BY DEF PeerSends
  <2>2. Tail(data) = Append(data, m)
    BY <2>1
  <2>3. QED
    BY <2>2, AppendLonger DEF TaskInv, TaskTypes
<1>3. ~(LinkUp \/ LinkDown \/ LinkStays \/ OddEvent \/ PacketsDone \/ EventsDone)
  BY <1>1 DEF LinkUp, LinkDown, LinkStays, OddEvent, PacketsDone, EventsDone
<1>4. ~(ConnectionComplete \/ DisconnectionComplete \/ ModeChange)
  BY <1>1 DEF ConnectionComplete, DisconnectionComplete, ModeChange
<1>5. ~(Configured \/ ConfigureFails \/ SessionEnds \/ UNCHANGED vars)
  BY <1>1 DEF Configured, ConfigureFails, SessionEnds, vars
<1>6. QED
  BY <1>2, <1>3, <1>4, <1>5 DEF Next, HandlesPacket

LEMMA StepReaches == ASSUME LinkInv, TaskInv, [Next]_vars PROVE PacketReaches
<1>1. SUFFICES ASSUME data # <<>>, data' = Tail(data) PROVE PacketReaches
  BY DEF PacketReaches
<1>2. Packet.handle \in Handles /\ Packet.life # 0
  BY <1>1, PacketTaken DEF Received
<1> DEFINE h == Packet.handle
           n == Content.task
           lost == ~Live(n) \/ tasks[n].told # "no"
<1>3. \/ connections[h] = Packet.life \/ link[h] # Packet.life
      \/ Packet.life \in forgotten \/ Awaited("ConnectionComplete", Packet.life)
  BY <1>2, EventsBetween
<1>4. connections[h] \notin {0, Packet.life} /\ link[h] = Packet.life =>
        Awaited("DisconnectionComplete", connections[h])
  BY <1>2, EventsBetween
<1>5. /\ outcome'.what = "dropped" => connections[h] = 0
      /\ outcome'.what = "delivered" => outcome'.to = n \/ lost
      /\ Content.kind \in {"Data", "DisconnectionRequest"} /\ outcome'.what \in {"unread", "InvalidCid"} =>
            lost
      /\ outcome'.what = "RefusedNoResources" =>
            \A c \in Cids : \E m \in DOMAIN tasks : Live(m) /\ tasks[m].cid = c
  <2>1. CASE UnknownConnectionHandle
    BY <2>1 DEF UnknownConnectionHandle, Became
  <2>2. CASE EchoRequest
    BY <2>2 DEF EchoRequest, Became
  <2>3. CASE RefuseConnection
    BY <2>3 DEF RefuseConnection, Became, Refusal
  <2>4. CASE NoResources
    <3>1. \A c \in Cids : \E m \in DOMAIN tasks : Live(m) /\ tasks[m].cid = c
      BY <2>4, IdsHeld DEF NoResources
    <3>2. QED
      BY <2>4, <3>1 DEF NoResources, Became
  <2>5. CASE NewChannel
    <3>1. outcome'.what \in {"accepted", "rejected"}
      BY <2>5 DEF NewChannel, Became
    <3>2. QED
      BY <3>1
  <2>6. CASE ChannelData
    <3>1. lost \/ channels[Content.cid] = n
      BY <1>1, <2>6, TaskBehindId DEF ChannelData, Signal
    <3>2. \/ outcome' = [what |-> "delivered", to |-> channels[Content.cid]]
          \/ outcome' = [what |-> "unread"] /\ ~Live(channels[Content.cid])
      BY <2>6 DEF ChannelData, Delivered, Became, Holder
    <3>3. QED
      BY <3>1, <3>2
  <2>7. CASE DisconnectRequest
    <3>1. lost \/ channels[Content.cid] = n
      BY <1>1, <2>7, TaskBehindId DEF DisconnectRequest, Signal
    <3>2. \/ outcome' = [what |-> "delivered", to |-> channels[Content.cid]]
          \/ outcome' = [what |-> "InvalidCid"] /\ channels[Content.cid] = 0
      BY <2>7 DEF DisconnectRequest, Delivered, Became, Holder
    <3>3. QED
      BY <3>1, <3>2 DEF Live
  <2>8. CASE DisconnectResponse
    BY <2>8 DEF DisconnectResponse, Became
  <2>9. QED
    BY <1>1, <2>1, <2>2, <2>3, <2>4, <2>5, <2>6, <2>7, <2>8, OnlyHandlers DEF HandlesPacket
<1>6. QED
  BY <1>3, <1>4, <1>5 DEF PacketReaches

(***************************************************************************)
(* A packet is handled for the link it came over and reaches the task it   *)
(* is meant for, but in the cases DataReachesConnection names, for any     *)
(* number of links, channels and packets (l2cap/mod.rs:96-131, 202-249).   *)
(***************************************************************************)
THEOREM PacketsReachConnections == Cids \subseteq Nat => (Spec => DataReachesConnection)
<1> SUFFICES ASSUME Cids \subseteq Nat PROVE Spec => DataReachesConnection
  OBVIOUS
<1>1. LinkInv /\ TaskInv /\ [Next]_vars => [PacketReaches]_vars
  BY StepReaches
<1>2. QED
  BY <1>1, Invariants, PTL DEF Spec, DataReachesConnection
=============================================================================
