----------------------------- MODULE AclTransfer -----------------------------
(***************************************************************************)
(* L2CAP PDUs over ACL packets: tasks cut PDUs into chunks and queue them  *)
(* one by one through clones of one AclSender (hci/mod.rs); the receiving  *)
(* side puts the chunks of a connection together again with an             *)
(* AclDataAssembler (hci/acl.rs).  The queue and the link keep the order,  *)
(* but a failed transfer loses a packet and only logs it.                  *)
(*                                                                         *)
(* Sizes are counted in units of which one holds the L2CAP header, so that *)
(* the first chunk of a PDU always has its length field.                   *)
(***************************************************************************)
EXTENDS Naturals, Sequences, SequencesExt

CONSTANTS
  Tasks,     (* the tasks that hold an AclSender                            *)
  Pdus,      (* the PDUs each task sends, a sequence                        *)
  Handles,   (* the connections                                             *)
  HandleOf,  (* the connection each task sends on                           *)
  Size,      (* the units of each PDU                                       *)
  MaxSize,   (* AclSender::max_size                                         *)
  MaxLost    (* bound: packets lost                                         *)

AllPdus == UNION {{Pdus[t][i] : i \in 1..Len(Pdus[t])} : t \in Tasks}

ASSUME PdusAssumption ==
  /\ Pdus \in [Tasks -> Seq(AllPdus)]
  /\ MaxSize \in Nat \ {0} /\ Size \in [AllPdus -> Nat \ {0}]
ASSUME HandlesAssumption == HandleOf \in [Tasks -> Handles] /\ MaxLost \in Nat

VARIABLES
  pdu,         (* the index of the PDU each task is sending                 *)
  sent,        (* how many of its units are queued                          *)
  queue,       (* the ACL packets under way, on all connections             *)
  pduBuffer,   (* AclDataAssembler::buffer of each connection               *)
  pduLength,   (* its l2cap_pdu_length, header included                     *)
  inProgress,  (* its in_progress                                           *)
  assembled,   (* history: what push() returned                             *)
  interrupted, (* history: connections on which a start met in_progress     *)
  lost         (* packets lost so far                                       *)

sender == <<pdu, sent>>
assemblers == <<pduBuffer, pduLength, inProgress, assembled, interrupted>>
transferVars == <<sender, queue, assemblers, lost>>

(* Units first to last of PDU p. *)
Units(p, first, last) == [i \in 1..(last - first + 1) |-> <<p, first + i - 1>>]
Whole(p) == Units(p, 1, Size[p])

TransferInit ==
  /\ pdu = [t \in Tasks |-> 1]
  /\ sent = [t \in Tasks |-> 0]
  /\ queue = <<>>
  /\ pduBuffer = [h \in Handles |-> <<>>]
  /\ pduLength = [h \in Handles |-> 0]
  /\ inProgress = [h \in Handles |-> FALSE]
  /\ assembled = [h \in Handles |-> <<>>]
  /\ interrupted = {}
  /\ lost = 0

(* Mutant: every chunk is marked as the first one. *)
SendChunk_AlwaysFirst(t) ==
  /\ pdu[t] <= Len(Pdus[t])
  /\ LET p == Pdus[t][pdu[t]]
         last == IF sent[t] + MaxSize < Size[p] THEN sent[t] + MaxSize ELSE Size[p]
     IN /\ queue' = Append(queue, [handle |-> HandleOf[t], first |-> TRUE,
                                   data |-> Units(p, sent[t] + 1, last)])
        /\ sent' = [sent EXCEPT ![t] = IF last = Size[p] THEN 0 ELSE last]
        /\ pdu' = [pdu EXCEPT ![t] = IF last = Size[p] THEN @ + 1 ELSE @]
  /\ UNCHANGED <<assemblers, lost>>

(* One turn of the loop of AclSender::send; the channel is unbounded, and  *)
(* another task's chunk may come between two of this one's.                *)
SendChunk(t) ==
  /\ pdu[t] <= Len(Pdus[t])
  /\ LET p == Pdus[t][pdu[t]]
         last == IF sent[t] + MaxSize < Size[p] THEN sent[t] + MaxSize ELSE Size[p]
     IN /\ queue' = Append(queue, [handle |-> HandleOf[t], first |-> sent[t] = 0,
                                   data |-> Units(p, sent[t] + 1, last)])
        /\ sent' = [sent EXCEPT ![t] = IF last = Size[p] THEN 0 ELSE last]
        /\ pdu' = [pdu EXCEPT ![t] = IF last = Size[p] THEN @ + 1 ELSE @]
  /\ UNCHANGED <<assemblers, lost>>

(* Mutant: a start packet is added to what the buffer holds. *)
Buffered_NotCleared(h, pkt) == pduBuffer[h] \o pkt.data

(* The buffer with the packet's data: a start packet clears it first. *)
Buffered(h, pkt) == IF pkt.first THEN pkt.data ELSE pduBuffer[h] \o pkt.data

(* Compare the buffer with the length of its PDU. *)
Push(h, pkt) ==
  LET units == Buffered(h, pkt)
      len == IF pkt.first THEN Size[pkt.data[1][1]] ELSE pduLength[h]
  IN /\ interrupted' = IF pkt.first /\ inProgress[h] THEN interrupted \cup {h} ELSE interrupted
     /\ pduLength' = [pduLength EXCEPT ![h] = len]
     /\ inProgress' = [inProgress EXCEPT ![h] = Len(units) < len]
     /\ assembled' = IF Len(units) = len THEN [assembled EXCEPT ![h] = Append(@, units)] ELSE assembled
     /\ pduBuffer' = [pduBuffer EXCEPT ![h] = IF Len(units) = len THEN <<>> ELSE units]

(* AclDataAssembler::push; "A continuation packet should not be the first  *)
(* packet": it is dropped.                                                 *)
PushPacket ==
  /\ queue # <<>>
  /\ queue' = Tail(queue)
  /\ LET pkt == Head(queue) IN
     IF pkt.first \/ inProgress[pkt.handle]
     THEN Push(pkt.handle, pkt)
     ELSE UNCHANGED assemblers
  /\ UNCHANGED <<sender, lost>>

(* The transfer of some packet under way fails. *)
LosePacket ==
  /\ lost < MaxLost
  /\ \E i \in 1..Len(queue) : queue' = RemoveAt(queue, i)
  /\ lost' = lost + 1
  /\ UNCHANGED <<sender, assemblers>>

TransferNext == (\E t \in Tasks : SendChunk(t)) \/ PushPacket \/ LosePacket

TransferSpec == TransferInit /\ [][TransferNext]_transferVars

(* A task does not stop in the middle of send(), and the link delivers. *)
FairTransfer ==
  /\ TransferSpec
  /\ \A t \in Tasks : WF_transferVars(SendChunk(t) /\ sent[t] # 0)
  /\ WF_transferVars(PushPacket)

-----------------------------------------------------------------------------
(* The tasks that send on connection h. *)
Senders(h) == {t \in Tasks : HandleOf[t] = h}

(***************************************************************************)
(* No packet lost, no start packet finds a PDU in progress: the assertion  *)
(* of push() holds.  It needs one sending task per connection: send()      *)
(* queues chunk by chunk, and nothing keeps two tasks apart.               *)
(***************************************************************************)
NeverInterrupted == lost = 0 => interrupted = {}

(***************************************************************************)
(* After at most one lost packet what push() returns are PDUs as they were *)
(* sent, each at most once and in order; two losses can splice the start   *)
(* of one PDU and the end of another.                                      *)
(***************************************************************************)
AssembledWhole ==
  lost <= 1 =>
    \A h \in Handles : assembled[h] # <<>> =>
      \E t \in Senders(h) :
        \E picked \in [1..Len(assembled[h]) -> 1..Len(Pdus[t])] :
          /\ \A i \in 1..Len(assembled[h]) : assembled[h][i] = Whole(Pdus[t][picked[i]])
          /\ \A i, j \in 1..Len(assembled[h]) : i < j => picked[i] < picked[j]

(***************************************************************************)
(* Every PDU sent on a connection is assembled unless a packet is lost.    *)
(***************************************************************************)
AllArrive ==
  \A t \in Tasks : \A i \in 1..Len(Pdus[t]) :
    pdu[t] > i ~> \/ lost > 0
                 \/ \E j \in 1..Len(assembled[HandleOf[t]]) :
                      assembled[HandleOf[t]][j] = Whole(Pdus[t][i])

=============================================================================
