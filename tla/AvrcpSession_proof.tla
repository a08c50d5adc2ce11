------------------------- MODULE AvrcpSession_proof -------------------------
(***************************************************************************)
(* An AVRCP session, for any calls, labels, queues and commands of the     *)
(* peer.  First, it keeps the promise of CallService: every caller is told *)
(* once, and the end of the session tells all that wait; what has to be    *)
(* shown is that a caller that waits is never lost, its call being in the  *)
(* queue of commands or owning a label.  Then the labels: a call is given  *)
(* the answer to its own command, no label leaks but the two stranded      *)
(* records, every command of the peer is answered; and the volumes of both *)
(* sides agree.                                                            *)
(***************************************************************************)
EXTENDS AvrcpSession, SequenceTheorems, WellFoundedInduction, TLAPS

Statuses == {"new", "waiting", "ok", "error", "nolabel", "closed", "dropped"}
Queued == [kind : {"call"}, call : Calls] \cup [kind : {"volume"}, volume : Volumes]

(* The part of the type invariant the callers depend on. *)
CallTypes ==
  /\ status \in [Calls -> Statuses]
  /\ running \in BOOLEAN
  /\ transaction \in [Labels -> Transaction]
  /\ commands \in Seq(Queued)

Owned(l, c) == transaction[l].call = c /\ transaction[l].state \in {"pass", "status", "register"}
InQueue(c) == \E i \in 1..Len(commands) : commands[i].kind = "call" /\ commands[i].call = c

(***************************************************************************)
(* A caller that waits is known to the session: State::commands has its    *)
(* call, or outstanding_transactions its sender (avrcp/mod.rs:126-137).    *)
(***************************************************************************)
WaitersHeld ==
  \A c \in Calls : status[c] = "waiting" => InQueue(c) \/ \E l \in Labels : Owned(l, c)

CallInv == CallTypes /\ WaitersHeld

-----------------------------------------------------------------------------
(* The first of the free labels is a free label. *)
LEMMA FirstFree == ASSUME Free # {} PROVE First(Free) \in Free
<1>1. Free \subseteq Nat
  BY AvrcpAssumption DEF Free, Labels
<1>2. PICK l \in Free : \A k \in Free : ~(<<k, l>> \in OpToRel(<, Nat))
  BY <1>1, WFMin, NatLessThanWellFounded
<1>3. \A k \in Free : ~(k < l)
  BY <1>1, <1>2 DEF OpToRel
<1>4. \A k \in Free : l <= k
  BY <1>1, <1>3
<1>5. QED
  BY <1>4 DEF First

(* The queue of commands: what a step takes and what stays. *)
LEMMA QueueTail ==
  ASSUME commands \in Seq(Queued), commands # <<>>, commands' = Tail(commands)
  PROVE  /\ Head(commands) \in Queued
         /\ commands' \in Seq(Queued)
         /\ \A c \in Calls : InQueue(c) =>
              \/ InQueue(c)'
              \/ Head(commands).kind = "call" /\ Head(commands).call = c
<1>1. /\ Head(commands) = commands[1] /\ commands[1] \in Queued
      /\ commands' \in Seq(Queued)
      /\ Len(commands') = Len(commands) - 1
      /\ \A i \in 1..Len(commands') : commands'[i] = commands[i + 1]
  BY HeadTailProperties, ElementOfSeq
<1>2. ASSUME NEW c \in Calls, InQueue(c), ~(commands[1].kind = "call" /\ commands[1].call = c)
      PROVE  InQueue(c)'
  <2>1. PICK i \in 1..Len(commands) : commands[i].kind = "call" /\ commands[i].call = c
    BY <1>2 DEF InQueue
  <2>2. i # 1 /\ i - 1 \in 1..Len(commands') /\ commands'[i - 1] = commands[i]
    BY <1>1, <1>2, <2>1, LenProperties
  <2>3. QED
    BY <2>1, <2>2 DEF InQueue
<1>3. QED
  BY <1>1, <1>2

LEMMA QueueAppend ==
  ASSUME commands \in Seq(Queued), NEW m \in Queued, commands' = Append(commands, m)
  PROVE  /\ commands' \in Seq(Queued)
         /\ \A c \in Calls : InQueue(c) => InQueue(c)'
         /\ m.kind = "call" => InQueue(m.call)'
<1>1. /\ commands' \in Seq(Queued) /\ Len(commands') = Len(commands) + 1
      /\ \A i \in 1..Len(commands) : commands'[i] = commands[i]
      /\ commands'[Len(commands) + 1] = m /\ Len(commands) \in Nat
  BY AppendProperties, LenProperties
<1>2. QED
  BY <1>1 DEF InQueue

(* What a call is told changes its status only if it waits. *)
LEMMA Told ==
  ASSUME status \in [Calls -> Statuses], NEW c, NEW r \in {"ok", "error", "nolabel", "closed"},
         Tell(c, r)
  PROVE  /\ status' \in [Calls -> Statuses]
         /\ \A d \in Calls : status'[d] = IF d = c /\ status[d] = "waiting" THEN r ELSE status[d]
BY DEF Tell, Statuses

-----------------------------------------------------------------------------
(* Steps that leave the queue and the labels alone keep the invariant.     *)
LEMMA CallFrame ==
  ASSUME CallInv, UNCHANGED <<status, running, transaction, commands>>
  PROVE  CallInv'
BY DEF CallInv, CallTypes, WaitersHeld, InQueue, Owned

(* A label is freed, or waits for a change, and its call is told.  A label *)
(* that is not one of the sixteen is not in the table.                     *)
LEMMA CallFinished ==
  ASSUME CallInv, NEW l, NEW r \in {"ok", "error", "nolabel", "closed"}, UNCHANGED <<running, commands>>,
         Tell(transaction[l].call, r),
         \/ transaction' = [transaction EXCEPT ![l] = Empty]
         \/ /\ transaction[l].state = "register"
            /\ transaction' = [transaction EXCEPT ![l].state = "change"]
  PROVE  CallInv'
<1>1. transaction' \in [Labels -> Transaction] /\ \A k \in Labels : k # l => transaction'[k] = transaction[k]
  <2>1. CASE l \notin Labels
    <3>1. transaction' = transaction
      BY <2>1 DEF CallInv, CallTypes
    <3>2. QED
      BY <3>1 DEF CallInv, CallTypes
  <2>2. CASE l \in Labels /\ transaction' = [transaction EXCEPT ![l] = Empty]
    BY <2>2 DEF CallInv, CallTypes, Transaction
  <2>3. CASE /\ l \in Labels /\ transaction[l].state = "register"
             /\ transaction' = [transaction EXCEPT ![l].state = "change"]
    <3>1. transaction[l] \in [state : {"pass", "status", "register", "change"}, call : Calls]
      BY <2>3 DEF CallInv, CallTypes, Transaction, Empty
    <3>2. [transaction[l] EXCEPT !.state = "change"] \in Transaction
      BY <3>1 DEF Transaction
    <3>3. QED
      BY <2>3, <3>2 DEF CallInv, CallTypes
  <2>4. QED
    BY <2>1, <2>2, <2>3
<1>2. /\ status' \in [Calls -> Statuses]
      /\ \A d \in Calls : status'[d] = "waiting" => status[d] = "waiting" /\ d # transaction[l].call
  BY Told DEF CallInv, CallTypes
<1>3. CallTypes'
  BY <1>1, <1>2 DEF CallInv, CallTypes
<1>4. ASSUME NEW c \in Calls, status'[c] = "waiting"
      PROVE  InQueue(c)' \/ \E k \in Labels : Owned(k, c)'
  <2>1. status[c] = "waiting" /\ c # transaction[l].call
    BY <1>2, <1>4
  <2>2. CASE InQueue(c)
    BY <2>2 DEF InQueue
  <2>3. CASE \E k \in Labels : Owned(k, c)
    <3>1. PICK k \in Labels : Owned(k, c)
      BY <2>3
    <3>2. k # l
      BY <2>1, <3>1 DEF Owned
    <3>3. QED
      BY <1>1, <3>1, <3>2 DEF Owned
  <2>4. QED
    BY <2>1, <2>2, <2>3 DEF CallInv, WaitersHeld
<1>5. QED
  BY <1>3, <1>4 DEF CallInv, WaitersHeld

(* A label whose call has been told already changes hands with no one.     *)
LEMMA CallReleased ==
  ASSUME CallInv, NEW l, transaction[l].state = "change", UNCHANGED <<status, running, commands>>,
         transaction' = [transaction EXCEPT ![l] = Empty]
  PROVE  CallInv'
<1>1. /\ transaction' \in [Labels -> Transaction]
      /\ \A k \in Labels : k # l => transaction'[k] = transaction[k]
  BY DEF CallInv, CallTypes, Transaction
<1>2. \A k \in Labels, c \in Calls : Owned(k, c) => Owned(k, c)'
  <2>1. SUFFICES ASSUME NEW k \in Labels, NEW c \in Calls, Owned(k, c) PROVE Owned(k, c)'
    OBVIOUS
  <2>2. k # l
    BY <2>1 DEF Owned
  <2>3. QED
    BY <1>1, <2>1, <2>2 DEF Owned
<1>3. QED
  BY <1>1, <1>2 DEF CallInv, CallTypes, WaitersHeld, InQueue

(* Complete, whatever state the label is in. *)
LEMMA CallComplete ==
  ASSUME CallInv, NEW l, NEW code, NEW data, Complete(l, code, data), UNCHANGED <<running, commands>>
  PROVE  CallInv'
<1>1. CASE transaction[l].state \in {"status", "register"}
  <2>1. \E r \in {"ok", "error"} : Tell(transaction[l].call, r)
    BY <1>1 DEF Complete
  <2>2. \/ transaction' = [transaction EXCEPT ![l] = Empty]
        \/ /\ transaction[l].state = "register"
           /\ transaction' = [transaction EXCEPT ![l].state = "change"]
    BY <1>1 DEF Complete
  <2>3. QED
    BY <2>1, <2>2, CallFinished
<1>2. CASE transaction[l].state = "change"
  BY <1>2, CallReleased DEF Complete, caller
<1>3. CASE transaction[l].state \notin {"status", "register", "change"}
  BY <1>3, CallFrame DEF Complete, caller
<1>4. QED
  BY <1>1, <1>2, <1>3

(* The end of the session: the senders it holds are those of all that wait. *)
LEMMA EndTellsAll ==
  ASSUME CallInv, End
  PROVE  /\ \A c \in Calls : status'[c] = IF status[c] = "waiting" THEN "closed" ELSE status[c]
         /\ CallInv'
<1>1. \A c \in Calls : status[c] = "waiting" => c \in Held
  <2>1. SUFFICES ASSUME NEW c \in Calls, status[c] = "waiting" PROVE c \in Held
    OBVIOUS
  <2>2. CASE InQueue(c)
    BY <2>2 DEF InQueue, Held
  <2>3. CASE \E l \in Labels : Owned(l, c)
    BY <2>3 DEF Owned, Held
  <2>4. QED
    BY <2>1, <2>2, <2>3 DEF CallInv, WaitersHeld
<1>2. \A c \in Calls : status'[c] = IF status[c] = "waiting" THEN "closed" ELSE status[c]
  BY <1>1 DEF End
<1>3. status' \in [Calls -> Statuses]
  BY <1>2 DEF End, CallInv, CallTypes, Statuses
<1>4. CallTypes'
  BY <1>3, EmptySeq DEF End, CallTypes, Transaction
<1>5. \A c \in Calls : status'[c] # "waiting"
  BY <1>2
<1>6. QED
  BY <1>2, <1>4, <1>5 DEF CallInv, WaitersHeld

-----------------------------------------------------------------------------
LEMMA InitCallInv == Init => CallInv
<1> SUFFICES ASSUME Init PROVE CallInv
  OBVIOUS
<1>1. CallTypes
  BY EmptySeq DEF Init, CallTypes, Statuses, Transaction
<1>2. QED
  BY <1>1 DEF Init, CallInv, WaitersHeld

LEMMA CallKeeps == ASSUME CallInv, NEW c \in Calls, Call(c) PROVE CallInv'
<1>1. CASE running
  <2>1. Request(c) \in Queued /\ Request(c).kind = "call" /\ Request(c).call = c
    BY DEF Request, Queued
  <2>2. commands' \in Seq(Queued) /\ InQueue(c)' /\ \A d \in Calls : InQueue(d) => InQueue(d)'
    BY <1>1, <2>1, QueueAppend DEF Call, CallInv, CallTypes
  <2>3. /\ status' \in [Calls -> Statuses]
        /\ \A d \in Calls : d # c => status'[d] = status[d]
    BY <1>1 DEF Call, CallInv, CallTypes, Statuses
  <2>4. QED
    BY <2>2, <2>3 DEF Call, CallInv, CallTypes, WaitersHeld, Owned
<1>2. CASE ~running
  <2>1. /\ status' \in [Calls -> Statuses]
        /\ \A d \in Calls : status'[d] = "waiting" => status[d] = "waiting"
    BY <1>2 DEF Call, CallInv, CallTypes, Statuses
  <2>2. QED
    BY <1>2, <2>1 DEF Call, CallInv, CallTypes, WaitersHeld, Owned, InQueue
<1>3. QED
  BY <1>1, <1>2

LEMMA CancelKeeps == ASSUME CallInv, NEW c \in Calls, Cancel(c) PROVE CallInv'
<1>1. /\ status' \in [Calls -> Statuses]
      /\ \A d \in Calls : status'[d] = "waiting" => status[d] = "waiting"
  BY DEF Cancel, CallInv, CallTypes, Statuses
<1>2. QED
  BY <1>1 DEF Cancel, CallInv, CallTypes, WaitersHeld, Owned, InQueue

(* A command is taken and sent: its call moves from the queue to a label.  *)
LEMMA SendCommandKeeps == ASSUME CallInv, SendCommand PROVE CallInv'
<1>1. /\ Head(commands) \in Queued /\ Head(commands).kind = "call" /\ commands' \in Seq(Queued)
      /\ \A d \in Calls : InQueue(d) => InQueue(d)' \/ Head(commands).call = d
  BY QueueTail DEF SendCommand, NextCommand, CallInv, CallTypes
<1>2. PICK c \in Calls : c = Head(commands).call
  BY <1>1 DEF Queued
<1>3. PICK l \in Labels : l = First(Free) /\ transaction[l] = Empty
  BY FirstFree DEF SendCommand, Free
<1>4. CASE linkUp
  <2>1. transaction' = [transaction EXCEPT ![l] = [state |-> Kind[c], call |-> c]] /\ UNCHANGED status
    BY <1>2, <1>3, <1>4 DEF SendCommand
  <2>2. Kind[c] \in {"pass", "status", "register"}
    BY AvrcpAssumption
  <2>3. /\ transaction' \in [Labels -> Transaction]
        /\ transaction'[l].state = Kind[c] /\ transaction'[l].call = c
        /\ \A k \in Labels : k # l => transaction'[k] = transaction[k]
    BY <2>1, <2>2 DEF CallInv, CallTypes, Transaction
  <2>4. Owned(l, c)'
    BY <2>2, <2>3 DEF Owned
  <2>5. \A k \in Labels, d \in Calls : Owned(k, d) => Owned(k, d)'
    <3>1. SUFFICES ASSUME NEW k \in Labels, NEW d \in Calls, Owned(k, d) PROVE Owned(k, d)'
      OBVIOUS
    <3>2. k # l
      BY <1>3, <3>1 DEF Owned, Empty
    <3>3. QED
      BY <2>3, <3>1, <3>2 DEF Owned
  <2>6. WaitersHeld'
    BY <1>1, <1>2, <2>1, <2>4, <2>5 DEF CallInv, WaitersHeld
  <2>7. QED
    BY <1>1, <2>1, <2>3, <2>6 DEF SendCommand, CallInv, CallTypes
<1>5. CASE ~linkUp
  <2>1. Tell(c, "closed") /\ UNCHANGED <<transaction, running>>
    BY <1>2, <1>5 DEF SendCommand
  <2>2. /\ status' \in [Calls -> Statuses]
        /\ \A d \in Calls : status'[d] = "waiting" => status[d] = "waiting" /\ d # c
    BY <2>1, Told DEF CallInv, CallTypes
  <2>3. QED
    BY <1>1, <1>2, <2>1, <2>2 DEF CallInv, CallTypes, WaitersHeld, Owned
<1>6. QED
  BY <1>4, <1>5

LEMMA NoTransactionIdKeeps == ASSUME CallInv, NoTransactionId PROVE CallInv'
<1> DEFINE c == Head(commands).call
<1>1. /\ commands' \in Seq(Queued)
      /\ \A d \in Calls : InQueue(d) => InQueue(d)' \/ (Head(commands).kind = "call" /\ c = d)
  BY QueueTail DEF NoTransactionId, NextCommand, CallInv, CallTypes
<1>2. CASE Head(commands).kind = "call"
  <2>1. Tell(c, "nolabel")
    BY <1>2 DEF NoTransactionId
  <2>2. /\ status' \in [Calls -> Statuses]
        /\ \A d \in Calls : status'[d] = "waiting" => status[d] = "waiting" /\ d # c
    BY <2>1, Told DEF CallInv, CallTypes
  <2>3. QED
    BY <1>1, <2>2 DEF NoTransactionId, CallInv, CallTypes, WaitersHeld, Owned
<1>3. CASE Head(commands).kind # "call"
  BY <1>1, <1>3 DEF NoTransactionId, CallInv, CallTypes, WaitersHeld, Owned
<1>4. QED
  BY <1>2, <1>3

LEMMA UpdatedVolumeKeeps == ASSUME CallInv, UpdatedVolume PROVE CallInv'
<1>1. commands' \in Seq(Queued) /\ \A d \in Calls : InQueue(d) => InQueue(d)'
  BY QueueTail DEF UpdatedVolume, NextCommand, CallInv, CallTypes
<1>2. QED
  BY <1>1 DEF UpdatedVolume, caller, CallInv, CallTypes, WaitersHeld, Owned

LEMMA NotifyKeeps ==
  ASSUME CallInv, NEW v \in Volumes, NotifyLocalVolumeChange(v) PROVE CallInv'
<1>1. Update(v) \in Queued
  BY DEF Update, Queued
<1>2. commands' \in Seq(Queued) /\ \A d \in Calls : InQueue(d) => InQueue(d)'
  BY <1>1, QueueAppend DEF NotifyLocalVolumeChange, CallInv, CallTypes
<1>3. QED
  BY <1>2 DEF NotifyLocalVolumeChange, caller, CallInv, CallTypes, WaitersHeld, Owned

(* The steps that change neither the callers nor what holds their senders. *)
Aside == \/ VendorStart \/ AnswerQuery \/ RegisterNotification \/ SetAbsoluteVolume \/ OverlongVolume
         \/ NextEvent \/ DropSession \/ HangUp \/ LinkDown
         \/ \E e \in holds : PeerChange(e)
         \/ \E l \in Labels, c \in Calls : PeerWorks(l, c)
         \/ \E n \in 1..MaxCommands : \E k \in PeerCommands : PeerCommand(n, k[1], k[2])

LEMMA AsideFrame == ASSUME Aside PROVE UNCHANGED <<status, running, transaction, commands>>
<1>1. CASE VendorStart \/ AnswerQuery \/ RegisterNotification \/ SetAbsoluteVolume \/ OverlongVolume
  BY <1>1 DEF VendorStart, AnswerQuery, RegisterNotification, SetAbsoluteVolume, OverlongVolume, caller
<1>2. CASE NextEvent \/ DropSession \/ HangUp \/ LinkDown
  BY <1>2 DEF NextEvent, DropSession, HangUp, LinkDown, PeerSends, caller
<1>3. CASE \/ \E e \in holds : PeerChange(e)
           \/ \E l \in Labels, c \in Calls : PeerWorks(l, c)
           \/ \E n \in 1..MaxCommands : \E k \in PeerCommands : PeerCommand(n, k[1], k[2])
  BY <1>3 DEF PeerChange, PeerWorks, PeerAnswer, PeerStart, PeerFinish, PeerCommand, PeerSends, caller
<1>4. QED
  BY <1>1, <1>2, <1>3 DEF Aside

(* An answer of a pass-through, or a pass-through of the peer's.           *)
LEMMA PassThroughKeeps == ASSUME CallInv, PassThroughReply \/ PassThroughCommand PROVE CallInv'
<1>1. CASE PassThroughReply
  <2> DEFINE l == Head(inbox).label
  <2>1. CASE transaction[l].state = "pass"
    <3>1. \E r \in {"ok", "error"} : Tell(transaction[l].call, r)
      BY <1>1, <2>1 DEF PassThroughReply
    <3>2. QED
      BY <1>1, <2>1, <3>1, CallFinished DEF PassThroughReply
  <2>2. CASE transaction[l].state # "pass"
    BY <1>1, <2>2, CallFrame DEF PassThroughReply, caller
  <2>3. QED
    BY <2>1, <2>2
<1>2. CASE PassThroughCommand
  <2> DEFINE l == Head(inbox).arg
  <2>1. CASE transaction[l].state = "pass"
    BY <1>2, <2>1, CallFinished DEF PassThroughCommand
  <2>2. CASE transaction[l].state # "pass"
    BY <1>2, <2>2, CallFrame DEF PassThroughCommand
  <2>3. QED
    BY <2>1, <2>2
<1>3. QED
  BY <1>1, <1>2

LEMMA VendorKeeps == ASSUME CallInv, VendorReply \/ VendorEnd PROVE CallInv'
<1>1. CASE VendorReply
  BY <1>1, CallComplete DEF VendorReply
<1>2. CASE VendorEnd
  <2>1. CASE assembler.pdu = Pdu[Head(inbox).call]
    BY <1>2, <2>1, CallComplete DEF VendorEnd
  <2>2. CASE assembler.pdu # Pdu[Head(inbox).call]
    BY <1>2, <2>2, CallFrame DEF VendorEnd, caller
  <2>3. QED
    BY <2>1, <2>2
<1>3. QED
  BY <1>1, <1>2

LEMMA NextCallInv == CallInv /\ [Next]_vars => CallInv'
<1> SUFFICES ASSUME CallInv, [Next]_vars PROVE CallInv'
  OBVIOUS
<1>1. CASE Aside
  BY <1>1, AsideFrame, CallFrame
<1>2. CASE SendCommand \/ NoTransactionId \/ UpdatedVolume
  BY <1>2, SendCommandKeeps, NoTransactionIdKeeps, UpdatedVolumeKeeps
<1>3. CASE PassThroughReply \/ PassThroughCommand \/ VendorReply \/ VendorEnd
  BY <1>3, PassThroughKeeps, VendorKeeps
<1>4. CASE ChannelClosed \/ SessionDropped
  BY <1>4, EndTellsAll DEF ChannelClosed, SessionDropped
<1>5. CASE \/ \E c \in Calls : Call(c) \/ Cancel(c)
           \/ \E v \in Volumes : NotifyLocalVolumeChange(v)
  BY <1>5, CallKeeps, CancelKeeps, NotifyKeeps
<1>6. CASE UNCHANGED vars
  BY <1>6, CallFrame DEF vars, caller
<1>7. QED
  BY <1>1, <1>2, <1>3, <1>4, <1>5, <1>6 DEF Next, SessionStep, Aside

(***************************************************************************)
(* A caller that waits for the session is in its queue or owns a label,    *)
(* in every reachable state (avrcp/mod.rs:126-137, 225-241, 404-428).      *)
(***************************************************************************)
THEOREM CallersHeld == Spec => []CallInv
BY InitCallInv, NextCallInv, PTL DEF Spec

-----------------------------------------------------------------------------
(* Implementation of CallService.                                          *)

LEMMA ServiceFrame == ASSUME UNCHANGED <<status, running>> PROVE UNCHANGED Service!vars
BY DEF Service!vars

(* A step that tells c, and no one else, while the session runs. *)
LEMMA ServiceTell ==
  ASSUME CallInv, running, UNCHANGED running,
         NEW c, NEW r \in {"ok", "error", "nolabel", "closed"}, Tell(c, r)
  PROVE  [Service!Next]_(Service!vars)
<1>1. CASE c \in Calls /\ status[c] = "waiting"
  <2>1. \A d \in Calls : status'[d] = IF d = c THEN r ELSE status[d]
    BY <1>1, Told DEF CallInv, CallTypes
  <2>2. Outcome(status[c]) = "pending" /\ Outcome(r) \in {"succeeded", "failed"}
    BY <1>1 DEF Outcome
  <2>3. [d \in Calls |-> Outcome(status'[d])]
          = [[d \in Calls |-> Outcome(status[d])] EXCEPT ![c] = Outcome(r)]
    BY <2>1
  <2>4. Service!Answer(c)
    BY <1>1, <2>2, <2>3 DEF Service!Answer
  <2>5. QED
    BY <1>1, <2>4 DEF Service!Next
<1>2. CASE ~(c \in Calls /\ status[c] = "waiting")
  <2>1. status' = status
    BY <1>2 DEF Tell, CallInv, CallTypes
  <2>2. QED
    BY <2>1, ServiceFrame
<1>3. QED
  BY <1>1, <1>2

(* The end of the session is the end of the service. *)
LEMMA ServiceClose == ASSUME CallInv, running, End PROVE Service!Close
<1>1. \A c \in Calls : status'[c] = IF status[c] = "waiting" THEN "closed" ELSE status[c]
  BY EndTellsAll
<1>2. \A s \in Statuses : Outcome(s) = "pending" <=> s = "waiting"
  BY DEF Outcome, Statuses
<1>3. Outcome("closed") = "failed"
  BY DEF Outcome
<1>4. \A c \in Calls : Outcome(status'[c]) = IF Outcome(status[c]) = "pending" THEN "failed"
                                             ELSE Outcome(status[c])
  BY <1>1, <1>2, <1>3 DEF CallInv, CallTypes
<1>5. QED
  BY <1>4 DEF End, Service!Close

LEMMA ServiceCall == ASSUME CallInv, NEW c \in Calls, Call(c) PROVE Service!Ask(c)
<1>1. /\ status[c] = "new" /\ UNCHANGED running
      /\ \A d \in Calls : status'[d] = IF d # c THEN status[d] ELSE IF running THEN "waiting" ELSE "closed"
  BY DEF Call, CallInv, CallTypes
<1>2. Outcome("new") = "new" /\ Outcome("waiting") = "pending" /\ Outcome("closed") = "failed"
  BY DEF Outcome
<1>3. [d \in Calls |-> Outcome(status'[d])]
        = [[d \in Calls |-> Outcome(status[d])] EXCEPT ![c] = IF ~running THEN "failed" ELSE "pending"]
  BY <1>1, <1>2
<1>4. QED
  BY <1>1, <1>2, <1>3 DEF Service!Ask

LEMMA ServiceCancel == ASSUME CallInv, NEW c \in Calls, Cancel(c) PROVE Service!Abandon(c)
<1>1. /\ status[c] = "waiting" /\ UNCHANGED running
      /\ \A d \in Calls : status'[d] = IF d # c THEN status[d] ELSE "dropped"
  BY DEF Cancel, CallInv, CallTypes
<1>2. Outcome("waiting") = "pending" /\ Outcome("dropped") = "abandoned"
  BY DEF Outcome
<1>3. [d \in Calls |-> Outcome(status'[d])]
        = [[d \in Calls |-> Outcome(status[d])] EXCEPT ![c] = "abandoned"]
  BY <1>1, <1>2
<1>4. QED
  BY <1>1, <1>2, <1>3 DEF Service!Abandon

(* The steps that tell a caller, or none, while the session goes on. *)
LEMMA ServiceStep ==
  ASSUME CallInv,
         \/ SendCommand \/ NoTransactionId \/ UpdatedVolume
         \/ PassThroughReply \/ PassThroughCommand \/ VendorReply \/ VendorEnd
  PROVE  [Service!Next]_(Service!vars)
<1>1. running /\ UNCHANGED running
  BY DEF SendCommand, NoTransactionId, UpdatedVolume, PassThroughReply, PassThroughCommand, VendorReply,
         VendorEnd, NextCommand, NextMessage
<1>2. \/ UNCHANGED status
      \/ \E c : \E r \in {"ok", "error", "nolabel", "closed"} : Tell(c, r)
  <2>1. CASE SendCommand \/ NoTransactionId \/ UpdatedVolume
    BY <2>1 DEF SendCommand, NoTransactionId, UpdatedVolume, caller
  <2>2. CASE PassThroughReply \/ PassThroughCommand
    BY <2>2 DEF PassThroughReply, PassThroughCommand, caller
  <2>3. CASE VendorReply \/ VendorEnd
    BY <2>3 DEF VendorReply, VendorEnd, Complete, caller
  <2>4. QED
    BY <2>1, <2>2, <2>3
<1>3. QED
  BY <1>1, <1>2, ServiceFrame, ServiceTell

LEMMA NextService == CallInv /\ [Next]_vars => [Service!Next]_(Service!vars)
<1> SUFFICES ASSUME CallInv, [Next]_vars PROVE [Service!Next]_(Service!vars)
  OBVIOUS
<1>1. CASE UNCHANGED <<status, running>>
  BY <1>1, ServiceFrame
<1>2. CASE Aside
  BY <1>1, <1>2, AsideFrame
<1>3. CASE \/ SendCommand \/ NoTransactionId \/ UpdatedVolume
           \/ PassThroughReply \/ PassThroughCommand \/ VendorReply \/ VendorEnd
  BY <1>3, ServiceStep
<1>4. CASE ChannelClosed \/ SessionDropped
  BY <1>4, ServiceClose DEF ChannelClosed, SessionDropped, Service!Next
<1>5. CASE \E c \in Calls : Call(c) \/ Cancel(c)
  BY <1>5, ServiceCall, ServiceCancel DEF Service!Next
<1>6. CASE \E v \in Volumes : NotifyLocalVolumeChange(v)
  BY <1>1, <1>6 DEF NotifyLocalVolumeChange, caller
<1>7. CASE UNCHANGED vars
  BY <1>1, <1>7 DEF vars, caller
<1>8. QED
  BY <1>2, <1>3, <1>4, <1>5, <1>6, <1>7 DEF Next, SessionStep, Aside

(***************************************************************************)
(* The session implements the service of calls, for any calls and any      *)
(* number of labels: whatever label is reused, refused or never answered,  *)
(* each caller is told at most once, and the end of State::run tells every *)
(* one that waits, in the queue or on the air.                             *)
(***************************************************************************)
THEOREM ServiceImplemented == Spec => ImplementsService
<1>1. Init => Service!Init
  <2>1. Outcome("new") = "new"
    BY DEF Outcome
  <2>2. QED
    BY <2>1 DEF Init, Service!Init
<1>2. QED
  BY <1>1, NextService, CallersHeld, PTL DEF Spec, ImplementsService, Service!Spec

-----------------------------------------------------------------------------
(***************************************************************************)
(* Labels, transactions and volumes.  The invariant that follows is about  *)
(* the tokens of a label: the command the peer has not finished with, and  *)
(* the answers on their way.  A token says what state the label is in, a   *)
(* label has one (a registration, for a time, its interim answer and what  *)
(* stands for its change), and a label that is not free has one unless it  *)
(* is stranded.                                                            *)
(***************************************************************************)
Answers == {"reply", "start", "end"}
Asks == {"query", "register", "setvolume", "overlong"}

Command == {[kind |-> k[1], tx |-> n, arg |-> k[2]] : k \in PeerCommands, n \in 1..MaxCommands}
Message == [kind : {"reply"}, label : Labels, call : Calls, code : {"ok", "rejected", "changed"}]
             \cup [kind : {"start", "end"}, label : Labels, call : Calls]
             \cup Command
             \cup [kind : {"close"}]
Event == [kind : {"changed"}, call : Calls] \cup [kind : {"volume"}, volume : Volumes]

QueueTypes == inbox \in Seq(Message) /\ events \in Seq(Event) /\ commands \in Seq(Queued)

Types == TypeOK /\ QueueTypes

(* The calls whose answers find their label: a pass-through may have lost  *)
(* it to one of the peer's.                                                *)
Good(c) == Kind[c] # "pass" \/ taken = {}

Fits(l, c) == /\ transaction[l].call = c
              /\ \/ transaction[l].state = Kind[c]
                 \/ Kind[c] = "register" /\ transaction[l].state = "change"

IsReply(m, code) == m.kind = "reply" /\ m.code = code

TransactionInv == \A l \in Labels : transaction[l] = Empty \/ Fits(l, transaction[l].call)

(* What the peer holds: one command for a label. *)
HoldsInv ==
  /\ \A e \in holds :
       /\ Good(e.call) => Fits(e.label, e.call)
       /\ e.stage \in {"started", "rest"} => Kind[e.call] = "status"
       /\ e.stage = "subscribed" => Kind[e.call] = "register"
       /\ e.stage = "held" /\ Kind[e.call] = "register" => transaction[e.label].state = "register"
  /\ \A e, f \in holds : e.label = f.label /\ Good(e.call) /\ Good(f.call) => e = f

(* What is on its way. *)
InboxInv ==
  \A i \in 1..Len(inbox) : inbox[i].kind \in Answers =>
    /\ Good(inbox[i].call) => Fits(inbox[i].label, inbox[i].call)
    /\ inbox[i].kind \in {"start", "end"} => Kind[inbox[i].call] = "status"
    /\ IsReply(inbox[i], "changed") => Kind[inbox[i].call] = "register"
    /\ Kind[inbox[i].call] = "register" /\ ~IsReply(inbox[i], "changed")
         => transaction[inbox[i].label].state = "register"

(* Two tokens of a label: the Start the rest is asked for after, and the   *)
(* interim answer that the change comes after.                             *)
TogetherInv ==
  /\ \A i \in 1..Len(inbox), e \in holds :
       inbox[i].kind \in Answers /\ inbox[i].label = e.label /\ Good(inbox[i].call) /\ Good(e.call) =>
         \/ inbox[i].kind = "start" /\ e.stage = "started"
         \/ IsReply(inbox[i], "ok") /\ e.stage = "subscribed"
  /\ \A i, j \in 1..Len(inbox) :
       /\ i < j /\ inbox[i].kind \in Answers /\ inbox[j].kind \in Answers
       /\ inbox[i].label = inbox[j].label /\ Good(inbox[i].call) /\ Good(inbox[j].call)
       => IsReply(inbox[i], "ok") /\ IsReply(inbox[j], "changed")

(* The label waits for a change, or the interim answer is on its way. *)
Interim(i, l, c) == IsReply(inbox[i], "ok") /\ inbox[i].label = l /\ inbox[i].call = c

RegisterInv ==
  /\ \A e \in holds : e.stage = "subscribed" =>
       transaction[e.label].state = "change" \/ \E i \in 1..Len(inbox) : Interim(i, e.label, e.call)
  /\ \A j \in 1..Len(inbox) : IsReply(inbox[j], "changed") =>
       \/ transaction[inbox[j].label].state = "change"
       \/ \E i \in 1..Len(inbox) : i < j /\ Interim(i, inbox[j].label, inbox[j].call)
  /\ \A i \in 1..Len(inbox) : IsReply(inbox[i], "ok") /\ Kind[inbox[i].call] = "register" =>
       \/ \E e \in holds : e.stage = "subscribed" /\ e.label = inbox[i].label /\ e.call = inbox[i].call
       \/ \E j \in 1..Len(inbox) : /\ i < j /\ IsReply(inbox[j], "changed")
                                   /\ inbox[j].label = inbox[i].label /\ inbox[j].call = inbox[i].call

StartInv ==
  \A i \in 1..Len(inbox) : inbox[i].kind = "start" =>
    \E e \in holds : e.label = inbox[i].label /\ e.call = inbox[i].call /\ e.stage = "started"

LabelInv == TransactionInv /\ HoldsInv /\ InboxInv /\ TogetherInv /\ RegisterInv /\ StartInv /\ OwnLabels

(* Unless two are under way at a time, a fragmented answer is alone. *)
Fragmented == {e \in holds : e.stage \in {"started", "rest"}}

FragmentInv == ~mixed =>
  /\ \A e, f \in Fragmented : e = f
  /\ \A i, j \in 1..Len(inbox) : inbox[i].kind = "start" /\ inbox[j].kind = "start" => i = j
  /\ \A i, j \in 1..Len(inbox) : inbox[i].kind = "end" /\ inbox[j].kind = "end" => i = j
  /\ \A i, j \in 1..Len(inbox) : inbox[i].kind = "end" /\ inbox[j].kind = "start" => i < j
  /\ \A i \in 1..Len(inbox) : inbox[i].kind = "end" => assembler.of \subseteq {inbox[i].call}
  /\ \A e \in holds : e.stage = "rest" =>
       assembler.of \subseteq {e.call} /\ \A i \in 1..Len(inbox) : inbox[i].kind # "end"

(* The commands of the peer: each that is unanswered is on its way. *)
AskInv == running /\ linkUp =>
  /\ \A i \in 1..Len(inbox) : inbox[i].kind \in Asks => asked[inbox[i].tx] = "sent"
  /\ \A i, j \in 1..Len(inbox) :
       inbox[i].kind \in Asks /\ inbox[j].kind \in Asks /\ inbox[i].tx = inbox[j].tx => i = j
  /\ \A n \in 1..MaxCommands :
       asked[n] = "sent" => \E i \in 1..Len(inbox) : inbox[i].kind \in Asks /\ inbox[i].tx = n
  /\ \A n \in 1..MaxCommands : asked[n] = "registered" <=> registered = n

(* Volumes travel one way at a time, and the last to arrive is the one its *)
(* sender has; the session's is, unless it has not told the application.   *)
LastIs(q, v) == \E i \in 1..Len(q) : /\ q[i].kind = "volume" /\ q[i].volume = v
                                     /\ \A j \in 1..Len(q) : i < j => q[j].kind # "volume"

VolumeInv == running /\ held /\ ~diverged =>
  /\ ~(Carries(events, "volume") /\ Carries(commands, "volume"))
  /\ Carries(commands, "volume") => LastIs(commands, appVolume)
  /\ "application" \notin uninformed =>
       /\ Carries(events, "volume") => LastIs(events, volume)
       /\ ~Carries(events, "volume") /\ ~Carries(commands, "volume") => appVolume = volume

-----------------------------------------------------------------------------
(* What a message carries. *)
LEMMA MessageFields ==
  ASSUME NEW m \in Message
  PROVE  /\ m.kind \in {"reply", "start", "end", "query", "register", "press", "setvolume", "overlong", "close"}
         /\ m.kind \in Answers => m.label \in Labels /\ m.call \in Calls
         /\ m.kind = "reply" => m.code \in {"ok", "rejected", "changed"}
         /\ m.kind \in Asks => m.tx \in 1..MaxCommands
         /\ m.kind = "press" => m.arg \in Labels
         /\ m.kind \in {"setvolume", "overlong"} => m.arg \in Nat
<1>1. CASE m \in [kind : {"reply"}, label : Labels, call : Calls, code : {"ok", "rejected", "changed"}]
  BY <1>1 DEF Answers, Asks
<1>2. CASE m \in [kind : {"start", "end"}, label : Labels, call : Calls]
  BY <1>2 DEF Answers, Asks
<1>3. CASE m \in [kind : {"close"}]
  BY <1>3 DEF Answers, Asks
<1>4. CASE m \in Command
  <2>1. PICK k \in PeerCommands, n \in 1..MaxCommands : m = [kind |-> k[1], tx |-> n, arg |-> k[2]]
    BY <1>4 DEF Command
  <2>2. m.kind = k[1] /\ m.tx = n /\ m.arg = k[2]
    BY <2>1
  <2>3. QED
    BY <2>2, AvrcpAssumption DEF Answers, Asks, Labels
<1>5. QED
  BY <1>1, <1>2, <1>3, <1>4 DEF Message

(* The first message is taken: every other is a place nearer. *)
Consumed ==
  /\ inbox' \in Seq(Message)
  /\ inbox[1] \in Message /\ 1 \in 1..Len(inbox)
  /\ \A i \in 1..Len(inbox') : i \in Nat /\ i + 1 \in 1..Len(inbox) /\ inbox'[i] = inbox[i + 1]
  /\ \A i \in 1..Len(inbox) : i \in Nat /\ (i = 1 \/ (i - 1 \in 1..Len(inbox') /\ inbox'[i - 1] = inbox[i]))

LEMMA Consuming ==
  ASSUME QueueTypes, inbox # <<>>, inbox' = Tail(inbox)
  PROVE  Consumed /\ Head(inbox) = inbox[1]
<1>1. /\ Head(inbox) = inbox[1] /\ inbox[1] \in Message /\ inbox' \in Seq(Message)
      /\ Len(inbox) \in Nat \ {0} /\ Len(inbox') = Len(inbox) - 1
      /\ \A i \in 1..Len(inbox') : inbox'[i] = inbox[i + 1]
  BY HeadTailProperties, EmptySeq DEF QueueTypes
<1>2. \A i \in 1..Len(inbox') : i \in Nat /\ i + 1 \in 1..Len(inbox)
  BY <1>1
<1>3. \A i \in 1..Len(inbox) :
        i \in Nat /\ (i = 1 \/ (i - 1 \in 1..Len(inbox') /\ inbox'[i - 1] = inbox[i]))
  <2>1. SUFFICES ASSUME NEW i \in 1..Len(inbox), i # 1
                 PROVE  i \in Nat /\ i - 1 \in 1..Len(inbox') /\ inbox'[i - 1] = inbox[i]
    BY <1>1
  <2>2. i \in Nat /\ i - 1 \in 1..Len(inbox') /\ (i - 1) + 1 = i
    BY <1>1, <2>1
  <2>3. QED
    BY <1>1, <2>2
<1>4. QED
  BY <1>1, <1>2, <1>3 DEF Consumed

(* A message is sent: it is the last. *)
Added(m) ==
  /\ inbox' \in Seq(Message)
  /\ \A i \in 1..Len(inbox) : i \in 1..Len(inbox') /\ inbox'[i] = inbox[i] /\ i < Len(inbox')
  /\ \A i \in 1..Len(inbox') : i \in Nat /\ (i \in 1..Len(inbox) \/ i = Len(inbox'))
  /\ Len(inbox') \in 1..Len(inbox') /\ inbox'[Len(inbox')] = m /\ Len(inbox') \notin 1..Len(inbox)

LEMMA Adding ==
  ASSUME QueueTypes, NEW m \in Message, inbox' = Append(inbox, m)
  PROVE  Added(m)
<1>1. /\ inbox' \in Seq(Message) /\ Len(inbox) \in Nat /\ Len(inbox') = Len(inbox) + 1
      /\ \A i \in 1..Len(inbox) : inbox'[i] = inbox[i]
      /\ inbox'[Len(inbox) + 1] = m
  BY AppendProperties, LenProperties DEF QueueTypes
<1>2. QED
  BY <1>1 DEF Added

-----------------------------------------------------------------------------
(* The type of all but what CallTypes is about. *)
OtherTypes ==
  /\ answer \in [Calls -> SUBSET Calls]
  /\ linkUp \in BOOLEAN /\ held \in BOOLEAN
  /\ assembler.of \subseteq Calls
  /\ volume \in Volumes /\ appVolume \in Volumes /\ peerVolume \in Volumes \cup {None}
  /\ registered \in 1..MaxCommands \cup {None}
  /\ Len(commands) <= CommandSlots /\ Len(events) <= EventSlots
  /\ moves \in 0..MaxMoves
  /\ holds \subseteq Holding
  /\ asked \in [1..MaxCommands -> {"unused", "sent", "registered", "unanswered", "done"}]
  /\ stranded \subseteq Labels /\ taken \subseteq Calls
  /\ mixed \in BOOLEAN /\ diverged \in BOOLEAN /\ uninformed \subseteq {"peer", "application"}
  /\ inbox \in Seq(Message) /\ events \in Seq(Event)

LEMMA TypesSplit == Types <=> CallTypes /\ OtherTypes
BY DEF Types, TypeOK, QueueTypes, CallTypes, OtherTypes, Statuses

LEMMA MoveType == ASSUME Types, Move PROVE moves' \in 0..MaxMoves
BY AvrcpAssumption DEF Types, TypeOK, Move

LEMMA NextCommandType ==
  ASSUME Types, NextCommand
  PROVE  /\ Len(commands') <= CommandSlots /\ moves' = moves /\ running
         /\ Head(commands) = commands[1] /\ 1 \in 1..Len(commands) /\ Head(commands) \in Queued
<1>1. Head(commands) \in Queued /\ Len(commands') = Len(commands) - 1 /\ Len(commands) \in Nat \ {0}
      /\ Head(commands) = commands[1]
  BY HeadTailProperties, EmptySeq DEF Types, QueueTypes, NextCommand
<1>2. QED
  BY <1>1, AvrcpAssumption DEF Types, TypeOK, NextCommand

LEMMA NextMessageType ==
  ASSUME Types, NEW kinds, NextMessage(kinds)
  PROVE  /\ Consumed /\ moves' = moves /\ running
         /\ Head(inbox) = inbox[1] /\ inbox[1].kind \in kinds
BY Consuming DEF Types, NextMessage

LEMMA TriggerType ==
  ASSUME Types, NEW e \in Event, TriggerEvent(e)
  PROVE  events' \in Seq(Event) /\ Len(events') <= EventSlots /\ diverged' \in BOOLEAN
<1>1. CASE held /\ Len(events) < EventSlots
  <2>1. events' \in Seq(Event) /\ Len(events') = Len(events) + 1 /\ Len(events) \in Nat
    BY <1>1, AppendProperties, LenProperties DEF TriggerEvent, Types, QueueTypes
  <2>2. diverged' \in BOOLEAN
    BY DEF TriggerEvent
  <2>3. QED
    BY <1>1, <2>1, <2>2, AvrcpAssumption
<1>2. CASE ~(held /\ Len(events) < EventSlots)
  BY <1>2 DEF TriggerEvent, Types, QueueTypes, TypeOK
<1>3. QED
  BY <1>1, <1>2

LEMMA RespondType ==
  ASSUME Types, NEW n \in 1..MaxCommands, NEW outcome \in {"done", "registered"},
         NEW v \in Volumes \cup {None}, Respond(n, outcome, v)
  PROVE  /\ asked' \in [1..MaxCommands -> {"unused", "sent", "registered", "unanswered", "done"}]
         /\ peerVolume' \in Volumes \cup {None}
BY DEF Types, TypeOK, Respond

LEMMA CompleteType ==
  ASSUME Types, NEW l \in Labels, NEW code, NEW data \in SUBSET Calls, Complete(l, code, data)
  PROVE  /\ answer' \in [Calls -> SUBSET Calls]
         /\ events' \in Seq(Event) /\ Len(events') <= EventSlots /\ diverged' \in BOOLEAN
         /\ stranded' \subseteq Labels
<1>1. transaction[l] \in Transaction
  BY DEF Types, TypeOK
<1>2. transaction[l].state # "empty" => transaction[l].call \in Calls
  BY <1>1 DEF Transaction, Empty
<1>3. answer' \in [Calls -> SUBSET Calls]
  BY <1>2 DEF Complete, Types, TypeOK, caller
<1>4. stranded' \subseteq Labels
  BY DEF Complete, Types, TypeOK
<1>5. CASE transaction[l].state = "change" /\ code = "changed"
  <2>1. Changed(transaction[l].call) \in Event
    BY <1>2, <1>5 DEF Changed, Event
  <2>2. TriggerEvent(Changed(transaction[l].call))
    BY <1>5 DEF Complete
  <2>3. QED
    BY <1>3, <1>4, <2>1, <2>2, TriggerType
<1>6. CASE ~(transaction[l].state = "change" /\ code = "changed")
  BY <1>3, <1>4, <1>6 DEF Complete, Types, TypeOK, QueueTypes
<1>7. QED
  BY <1>5, <1>6

(* The application. *)
LEMMA AppTypes ==
  ASSUME Types,
         \/ \E c \in Calls : Call(c) \/ Cancel(c)
         \/ \E v \in Volumes : NotifyLocalVolumeChange(v)
         \/ NextEvent \/ DropSession
  PROVE  OtherTypes'
<1>1. ASSUME NEW c \in Calls, Call(c) PROVE OtherTypes'
  <2>1. moves' \in 0..MaxMoves
    BY <1>1, MoveType DEF Call
  <2>2. Len(commands') <= CommandSlots
    <3>1. Request(c) \in Queued
      BY DEF Request, Queued
    <3>2. CASE running
      <4>1. Len(commands') = Len(commands) + 1 /\ Len(commands) \in Nat /\ Len(commands) < CommandSlots
        BY <1>1, <3>1, <3>2, AppendProperties, LenProperties DEF Call, Types, QueueTypes
      <4>2. QED
        BY <4>1, AvrcpAssumption
    <3>3. CASE ~running
      BY <1>1, <3>3 DEF Call, Types, TypeOK
    <3>4. QED
      BY <3>2, <3>3
  <2>3. QED
    BY <1>1, <2>1, <2>2 DEF Call, Types, TypeOK, QueueTypes, OtherTypes, volumes, peer, history
<1>2. ASSUME NEW c \in Calls, Cancel(c) PROVE OtherTypes'
  <2>1. moves' \in 0..MaxMoves
    BY <1>2, MoveType DEF Cancel
  <2>2. QED
    BY <1>2, <2>1 DEF Cancel, Types, TypeOK, QueueTypes, OtherTypes, volumes, peer, history
<1>3. ASSUME NEW v \in Volumes, NotifyLocalVolumeChange(v) PROVE OtherTypes'
  <2>1. moves' \in 0..MaxMoves
    BY <1>3, MoveType DEF NotifyLocalVolumeChange
  <2>2. Len(commands') <= CommandSlots
    <3>1. Update(v) \in Queued
      BY DEF Update, Queued
    <3>2. Len(commands') = Len(commands) + 1 /\ Len(commands) \in Nat /\ Len(commands) < CommandSlots
      BY <1>3, <3>1, AppendProperties, LenProperties DEF NotifyLocalVolumeChange, Types, QueueTypes
    <3>3. QED
      BY <3>2, AvrcpAssumption
  <2>3. diverged' \in BOOLEAN
    BY <1>3 DEF NotifyLocalVolumeChange
  <2>4. QED
    BY <1>3, <2>1, <2>2, <2>3
       DEF NotifyLocalVolumeChange, Types, TypeOK, QueueTypes, OtherTypes, caller, volumes, peer
<1>4. CASE NextEvent
  <2>1. /\ Head(events) \in Event /\ events' \in Seq(Event)
        /\ Len(events') = Len(events) - 1 /\ Len(events) \in Nat
    BY <1>4, HeadTailProperties, EmptySeq DEF NextEvent, Types, QueueTypes
  <2>2. appVolume' \in Volumes
    BY <1>4, <2>1 DEF NextEvent, Types, TypeOK, Event
  <2>3. Len(events') <= EventSlots
    BY <2>1, AvrcpAssumption DEF Types, TypeOK
  <2>4. QED
    BY <1>4, <2>1, <2>2, <2>3 DEF NextEvent, Types, TypeOK, QueueTypes, OtherTypes, caller, volumes, peer, history
<1>5. CASE DropSession
  <2>1. moves' \in 0..MaxMoves
    BY <1>5, MoveType DEF DropSession
  <2>2. QED
    BY <1>5, <2>1 DEF DropSession, Types, TypeOK, QueueTypes, OtherTypes, caller, volumes, peer, history
<1>6. QED
  BY <1>1, <1>2, <1>3, <1>4, <1>5

(* The commands the session takes, and its end. *)
LEMMA CommandTypes ==
  ASSUME Types, SendCommand \/ NoTransactionId \/ UpdatedVolume
  PROVE  OtherTypes'
<1>1. CASE SendCommand
  <2>1. Len(commands') <= CommandSlots /\ moves' = moves /\ Head(commands).call \in Calls
    BY <1>1, NextCommandType DEF SendCommand, Queued
  <2>2. First(Free) \in Labels
    BY <1>1, FirstFree DEF SendCommand, Free
  <2>3. holds' \subseteq Holding
    BY <1>1, <2>1, <2>2 DEF SendCommand, SendCall, Holding, Types, TypeOK
  <2>4. QED
    BY <1>1, <2>1, <2>3 DEF SendCommand, Types, TypeOK, QueueTypes, OtherTypes, volumes, history
<1>2. CASE NoTransactionId
  <2>1. Len(commands') <= CommandSlots /\ moves' = moves
    BY <1>2, NextCommandType DEF NoTransactionId
  <2>2. diverged' \in BOOLEAN
    BY <1>2 DEF NoTransactionId, Types, TypeOK
  <2>3. QED
    BY <1>2, <2>1, <2>2 DEF NoTransactionId, Types, TypeOK, QueueTypes, OtherTypes, volumes, peer
<1>3. CASE UpdatedVolume
  <2>1. Len(commands') <= CommandSlots /\ moves' = moves /\ Head(commands).volume \in Volumes
    BY <1>3, NextCommandType DEF UpdatedVolume, Queued
  <2>2. /\ asked' \in [1..MaxCommands -> {"unused", "sent", "registered", "unanswered", "done"}]
        /\ peerVolume' \in Volumes \cup {None}
        /\ registered' \in 1..MaxCommands \cup {None}
    <3>1. CASE Head(commands).volume # volume /\ registered # None
      BY <1>3, <2>1, <3>1, RespondType DEF UpdatedVolume, Types, TypeOK
    <3>2. CASE ~(Head(commands).volume # volume /\ registered # None)
      BY <1>3, <3>2 DEF UpdatedVolume, Types, TypeOK
    <3>3. QED
      BY <3>1, <3>2
  <2>3. QED
    BY <1>3, <2>1, <2>2 DEF UpdatedVolume, Types, TypeOK, QueueTypes, OtherTypes, caller, history
<1>4. QED
  BY <1>1, <1>2, <1>3

LEMMA EndTypes == ASSUME Types, End PROVE OtherTypes'
<1>1. Len(commands') <= CommandSlots /\ inbox' \in Seq(Message)
  BY AvrcpAssumption, EmptySeq DEF End
<1>2. QED
  BY <1>1 DEF End, Types, TypeOK, QueueTypes, OtherTypes, volumes

(* The answers of the peer. *)
LEMMA AnswerTypes ==
  ASSUME Types, PassThroughReply \/ VendorReply \/ VendorStart \/ VendorEnd
  PROVE  OtherTypes'
<1>1. inbox' \in Seq(Message) /\ moves' = moves /\ inbox[1] \in Message /\ Head(inbox) = inbox[1]
      /\ inbox[1].kind \in Answers
  BY NextMessageType DEF PassThroughReply, VendorReply, VendorStart, VendorEnd, Consumed, Answers
<1>2. inbox[1].label \in Labels /\ inbox[1].call \in Calls
  BY <1>1, MessageFields
<1>3. transaction[inbox[1].label] \in Transaction
  BY <1>2 DEF Types, TypeOK
<1>4. CASE PassThroughReply
  <2>1. transaction[inbox[1].label].state = "pass" => transaction[inbox[1].label].call \in Calls
    BY <1>3 DEF Transaction, Empty
  <2>2. answer' \in [Calls -> SUBSET Calls]
    BY <1>1, <1>2, <1>4, <2>1 DEF PassThroughReply, Types, TypeOK, caller
  <2>3. QED
    BY <1>1, <1>4, <2>2 DEF PassThroughReply, Types, TypeOK, QueueTypes, OtherTypes, volumes, peer, history
<1>5. CASE VendorReply
  <2>1. Complete(inbox[1].label, inbox[1].code, {inbox[1].call})
    BY <1>1, <1>5 DEF VendorReply
  <2>2. /\ answer' \in [Calls -> SUBSET Calls]
        /\ events' \in Seq(Event) /\ Len(events') <= EventSlots /\ diverged' \in BOOLEAN
        /\ stranded' \subseteq Labels
    BY <1>2, <2>1, CompleteType
  <2>3. QED
    BY <1>1, <1>5, <2>2 DEF VendorReply, Types, TypeOK, QueueTypes, OtherTypes, volumes, peer
<1>6. CASE VendorStart
  <2>1. holds' \subseteq Holding
    BY <1>6 DEF VendorStart, SendContinue, Types, TypeOK, Holding
  <2>2. assembler'.of \subseteq Calls
    BY <1>1, <1>2, <1>6 DEF VendorStart
  <2>3. QED
    BY <1>1, <1>6, <2>1, <2>2 DEF VendorStart, Types, TypeOK, QueueTypes, OtherTypes, caller, volumes, history
<1>7. CASE VendorEnd
  <2>1. CASE assembler.pdu = Pdu[inbox[1].call]
    <3>1. Complete(inbox[1].label, "ok", assembler.of \cup {inbox[1].call})
      BY <1>1, <1>7, <2>1 DEF VendorEnd
    <3>2. assembler.of \cup {inbox[1].call} \in SUBSET Calls
      BY <1>2 DEF Types, TypeOK
    <3>3. /\ answer' \in [Calls -> SUBSET Calls]
          /\ events' \in Seq(Event) /\ Len(events') <= EventSlots /\ diverged' \in BOOLEAN
          /\ stranded' \subseteq Labels
      BY <1>2, <3>1, <3>2, CompleteType
    <3>4. assembler'.of \subseteq Calls
      BY <1>1, <1>7, <2>1 DEF VendorEnd
    <3>5. QED
      BY <1>1, <1>7, <3>3, <3>4 DEF VendorEnd, Types, TypeOK, QueueTypes, OtherTypes, volumes, peer
  <2>2. CASE assembler.pdu # Pdu[inbox[1].call]
    <3>1. stranded' \subseteq Labels
      BY <1>1, <1>2, <1>7, <2>2 DEF VendorEnd, Types, TypeOK
    <3>2. QED
      BY <1>1, <1>7, <2>2, <3>1 DEF VendorEnd, Types, TypeOK, QueueTypes, OtherTypes, volumes, peer, caller
  <2>3. QED
    BY <2>1, <2>2
<1>8. QED
  BY <1>4, <1>5, <1>6, <1>7

(* MAX_VOLUME bounds what the peer may set. *)
LEMMA ClippedVolume ==
  ASSUME NEW v \in Nat PROVE (IF v > MaxVolume THEN MaxVolume ELSE v) \in Volumes
BY AvrcpAssumption DEF Volumes

(* The commands of the peer. *)
LEMMA AskTypes ==
  ASSUME Types,
         PassThroughCommand \/ AnswerQuery \/ RegisterNotification \/ SetAbsoluteVolume \/ OverlongVolume
  PROVE  OtherTypes'
<1>1. inbox' \in Seq(Message) /\ moves' = moves /\ inbox[1] \in Message /\ Head(inbox) = inbox[1]
  BY NextMessageType DEF PassThroughCommand, AnswerQuery, RegisterNotification, SetAbsoluteVolume, OverlongVolume,
                         Consumed
<1>2. CASE PassThroughCommand
  <2>1. inbox[1].arg \in Labels
    BY <1>1, <1>2, NextMessageType, MessageFields DEF PassThroughCommand
  <2>2. transaction[inbox[1].arg] \in Transaction
    BY <2>1 DEF Types, TypeOK
  <2>3. transaction[inbox[1].arg].state = "pass" => transaction[inbox[1].arg].call \in Calls
    BY <2>2 DEF Transaction, Empty
  <2>4. taken' \subseteq Calls
    BY <1>1, <1>2, <2>3 DEF PassThroughCommand, Types, TypeOK
  <2>5. QED
    BY <1>1, <1>2, <2>4 DEF PassThroughCommand, Types, TypeOK, QueueTypes, OtherTypes, volumes, peer
<1>3. CASE AnswerQuery
  <2>1. inbox[1].tx \in 1..MaxCommands
    BY <1>1, <1>3, NextMessageType, MessageFields DEF AnswerQuery, Asks
  <2>2. /\ asked' \in [1..MaxCommands -> {"unused", "sent", "registered", "unanswered", "done"}]
        /\ peerVolume' \in Volumes \cup {None}
    BY <1>1, <1>3, <2>1, RespondType DEF AnswerQuery
  <2>3. QED
    BY <1>1, <1>3, <2>2 DEF AnswerQuery, Types, TypeOK, QueueTypes, OtherTypes, caller, volumes, history
<1>4. CASE RegisterNotification
  <2>1. inbox[1].tx \in 1..MaxCommands
    BY <1>1, <1>4, NextMessageType, MessageFields DEF RegisterNotification, Asks
  <2>2. \/ Respond(inbox[1].tx, "done", None) /\ registered' = registered
        \/ Respond(inbox[1].tx, "registered", volume) /\ registered' = inbox[1].tx
    BY <1>1, <1>4 DEF RegisterNotification
  <2>3. /\ asked' \in [1..MaxCommands -> {"unused", "sent", "registered", "unanswered", "done"}]
        /\ peerVolume' \in Volumes \cup {None}
        /\ registered' \in 1..MaxCommands \cup {None}
    BY <2>1, <2>2, RespondType DEF Types, TypeOK
  <2>4. QED
    BY <1>1, <1>4, <2>3 DEF RegisterNotification, Types, TypeOK, QueueTypes, OtherTypes, caller, history
<1>5. CASE SetAbsoluteVolume
  <2>1. inbox[1].tx \in 1..MaxCommands /\ inbox[1].arg \in Nat
    BY <1>1, <1>5, NextMessageType, MessageFields DEF SetAbsoluteVolume, Asks
  <2>2. volume' \in Volumes
    BY <1>1, <1>5, <2>1, ClippedVolume DEF SetAbsoluteVolume
  <2>3. PICK v \in Volumes : v = volume'
    BY <2>2
  <2>4. Respond(inbox[1].tx, "done", v) /\ TriggerEvent(VolumeChanged(v)) /\ VolumeChanged(v) \in Event
    BY <1>1, <1>5, <2>3 DEF SetAbsoluteVolume, VolumeChanged, Event
  <2>5. /\ asked' \in [1..MaxCommands -> {"unused", "sent", "registered", "unanswered", "done"}]
        /\ peerVolume' \in Volumes \cup {None}
    BY <2>1, <2>4, RespondType
  <2>6. events' \in Seq(Event) /\ Len(events') <= EventSlots /\ diverged' \in BOOLEAN
    BY <2>4, TriggerType
  <2>7. QED
    BY <1>1, <1>5, <2>2, <2>5, <2>6 DEF SetAbsoluteVolume, Types, TypeOK, QueueTypes, OtherTypes, caller
<1>6. CASE OverlongVolume
  <2>1. inbox[1].tx \in 1..MaxCommands /\ inbox[1].arg \in Nat
    BY <1>1, <1>6, NextMessageType, MessageFields DEF OverlongVolume, Asks
  <2>2. volume' \in Volumes
    BY <1>1, <1>6, <2>1, ClippedVolume DEF OverlongVolume
  <2>3. Respond(inbox[1].tx, "done", None)
    BY <1>1, <1>6 DEF OverlongVolume
  <2>4. /\ asked' \in [1..MaxCommands -> {"unused", "sent", "registered", "unanswered", "done"}]
        /\ peerVolume' \in Volumes \cup {None}
    BY <2>1, <2>3, RespondType
  <2>5. uninformed' \subseteq {"peer", "application"}
    BY <1>6 DEF OverlongVolume, Types, TypeOK
  <2>6. QED
    BY <1>1, <1>6, <2>2, <2>4, <2>5 DEF OverlongVolume, Types, TypeOK, QueueTypes, OtherTypes, caller
<1>7. QED
  BY <1>2, <1>3, <1>4, <1>5, <1>6

(* What the peer sends is a message. *)
LEMMA PeerMessage ==
  ASSUME Types,
         NEW m, PeerSends(m),
         \/ \E l \in Labels, c \in Calls : \E code \in {"ok", "rejected", "changed"} : m = Reply(l, c, code)
         \/ \E l \in Labels, c \in Calls : m = Part("start", l, c) \/ m = Part("end", l, c)
         \/ \E n \in 1..MaxCommands, k \in PeerCommands : m = [kind |-> k[1], tx |-> n, arg |-> k[2]]
         \/ m = [kind |-> "close"]
  PROVE  m \in Message /\ Added(m) /\ inbox' \in Seq(Message)
<1>1. ASSUME NEW l \in Labels, NEW c \in Calls, NEW code \in {"ok", "rejected", "changed"}
      PROVE  Reply(l, c, code) \in Message
  BY DEF Reply, Message
<1>2. ASSUME NEW l \in Labels, NEW c \in Calls
      PROVE  Part("start", l, c) \in Message /\ Part("end", l, c) \in Message
  BY DEF Part, Message
<1>3. ASSUME NEW n \in 1..MaxCommands, NEW k \in PeerCommands
      PROVE  [kind |-> k[1], tx |-> n, arg |-> k[2]] \in Message
  BY DEF Command, Message
<1>4. [kind |-> "close"] \in Message
  BY DEF Message
<1>5. m \in Message
  BY <1>1, <1>2, <1>3, <1>4
<1>6. QED
  BY <1>5, Adding DEF PeerSends, Types, Added

(* What a step of the peer does to what it holds and to what is on its way: *)
(* what it holds is answered, or a command of its own is sent.              *)
Answered(e, m, S) == /\ e \in holds /\ running /\ linkUp
                     /\ m \in Message /\ Added(m) /\ holds' = (holds \ {e}) \cup S
                     /\ m.label = e.label /\ m.call = e.call

LEMMA PeerAnswerEffect ==
  ASSUME Types, NEW e \in holds, NEW code \in {"ok", "rejected"}, PeerAnswer(e, code)
  PROVE  Answered(e, Reply(e.label, e.call, code),
                  IF Kind[e.call] = "register" /\ code = "ok" THEN {[e EXCEPT !.stage = "subscribed"]} ELSE {})
<1>1. e.label \in Labels /\ e.call \in Calls
  BY DEF Types, TypeOK, Holding
<1>2. PeerSends(Reply(e.label, e.call, code))
  BY DEF PeerAnswer
<1>3. Reply(e.label, e.call, code) \in Message /\ Added(Reply(e.label, e.call, code))
  BY <1>1, <1>2, PeerMessage
<1>4. QED
  BY <1>3 DEF Answered, PeerAnswer, PeerSends, CanSend, Reply

LEMMA PeerChangeEffect ==
  ASSUME Types, NEW e \in holds, PeerChange(e)
  PROVE  Answered(e, Reply(e.label, e.call, "changed"), {})
<1>1. e.label \in Labels /\ e.call \in Calls
  BY DEF Types, TypeOK, Holding
<1>2. PeerSends(Reply(e.label, e.call, "changed"))
  BY DEF PeerChange
<1>3. Reply(e.label, e.call, "changed") \in Message /\ Added(Reply(e.label, e.call, "changed"))
  BY <1>1, <1>2, PeerMessage
<1>4. QED
  BY <1>3 DEF Answered, PeerChange, PeerSends, CanSend, Reply

LEMMA PeerStartEffect ==
  ASSUME Types, NEW e \in holds, PeerStart(e)
  PROVE  Answered(e, Part("start", e.label, e.call), {[e EXCEPT !.stage = "started"]})
<1>1. e.label \in Labels /\ e.call \in Calls
  BY DEF Types, TypeOK, Holding
<1>2. PeerSends(Part("start", e.label, e.call))
  BY DEF PeerStart
<1>3. Part("start", e.label, e.call) \in Message /\ Added(Part("start", e.label, e.call))
  BY <1>1, <1>2, PeerMessage
<1>4. QED
  BY <1>3 DEF Answered, PeerStart, PeerSends, CanSend, Part

LEMMA PeerFinishEffect ==
  ASSUME Types, NEW e \in holds, PeerFinish(e)
  PROVE  Answered(e, Part("end", e.label, e.call), {})
<1>1. e.label \in Labels /\ e.call \in Calls
  BY DEF Types, TypeOK, Holding
<1>2. PeerSends(Part("end", e.label, e.call))
  BY DEF PeerFinish
<1>3. Part("end", e.label, e.call) \in Message /\ Added(Part("end", e.label, e.call))
  BY <1>1, <1>2, PeerMessage
<1>4. QED
  BY <1>3 DEF Answered, PeerFinish, PeerSends, CanSend, Part

(* The steps of the peer, and the loss of the link. *)
PeerStep ==
  \/ \E e \in holds : \/ \E code \in {"ok", "rejected"} : PeerAnswer(e, code)
                      \/ PeerChange(e) \/ PeerStart(e) \/ PeerFinish(e)
  \/ \E n \in 1..MaxCommands : \E k \in PeerCommands : PeerCommand(n, k[1], k[2])
  \/ HangUp

LEMMA PeerTypes == ASSUME Types, PeerStep \/ LinkDown PROVE OtherTypes'
<1>1. ASSUME NEW e \in holds, NEW code \in {"ok", "rejected"}, PeerAnswer(e, code) PROVE OtherTypes'
  <2>1. inbox' \in Seq(Message) /\ holds' \subseteq Holding
    BY <1>1, PeerAnswerEffect DEF Answered, Added, Types, TypeOK, Holding
  <2>2. QED
    BY <1>1, <2>1 DEF PeerAnswer, PeerSends, Types, TypeOK, QueueTypes, OtherTypes, caller, volumes
<1>2. ASSUME NEW e \in holds, PeerChange(e) PROVE OtherTypes'
  <2>1. inbox' \in Seq(Message) /\ holds' \subseteq Holding
    BY <1>2, PeerChangeEffect DEF Answered, Added, Types, TypeOK
  <2>2. QED
    BY <1>2, <2>1 DEF PeerChange, PeerSends, Types, TypeOK, QueueTypes, OtherTypes, caller, volumes
<1>3. ASSUME NEW e \in holds, PeerStart(e) PROVE OtherTypes'
  <2>1. inbox' \in Seq(Message) /\ holds' \subseteq Holding
    BY <1>3, PeerStartEffect DEF Answered, Added, Types, TypeOK, Holding
  <2>2. mixed' \in BOOLEAN
    BY <1>3 DEF PeerStart
  <2>3. QED
    BY <1>3, <2>1, <2>2 DEF PeerStart, PeerSends, Types, TypeOK, QueueTypes, OtherTypes, caller, volumes
<1>4. ASSUME NEW e \in holds, PeerFinish(e) PROVE OtherTypes'
  <2>1. inbox' \in Seq(Message) /\ holds' \subseteq Holding
    BY <1>4, PeerFinishEffect DEF Answered, Added, Types, TypeOK
  <2>2. QED
    BY <1>4, <2>1 DEF PeerFinish, PeerSends, Types, TypeOK, QueueTypes, OtherTypes, caller, volumes
<1>5. ASSUME NEW n \in 1..MaxCommands, NEW k \in PeerCommands, PeerCommand(n, k[1], k[2]) PROVE OtherTypes'
  <2>1. moves' \in 0..MaxMoves
    BY <1>5, MoveType DEF PeerCommand
  <2>2. inbox' \in Seq(Message)
    BY <1>5, PeerMessage DEF PeerCommand
  <2>3. QED
    BY <1>5, <2>1, <2>2 DEF PeerCommand, PeerSends, Types, TypeOK, QueueTypes, OtherTypes, caller, volumes
<1>6. CASE HangUp
  <2>1. moves' \in 0..MaxMoves
    BY <1>6, MoveType DEF HangUp
  <2>2. inbox' \in Seq(Message)
    BY <1>6, PeerMessage DEF HangUp
  <2>3. QED
    BY <1>6, <2>1, <2>2 DEF HangUp, PeerSends, Types, TypeOK, QueueTypes, OtherTypes, caller, volumes
<1>7. CASE LinkDown
  <2>1. moves' \in 0..MaxMoves
    BY <1>7, MoveType DEF LinkDown
  <2>2. QED
    BY <1>7, <2>1 DEF LinkDown, Types, TypeOK, QueueTypes, OtherTypes, caller, volumes, peer, history
<1>8. QED
  BY <1>1, <1>2, <1>3, <1>4, <1>5, <1>6, <1>7 DEF PeerStep

LEMMA PeerSteps ==
  ASSUME \/ HangUp
         \/ \E e \in holds : PeerChange(e)
         \/ \E l \in Labels, c \in Calls : PeerWorks(l, c)
         \/ \E n \in 1..MaxCommands : \E k \in PeerCommands : PeerCommand(n, k[1], k[2])
  PROVE  PeerStep
BY DEF PeerStep, PeerWorks

LEMMA InitTypes == Init => Types
<1> SUFFICES ASSUME Init PROVE Types
  OBVIOUS
<1>1. CallTypes
  BY InitCallInv DEF CallInv
<1>2. inbox \in Seq(Message) /\ events \in Seq(Event) /\ Len(commands) = 0 /\ Len(events) = 0
  BY EmptySeq DEF Init
<1>3. /\ volume \in Volumes /\ appVolume \in Volumes /\ moves \in 0..MaxMoves
      /\ Len(commands) <= CommandSlots /\ Len(events) <= EventSlots
  BY <1>2, AvrcpAssumption DEF Init, Volumes
<1>4. /\ answer \in [Calls -> SUBSET Calls]
      /\ asked \in [1..MaxCommands -> {"unused", "sent", "registered", "unanswered", "done"}]
      /\ assembler.of = {}
  BY DEF Init
<1>5. OtherTypes
  BY <1>2, <1>3, <1>4 DEF Init, OtherTypes
<1>6. QED
  BY <1>1, <1>5, TypesSplit

LEMMA NextTypes == ASSUME CallInv, Types, [Next]_vars PROVE Types'
<1>1. SUFFICES OtherTypes'
  <2>1. CallTypes'
    BY NextCallInv DEF CallInv
  <2>2. Types' <=> CallTypes' /\ OtherTypes'
    BY TypesSplit, PTL
  <2>3. QED
    BY <2>1, <2>2
<1>2. CASE UNCHANGED vars
  BY <1>2 DEF vars, caller, volumes, peer, history, Types, TypeOK, QueueTypes, OtherTypes
<1>3. CASE SessionStep
  BY <1>3, CommandTypes, EndTypes, AnswerTypes, AskTypes DEF SessionStep, ChannelClosed, SessionDropped
<1>4. CASE \/ \E c \in Calls : Call(c) \/ Cancel(c)
           \/ \E v \in Volumes : NotifyLocalVolumeChange(v)
           \/ NextEvent \/ DropSession
  BY <1>4, AppTypes
<1>5. CASE PeerStep \/ LinkDown
  BY <1>5, PeerTypes
<1>6. QED
  BY <1>2, <1>3, <1>4, <1>5, PeerSteps DEF Next

(***************************************************************************)
(* Every variable of the session has its type, the queues never hold more  *)
(* than their capacity (avrcp/mod.rs:47-69), and no volume exceeds the     *)
(* largest there is (avrcp/mod.rs:325-334).                                *)
(***************************************************************************)
THEOREM TypesCorrect == Spec => []TypeOK
<1>1. Init => CallInv /\ Types
  BY InitCallInv, InitTypes
<1>2. CallInv /\ Types /\ [Next]_vars => CallInv' /\ Types'
  BY NextCallInv, NextTypes
<1>3. Types => TypeOK
  BY DEF Types
<1>4. QED
  BY <1>1, <1>2, <1>3, PTL DEF Spec

-----------------------------------------------------------------------------
(* The tokens of the labels. *)

LEMMA LabelFrame ==
  ASSUME LabelInv, UNCHANGED <<inbox, holds, transaction, taken, stranded, running>>
  PROVE  LabelInv'
BY DEF LabelInv, TransactionInv, HoldsInv, InboxInv, TogetherInv, RegisterInv, StartInv, OwnLabels,
       Good, Fits, Interim

(* What the labels of all tokens are. *)
LEMMA TokenTypes ==
  ASSUME Types
  PROVE  /\ \A e \in holds : e.label \in Labels /\ e.call \in Calls
         /\ \A i \in 1..Len(inbox) : /\ inbox[i] \in Message
                                     /\ inbox[i].kind \in Answers => inbox[i].label \in Labels /\ inbox[i].call \in Calls
         /\ transaction \in [Labels -> Transaction]
<1>1. \A e \in holds : e.label \in Labels /\ e.call \in Calls
  BY DEF Types, TypeOK, Holding
<1>2. ASSUME NEW i \in 1..Len(inbox)
      PROVE  /\ inbox[i] \in Message
             /\ inbox[i].kind \in Answers => inbox[i].label \in Labels /\ inbox[i].call \in Calls
  <2>1. inbox[i] \in Message
    BY <1>2, ElementOfSeq DEF Types, QueueTypes
  <2>2. QED
    BY <2>1, MessageFields
<1>3. QED
  BY <1>1, <1>2 DEF Types, TypeOK

(* A message that is not an answer is sent. *)
LEMMA LabelAdded ==
  ASSUME LabelInv, NEW m, Added(m), m.kind \notin Answers,
         UNCHANGED <<holds, transaction, taken, stranded, running>>
  PROVE  LabelInv'
<1>1. \A i \in 1..Len(inbox') : inbox'[i].kind \in Answers => i \in 1..Len(inbox) /\ inbox'[i] = inbox[i]
  BY DEF Added
<1>2. \A i \in 1..Len(inbox) : i \in 1..Len(inbox') /\ inbox'[i] = inbox[i]
  BY DEF Added
<1>3. TransactionInv' /\ HoldsInv'
  BY DEF LabelInv, TransactionInv, HoldsInv, Good, Fits
<1>4. InboxInv' /\ StartInv'
  BY <1>1 DEF LabelInv, InboxInv, StartInv, Good, Fits, Answers
<1>5. TogetherInv'
  BY <1>1 DEF LabelInv, TogetherInv, Good
<1>6. RegisterInv'
  <2>1. \A e \in holds' : e.stage = "subscribed" =>
          transaction'[e.label].state = "change" \/ \E i \in 1..Len(inbox') : Interim(i, e.label, e.call)'
    BY <1>2 DEF LabelInv, RegisterInv, Interim
  <2>2. \A j \in 1..Len(inbox') : IsReply(inbox'[j], "changed") =>
          \/ transaction'[inbox'[j].label].state = "change"
          \/ \E i \in 1..Len(inbox') : i < j /\ Interim(i, inbox[j].label, inbox[j].call)'
    BY <1>1, <1>2 DEF LabelInv, RegisterInv, Interim, IsReply, Answers
  <2>3. \A i \in 1..Len(inbox') : IsReply(inbox'[i], "ok") /\ Kind[inbox'[i].call] = "register" =>
          \/ \E e \in holds' : e.stage = "subscribed" /\ e.label = inbox'[i].label /\ e.call = inbox'[i].call
          \/ \E j \in 1..Len(inbox') : /\ i < j /\ IsReply(inbox'[j], "changed")
                                       /\ inbox'[j].label = inbox'[i].label /\ inbox'[j].call = inbox'[i].call
    <3>1. SUFFICES ASSUME NEW i \in 1..Len(inbox'), IsReply(inbox'[i], "ok"), Kind[inbox'[i].call] = "register",
                          NEW k, k = inbox'[i]
                   PROVE  \/ \E e \in holds : e.stage = "subscribed" /\ e.label = k.label /\ e.call = k.call
                          \/ \E j \in 1..Len(inbox') : /\ i < j /\ IsReply(inbox'[j], "changed")
                                                       /\ inbox'[j].label = k.label /\ inbox'[j].call = k.call
      OBVIOUS
    <3>2. i \in 1..Len(inbox) /\ k = inbox[i] /\ IsReply(k, "ok") /\ Kind[k.call] = "register"
      BY <1>1, <3>1 DEF IsReply, Answers
    <3>3. \/ \E e \in holds : e.stage = "subscribed" /\ e.label = k.label /\ e.call = k.call
          \/ \E j \in 1..Len(inbox) : /\ i < j /\ IsReply(inbox[j], "changed")
                                      /\ inbox[j].label = k.label /\ inbox[j].call = k.call
      BY <3>2 DEF LabelInv, RegisterInv
    <3>4. QED
      BY <1>2, <3>3
  <2>4. QED
    BY <2>1, <2>2, <2>3 DEF RegisterInv, Interim
<1>7. OwnLabels'
  BY <1>2 DEF LabelInv, OwnLabels
<1>8. QED
  BY <1>3, <1>4, <1>5, <1>6, <1>7 DEF LabelInv

(* The first message is taken, and at most label l changes.  What is left  *)
(* of the invariant is what concerns the tokens of l.                      *)
Others(l) == /\ Consumed /\ UNCHANGED <<holds, running>>
             /\ transaction' \in [Labels -> Transaction]
             /\ \A k \in Labels : k # l => transaction'[k] = transaction[k] /\ (k \in stranded => k \in stranded')
             /\ \A c \in Calls : Good(c)' => Good(c)

LEMMA LabelTogether == ASSUME Types, LabelInv, NEW l, Others(l) PROVE TogetherInv' /\ StartInv'
<1>1. \A i \in 1..Len(inbox') : i \in Nat /\ i + 1 \in 1..Len(inbox) /\ inbox'[i] = inbox[i + 1]
  BY DEF Others, Consumed
<1>2. \A i \in 1..Len(inbox') : inbox'[i].kind \in Answers => inbox'[i].call \in Calls
  BY <1>1, TokenTypes
<1>3. \A i \in 1..Len(inbox'), e \in holds' :
        /\ inbox'[i].kind \in Answers /\ inbox'[i].label = e.label
        /\ Good(inbox[i].call)' /\ Good(e.call)'
        => \/ inbox'[i].kind = "start" /\ e.stage = "started"
           \/ IsReply(inbox'[i], "ok") /\ e.stage = "subscribed"
  <2>1. SUFFICES ASSUME NEW i \in 1..Len(inbox'), NEW e \in holds,
                        inbox'[i].kind \in Answers, inbox'[i].label = e.label,
                        Good(inbox[i].call)', Good(e.call)'
                 PROVE  \/ inbox'[i].kind = "start" /\ e.stage = "started"
                        \/ IsReply(inbox'[i], "ok") /\ e.stage = "subscribed"
    BY DEF Others
  <2>2. PICK m : m = inbox'[i]
    OBVIOUS
  <2>3. Good(m.call) /\ Good(e.call) /\ m = inbox[i + 1] /\ i + 1 \in 1..Len(inbox)
    BY <1>1, <1>2, <2>1, <2>2, TokenTypes DEF Others, Good
  <2>4. QED
    BY <2>1, <2>2, <2>3 DEF LabelInv, TogetherInv
<1>4. \A i, j \in 1..Len(inbox') :
        /\ i < j /\ inbox'[i].kind \in Answers /\ inbox'[j].kind \in Answers
        /\ inbox'[i].label = inbox'[j].label /\ Good(inbox[i].call)' /\ Good(inbox[j].call)'
        => IsReply(inbox'[i], "ok") /\ IsReply(inbox'[j], "changed")
  <2>1. SUFFICES ASSUME NEW i \in 1..Len(inbox'), NEW j \in 1..Len(inbox'), i < j,
                        inbox'[i].kind \in Answers, inbox'[j].kind \in Answers,
                        inbox'[i].label = inbox'[j].label, Good(inbox[i].call)', Good(inbox[j].call)'
                 PROVE  IsReply(inbox'[i], "ok") /\ IsReply(inbox'[j], "changed")
    OBVIOUS
  <2>2. PICK m, n : m = inbox'[i] /\ n = inbox'[j]
    OBVIOUS
  <2>3. PICK a \in 1..Len(inbox), b \in 1..Len(inbox) : a < b /\ m = inbox[a] /\ n = inbox[b]
    <3>1. i + 1 < j + 1
      BY <1>1, <2>1
    <3>2. QED
      BY <1>1, <2>2, <3>1
  <2>4. Good(m.call) /\ Good(n.call)
    BY <1>2, <2>1, <2>2 DEF Others, Good
  <2>5. QED
    BY <2>1, <2>2, <2>3, <2>4 DEF LabelInv, TogetherInv
<1>5. StartInv'
  BY <1>1 DEF LabelInv, StartInv, Others
<1>6. QED
  BY <1>3, <1>4, <1>5 DEF TogetherInv

(* The tokens of l still say what state l is in. *)
TokensFit(l) ==
  /\ transaction'[l] = Empty \/ Fits(l, transaction[l].call)'
  /\ \A e \in holds : e.label = l =>
       /\ Good(e.call)' => Fits(l, e.call)'
       /\ e.stage = "held" /\ Kind[e.call] = "register" => transaction'[l].state = "register"
  /\ \A i \in 1..Len(inbox) : i # 1 /\ inbox[i].kind \in Answers /\ inbox[i].label = l =>
       \A m : m = inbox[i] =>
         /\ Good(m.call)' => Fits(l, m.call)'
         /\ Kind[m.call] = "register" /\ ~IsReply(m, "changed") => transaction'[l].state = "register"

LEMMA LabelTokens ==
  ASSUME Types, LabelInv, NEW l \in Labels, Others(l), TokensFit(l)
  PROVE  TransactionInv' /\ HoldsInv' /\ InboxInv'
<1>1. TransactionInv'
  BY DEF LabelInv, TransactionInv, Others, TokensFit, Fits
<1>2. HoldsInv'
  <2>1. ASSUME NEW e \in holds
        PROVE  /\ Good(e.call)' => Fits(e.label, e.call)'
               /\ e.stage \in {"started", "rest"} => Kind[e.call] = "status"
               /\ e.stage = "subscribed" => Kind[e.call] = "register"
               /\ e.stage = "held" /\ Kind[e.call] = "register" => transaction'[e.label].state = "register"
    <3>1. e.label \in Labels /\ e.call \in Calls
      BY TokenTypes
    <3>2. CASE e.label = l
      BY <3>1, <3>2 DEF LabelInv, HoldsInv, TokensFit
    <3>3. CASE e.label # l
      BY <3>1, <3>3 DEF LabelInv, HoldsInv, Others, Fits
    <3>4. QED
      BY <3>2, <3>3
  <2>2. \A e, f \in holds : e.label = f.label /\ Good(e.call)' /\ Good(f.call)' => e = f
    BY TokenTypes DEF LabelInv, HoldsInv, Others
  <2>3. holds' = holds
    BY DEF Others
  <2>4. QED
    BY <2>1, <2>2, <2>3 DEF HoldsInv, Good, Fits
<1>3. InboxInv'
  <2>1. SUFFICES ASSUME NEW i \in 1..Len(inbox'), inbox'[i].kind \in Answers, NEW m, m = inbox'[i]
                 PROVE  /\ Good(m.call)' => Fits(m.label, m.call)'
                        /\ m.kind \in {"start", "end"} => Kind[m.call] = "status"
                        /\ IsReply(m, "changed") => Kind[m.call] = "register"
                        /\ Kind[m.call] = "register" /\ ~IsReply(m, "changed")
                             => transaction'[m.label].state = "register"
    BY DEF InboxInv, Good, Fits
  <2>2. i \in Nat /\ i + 1 \in 1..Len(inbox) /\ m = inbox[i + 1]
    BY <2>1 DEF Others, Consumed
  <2>3. PICK k \in 1..Len(inbox) : k # 1 /\ m = inbox[k]
    BY <2>2
  <2>4. m.label \in Labels /\ m.call \in Calls
    BY <2>1, <2>3, TokenTypes
  <2>5. /\ Good(m.call) => Fits(m.label, m.call)
        /\ m.kind \in {"start", "end"} => Kind[m.call] = "status"
        /\ IsReply(m, "changed") => Kind[m.call] = "register"
        /\ Kind[m.call] = "register" /\ ~IsReply(m, "changed") => transaction[m.label].state = "register"
    BY <2>1, <2>3 DEF LabelInv, InboxInv
  <2>6. CASE m.label = l
    BY <2>1, <2>3, <2>5, <2>6 DEF TokensFit
  <2>7. CASE m.label # l
    BY <2>4, <2>5, <2>7 DEF Others, Fits
  <2>8. QED
    BY <2>6, <2>7
<1>4. QED
  BY <1>1, <1>2, <1>3

(* What is left when the first message is gone: a change to come, or any   *)
(* token, of command c at label k.                                         *)
ChangeComes(k, c) ==
  \/ \E e \in holds : e.stage = "subscribed" /\ e.label = k /\ e.call = c
  \/ \E i \in 1..Len(inbox) : /\ i # 1 /\ IsReply(inbox[i], "changed")
                              /\ inbox[i].label = k /\ inbox[i].call = c

Remains(k, c) ==
  \/ \E e \in holds : e.label = k /\ e.call = c
  \/ \E i \in 1..Len(inbox) : /\ i # 1 /\ inbox[i].kind \in {"reply", "start", "end"}
                              /\ inbox[i].label = k /\ inbox[i].call = c

LEMMA LabelRegister ==
  ASSUME Types, LabelInv, Consumed,
         \A e : e \in holds /\ e.stage = "subscribed" <=> e \in holds' /\ e.stage = "subscribed",
         \A k \in Labels, c \in Calls :
           ChangeComes(k, c) /\ (transaction[k].state = "change" \/ Interim(1, k, c))
             => transaction'[k].state = "change"
  PROVE  RegisterInv'
<1>1. /\ \A i \in 1..Len(inbox') : i \in Nat /\ i + 1 \in 1..Len(inbox) /\ inbox'[i] = inbox[i + 1]
      /\ \A i \in 1..Len(inbox) : i \in Nat /\ (i = 1 \/ (i - 1 \in 1..Len(inbox') /\ inbox'[i - 1] = inbox[i]))
  BY DEF Consumed
<1>2. ASSUME NEW e \in holds, e.stage = "subscribed"
      PROVE  transaction'[e.label].state = "change" \/ \E i \in 1..Len(inbox') : Interim(i, e.label, e.call)'
  <2>1. e.label \in Labels /\ e.call \in Calls /\ ChangeComes(e.label, e.call)
    BY <1>2, TokenTypes DEF ChangeComes
  <2>2. CASE transaction[e.label].state = "change" \/ Interim(1, e.label, e.call)
    BY <2>1, <2>2
  <2>3. CASE ~(transaction[e.label].state = "change" \/ Interim(1, e.label, e.call))
    <3>1. PICK i \in 1..Len(inbox) : i # 1 /\ Interim(i, e.label, e.call)
      BY <1>2, <2>3 DEF LabelInv, RegisterInv
    <3>2. i - 1 \in 1..Len(inbox') /\ Interim(i - 1, e.label, e.call)'
      BY <1>1, <3>1 DEF Interim
    <3>3. QED
      BY <3>2
  <2>4. QED
    BY <2>2, <2>3
<1>3. ASSUME NEW j \in 1..Len(inbox'), NEW m, m = inbox'[j], IsReply(m, "changed")
      PROVE  \/ transaction'[m.label].state = "change"
             \/ \E i \in 1..Len(inbox') : i < j /\ Interim(i, m.label, m.call)'
  <2>1. PICK b \in 1..Len(inbox) : b = j + 1 /\ b # 1 /\ m = inbox[b]
    BY <1>1, <1>3
  <2>2. m.label \in Labels /\ m.call \in Calls /\ ChangeComes(m.label, m.call)
    BY <1>3, <2>1, TokenTypes DEF ChangeComes, IsReply, Answers
  <2>3. CASE transaction[m.label].state = "change" \/ Interim(1, m.label, m.call)
    BY <2>2, <2>3
  <2>4. CASE ~(transaction[m.label].state = "change" \/ Interim(1, m.label, m.call))
    <3>1. PICK i \in 1..Len(inbox) : i < b /\ Interim(i, m.label, m.call)
      BY <1>3, <2>1, <2>4 DEF LabelInv, RegisterInv
    <3>2. i # 1
      BY <2>4, <3>1
    <3>3. i - 1 \in 1..Len(inbox') /\ Interim(i - 1, m.label, m.call)' /\ i - 1 < j
      BY <1>1, <2>1, <3>1, <3>2 DEF Interim
    <3>4. QED
      BY <3>3
  <2>5. QED
    BY <2>3, <2>4
<1>4. ASSUME NEW i \in 1..Len(inbox'), NEW m, m = inbox'[i], IsReply(m, "ok"), Kind[m.call] = "register"
      PROVE  \/ \E e \in holds : e.stage = "subscribed" /\ e.label = m.label /\ e.call = m.call
             \/ \E j \in 1..Len(inbox') : /\ i < j /\ IsReply(inbox'[j], "changed")
                                          /\ inbox'[j].label = m.label /\ inbox'[j].call = m.call
  <2>1. PICK b \in 1..Len(inbox) : b = i + 1 /\ m = inbox[b]
    BY <1>1, <1>4
  <2>2. \/ \E e \in holds : e.stage = "subscribed" /\ e.label = m.label /\ e.call = m.call
        \/ \E j \in 1..Len(inbox) : /\ b < j /\ IsReply(inbox[j], "changed")
                                    /\ inbox[j].label = m.label /\ inbox[j].call = m.call
    BY <1>4, <2>1 DEF LabelInv, RegisterInv
  <2>3. ASSUME NEW j \in 1..Len(inbox), b < j, IsReply(inbox[j], "changed"),
               inbox[j].label = m.label, inbox[j].call = m.call
        PROVE  \E k \in 1..Len(inbox') : /\ i < k /\ IsReply(inbox'[k], "changed")
                                         /\ inbox'[k].label = m.label /\ inbox'[k].call = m.call
    <3>1. j # 1 /\ i < j - 1
      BY <1>1, <2>1, <2>3
    <3>2. PICK k \in 1..Len(inbox') : k = j - 1 /\ inbox'[k] = inbox[j]
      BY <1>1, <3>1
    <3>3. QED
      BY <2>3, <3>1, <3>2
  <2>4. QED
    BY <2>2, <2>3
<1>5. \A e \in holds' : e.stage = "subscribed" =>
        transaction'[e.label].state = "change" \/ \E i \in 1..Len(inbox') : Interim(i, e.label, e.call)'
  BY <1>2
<1>6. \A j \in 1..Len(inbox') : IsReply(inbox'[j], "changed") =>
        \/ transaction'[inbox'[j].label].state = "change"
        \/ \E i \in 1..Len(inbox') : i < j /\ Interim(i, inbox[j].label, inbox[j].call)'
  BY <1>3
<1>7. \A i \in 1..Len(inbox') : IsReply(inbox'[i], "ok") /\ Kind[inbox'[i].call] = "register" =>
        \/ \E e \in holds' : e.stage = "subscribed" /\ e.label = inbox'[i].label /\ e.call = inbox'[i].call
        \/ \E j \in 1..Len(inbox') : /\ i < j /\ IsReply(inbox'[j], "changed")
                                     /\ inbox'[j].label = inbox'[i].label /\ inbox'[j].call = inbox'[i].call
  BY <1>4
<1>8. QED
  BY <1>5, <1>6, <1>7 DEF RegisterInv, Interim

LEMMA LabelOwned ==
  ASSUME LabelInv, NEW l, Others(l),
         inbox[1].kind \in Answers => inbox[1].label = l,
         running => transaction'[l] = Empty \/ l \in stranded' \/ Remains(l, transaction'[l].call)
  PROVE  OwnLabels'
<1>1. /\ \A i \in 1..Len(inbox) : i = 1 \/ (i - 1 \in 1..Len(inbox') /\ inbox'[i - 1] = inbox[i])
      /\ holds' = holds /\ running' = running
  BY DEF Others, Consumed
<1>2. ASSUME NEW k, NEW c, Remains(k, c)
      PROVE  \/ \E e \in holds' : e.label = k /\ e.call = c
             \/ \E i \in 1..Len(inbox') : /\ inbox'[i].kind \in {"reply", "start", "end"}
                                          /\ inbox'[i].label = k /\ inbox'[i].call = c
  BY <1>1, <1>2 DEF Remains
<1>3. ASSUME running, NEW k \in Labels, k # l
      PROVE  transaction'[k] = Empty \/ k \in stranded' \/ Remains(k, transaction'[k].call)
  <2>1. transaction'[k] = transaction[k] /\ (k \in stranded => k \in stranded')
    BY <1>3 DEF Others
  <2>2. \/ transaction[k] = Empty \/ k \in stranded
        \/ \E e \in holds : e.label = k /\ e.call = transaction[k].call
        \/ \E i \in 1..Len(inbox) : /\ inbox[i].kind \in {"reply", "start", "end"}
                                    /\ inbox[i].label = k /\ inbox[i].call = transaction[k].call
    BY <1>3 DEF LabelInv, OwnLabels
  <2>3. \A i \in 1..Len(inbox) : inbox[i].kind \in {"reply", "start", "end"} /\ inbox[i].label = k => i # 1
    BY <1>3 DEF Answers
  <2>4. QED
    BY <2>1, <2>2, <2>3 DEF Remains
<1>4. QED
  BY <1>1, <1>2, <1>3 DEF OwnLabels

(* A label is freed when no token of it that counts remains. *)
LEMMA LabelFreed ==
  ASSUME Types, LabelInv, NEW l \in Labels, Others(l), transaction'[l] = Empty,
         inbox[1].kind \in Answers => inbox[1].label = l,
         ~(IsReply(inbox[1], "ok") /\ Kind[inbox[1].call] = "register"),
         \A c \in Calls : Remains(l, c) => ~Good(c)'
  PROVE  LabelInv'
<1>1. \A e \in holds : e.label = l => ~Good(e.call)' /\ Kind[e.call] = "pass"
  BY TokenTypes DEF Remains, Good
<1>2. ASSUME NEW i \in 1..Len(inbox), i # 1, inbox[i].kind \in Answers, inbox[i].label = l, NEW m, m = inbox[i]
      PROVE  ~Good(m.call)' /\ Kind[m.call] = "pass"
  <2>1. m.call \in Calls /\ Remains(l, m.call)
    BY <1>2, TokenTypes DEF Remains, Answers
  <2>2. QED
    BY <2>1 DEF Good
<1>3. TokensFit(l)
  BY <1>1, <1>2 DEF TokensFit
<1>4. ASSUME NEW k \in Labels, NEW c \in Calls, ChangeComes(k, c),
             transaction[k].state = "change" \/ Interim(1, k, c)
      PROVE  transaction'[k].state = "change"
  <2>1. Kind[c] = "register"
    BY <1>4 DEF ChangeComes, LabelInv, HoldsInv, InboxInv, IsReply, Answers
  <2>2. Remains(k, c)
    BY <1>4 DEF ChangeComes, Remains, IsReply
  <2>3. k # l
    BY <2>1, <2>2 DEF Good
  <2>4. ~Interim(1, k, c)
    BY <2>1 DEF Interim
  <2>5. QED
    BY <1>4, <2>3, <2>4 DEF Others
<1>5. RegisterInv'
  BY <1>4, LabelRegister DEF Others
<1>6. QED
  BY <1>3, <1>5, LabelTokens, LabelTogether, LabelOwned DEF LabelInv

(* The labels stay as they are. *)
LEMMA LabelKept ==
  ASSUME Types, LabelInv, NEW l \in Labels, Others(l), UNCHANGED transaction,
         l \in stranded => l \in stranded',
         ~(IsReply(inbox[1], "ok") /\ Kind[inbox[1].call] = "register"),
         inbox[1].kind \in Answers =>
           /\ inbox[1].label = l
           /\ transaction[l].call = inbox[1].call => l \in stranded'
  PROVE  LabelInv'
<1>1. TokensFit(l)
  <2>1. transaction'[l] = Empty \/ Fits(l, transaction[l].call)'
    BY DEF LabelInv, TransactionInv, Fits
  <2>2. ASSUME NEW e \in holds, e.label = l
        PROVE  /\ Good(e.call)' => Fits(l, e.call)'
               /\ e.stage = "held" /\ Kind[e.call] = "register" => transaction'[l].state = "register"
    BY <2>2, TokenTypes DEF LabelInv, HoldsInv, Others, Fits
  <2>3. ASSUME NEW i \in 1..Len(inbox), inbox[i].kind \in Answers, inbox[i].label = l, NEW m, m = inbox[i]
        PROVE  /\ Good(m.call)' => Fits(l, m.call)'
               /\ Kind[m.call] = "register" /\ ~IsReply(m, "changed") => transaction'[l].state = "register"
    <3>1. m.call \in Calls
      BY <2>3, TokenTypes
    <3>2. /\ Good(m.call) => Fits(l, m.call)
          /\ Kind[m.call] = "register" /\ ~IsReply(m, "changed") => transaction[l].state = "register"
      BY <2>3 DEF LabelInv, InboxInv
    <3>3. QED
      BY <3>1, <3>2 DEF Others, Fits
  <2>4. QED
    BY <2>1, <2>2, <2>3 DEF TokensFit
<1>2. ASSUME NEW k \in Labels, NEW c \in Calls, ChangeComes(k, c),
             transaction[k].state = "change" \/ Interim(1, k, c)
      PROVE  transaction'[k].state = "change"
  <2>1. Kind[c] = "register"
    BY <1>2 DEF ChangeComes, LabelInv, HoldsInv, InboxInv, IsReply, Answers
  <2>2. QED
    BY <1>2, <2>1 DEF Interim
<1>3. running => transaction'[l] = Empty \/ l \in stranded' \/ Remains(l, transaction'[l].call)
  BY DEF LabelInv, OwnLabels, Remains, Answers
<1>4. RegisterInv'
  BY <1>2, LabelRegister DEF Others
<1>5. QED
  BY <1>1, <1>3, <1>4, LabelTokens, LabelTogether, LabelOwned DEF LabelInv

(* A registration is answered: its label waits for the change, and what    *)
(* stands for it is there, unless the answer is a rejection.               *)
LEMMA LabelChanging ==
  ASSUME Types, LabelInv, NEW l \in Labels, Others(l), UNCHANGED taken,
         inbox[1].kind = "reply", inbox[1].label = l, Kind[inbox[1].call] = "register",
         transaction[l].state = "register",
         transaction' = [transaction EXCEPT ![l].state = "change"],
         inbox[1].code # "ok" => l \in stranded'
  PROVE  LabelInv'
<1>1. PICK m \in Message : m = inbox[1]
  BY DEF Others, Consumed
<1>2. 1 \in 1..Len(inbox) /\ \A i \in 1..Len(inbox) : i \in Nat
  BY DEF Others, Consumed
<1>3. /\ m.kind = "reply" /\ m.label = l /\ m.call \in Calls /\ Kind[m.call] = "register"
      /\ Good(m.call) /\ Fits(l, m.call)
  BY <1>1, <1>2, TokenTypes DEF LabelInv, InboxInv, Good, Answers
<1>4. /\ transaction[l].call = m.call /\ transaction'[l].call = m.call
      /\ transaction'[l].state = "change"
  <2>1. transaction[l] \in [state : {"pass", "status", "register", "change"}, call : Calls]
    BY TokenTypes DEF Transaction, Empty
  <2>2. transaction'[l] = [transaction[l] EXCEPT !.state = "change"]
    BY TokenTypes
  <2>3. QED
    BY <1>3, <2>1, <2>2 DEF Fits
<1>5. Fits(l, m.call)'
  BY <1>3, <1>4 DEF Fits
<1>6. \A e \in holds : e.label = l /\ Good(e.call) => e.call = m.call /\ e.stage = "subscribed"
  <2>1. SUFFICES ASSUME NEW e \in holds, e.label = l, Good(e.call)
                 PROVE  e.call = m.call /\ e.stage = "subscribed"
    OBVIOUS
  <2>2. e.call = m.call
    BY <1>4, <2>1 DEF LabelInv, HoldsInv, Fits
  <2>3. e.stage = "subscribed"
    BY <1>1, <1>2, <1>3, <2>1 DEF LabelInv, TogetherInv, Answers
  <2>4. QED
    BY <2>2, <2>3
<1>7. ASSUME NEW i \in 1..Len(inbox), i # 1, inbox[i].kind \in Answers, NEW k, k = inbox[i],
             k.label = l, Good(k.call)
      PROVE  k.call = m.call /\ IsReply(k, "changed")
  <2>1. 1 < i
    BY <1>2, <1>7
  <2>2. k.call = m.call
    BY <1>4, <1>7 DEF LabelInv, InboxInv, Fits
  <2>3. IsReply(k, "changed")
    BY <1>1, <1>2, <1>3, <1>7, <2>1 DEF LabelInv, TogetherInv, Answers
  <2>4. QED
    BY <2>2, <2>3
<1>8. TokensFit(l)
  <2>1. ASSUME NEW e \in holds, e.label = l
        PROVE  /\ Good(e.call)' => Fits(l, e.call)'
               /\ ~(e.stage = "held" /\ Kind[e.call] = "register")
    BY <1>5, <1>6, <2>1 DEF Good, Fits
  <2>2. ASSUME NEW i \in 1..Len(inbox), i # 1, inbox[i].kind \in Answers, inbox[i].label = l, NEW k, k = inbox[i]
        PROVE  /\ Good(k.call)' => Fits(l, k.call)'
               /\ ~(Kind[k.call] = "register" /\ ~IsReply(k, "changed"))
    BY <1>5, <1>7, <2>2 DEF Good, Fits
  <2>3. Fits(l, transaction[l].call)'
    BY <1>4, <1>5 DEF Fits
  <2>4. QED
    BY <2>1, <2>2, <2>3 DEF TokensFit
<1>9. ASSUME NEW k \in Labels, NEW c \in Calls, transaction[k].state = "change" \/ Interim(1, k, c)
      PROVE  transaction'[k].state = "change"
  <2>1. k = l => transaction'[k].state = "change"
    BY <1>4
  <2>2. k # l => ~Interim(1, k, c)
    BY DEF Interim
  <2>3. QED
    BY <1>9, <2>1, <2>2 DEF Others
<1>10. l \in stranded' \/ Remains(l, transaction'[l].call)
  <2>1. SUFFICES ASSUME m.code = "ok" PROVE Remains(l, m.call)
    BY <1>1, <1>4
  <2>2. \/ \E e \in holds : e.stage = "subscribed" /\ e.label = m.label /\ e.call = m.call
        \/ \E j \in 1..Len(inbox) : /\ 1 < j /\ IsReply(inbox[j], "changed")
                                    /\ inbox[j].label = m.label /\ inbox[j].call = m.call
    BY <1>1, <1>2, <1>3, <2>1 DEF LabelInv, RegisterInv, IsReply
  <2>3. QED
    BY <1>2, <1>3, <2>2 DEF Remains, IsReply
<1>11. RegisterInv'
  BY <1>9, LabelRegister DEF Others
<1>12. QED
  BY <1>8, <1>10, <1>11, LabelTokens, LabelTogether, LabelOwned DEF LabelInv

(* The last answer of a command is the last token of its label. *)
LEMMA LastToken ==
  ASSUME Types, LabelInv, Consumed, NEW m, m = inbox[1], m.kind \in {"reply", "end"}, Good(m.call),
         Kind[m.call] # "register" \/ IsReply(m, "changed"),
         NEW c, Remains(m.label, c)
  PROVE  ~Good(c)
<1> SUFFICES ASSUME Good(c) PROVE FALSE
  OBVIOUS
<1>1. 1 \in 1..Len(inbox) /\ Fits(m.label, m.call) /\ \A i \in 1..Len(inbox) : i \in Nat
  BY DEF Consumed, LabelInv, InboxInv, Answers
<1>2. ASSUME NEW e \in holds, e.label = m.label, e.call = c PROVE FALSE
  <2>1. IsReply(m, "ok") /\ e.stage = "subscribed"
    BY <1>1, <1>2 DEF LabelInv, TogetherInv, Answers
  <2>2. Kind[c] = "register" /\ c = m.call
    BY <1>1, <1>2, <2>1 DEF LabelInv, HoldsInv, Fits
  <2>3. QED
    BY <2>1, <2>2 DEF IsReply
<1>3. ASSUME NEW i \in 1..Len(inbox), i # 1, inbox[i].kind \in {"reply", "start", "end"},
             inbox[i].label = m.label, inbox[i].call = c
      PROVE  FALSE
  <2>1. 1 < i
    BY <1>1, <1>3
  <2>2. IsReply(m, "ok") /\ IsReply(inbox[i], "changed")
    BY <1>1, <1>3, <2>1 DEF LabelInv, TogetherInv, Answers
  <2>3. Kind[c] = "register" /\ c = m.call
    BY <1>1, <1>3, <2>2 DEF LabelInv, InboxInv, Fits, Answers
  <2>4. QED
    BY <2>2, <2>3 DEF IsReply
<1>4. QED
  BY <1>2, <1>3 DEF Remains

(* A label that a pass-through waits for has no token of another kind. *)
LEMMA PassToken ==
  ASSUME Types, LabelInv, Consumed, NEW l \in Labels, transaction[l].state = "pass",
         NEW c \in Calls, Remains(l, c), Good(c)
  PROVE  Kind[c] = "pass" /\ taken = {}
<1>1. Fits(l, c)
  BY DEF Remains, LabelInv, HoldsInv, InboxInv, Answers
<1>2. QED
  BY <1>1 DEF Fits, Good

LEMMA PassThroughLabels ==
  ASSUME Types, Types', LabelInv, PassThroughReply \/ PassThroughCommand
  PROVE  LabelInv'
<1>1. /\ Consumed /\ UNCHANGED <<holds, running, stranded>> /\ Head(inbox) = inbox[1]
      /\ transaction' \in [Labels -> Transaction] /\ transaction \in [Labels -> Transaction]
  BY NextMessageType, TokenTypes DEF PassThroughReply, PassThroughCommand, peer, history, Types, TypeOK
<1>2. PICK m \in Message : m = inbox[1]
  BY <1>1 DEF Consumed
<1>3. CASE PassThroughReply
  <2>1. /\ m.kind = "reply" /\ Kind[m.call] = "pass" /\ m.label \in Labels /\ m.call \in Calls
        /\ taken' = taken
    BY <1>1, <1>2, <1>3, NextMessageType, MessageFields DEF PassThroughReply, Answers, history
  <2>2. \A c \in Calls : Good(c)' <=> Good(c)
    BY <2>1 DEF Good
  <2>3. CASE transaction[m.label].state = "pass"
    <3>1. transaction' = [transaction EXCEPT ![m.label] = Empty]
      BY <1>1, <1>2, <1>3, <2>3 DEF PassThroughReply
    <3>2. Others(m.label) /\ transaction'[m.label] = Empty
      BY <1>1, <2>1, <2>2, <3>1 DEF Others
    <3>3. ASSUME NEW c \in Calls, Remains(m.label, c) PROVE ~Good(c)'
      <4>1. CASE taken = {}
        BY <1>1, <1>2, <2>1, <2>2, <3>3, <4>1, LastToken DEF Good
      <4>2. CASE taken # {}
        BY <1>1, <2>1, <2>2, <2>3, <3>3, <4>2, PassToken
      <4>3. QED
        BY <4>1, <4>2
    <3>4. QED
      BY <1>2, <2>1, <3>2, <3>3, LabelFreed
  <2>4. CASE transaction[m.label].state # "pass"
    <3>1. transaction' = transaction
      BY <1>1, <1>2, <1>3, <2>4 DEF PassThroughReply
    <3>2. Others(m.label)
      BY <1>1, <2>2, <3>1 DEF Others
    <3>3. transaction[m.label].call # m.call
      BY <2>1, <2>4, AvrcpAssumption DEF LabelInv, TransactionInv, Fits, Empty
    <3>4. QED
      BY <1>1, <1>2, <2>1, <3>1, <3>2, <3>3, LabelKept
  <2>5. QED
    BY <2>3, <2>4
<1>4. CASE PassThroughCommand
  <2>1. m.kind = "press" /\ m.arg \in Labels /\ m.kind \notin Answers
    BY <1>1, <1>2, <1>4, NextMessageType, MessageFields DEF PassThroughCommand, Answers
  <2>2. CASE transaction[m.arg].state = "pass"
    <3>1. transaction' = [transaction EXCEPT ![m.arg] = Empty] /\ taken' # {}
      BY <1>1, <1>2, <1>4, <2>2 DEF PassThroughCommand
    <3>2. \A c \in Calls : Good(c)' <=> Kind[c] # "pass"
      BY <3>1 DEF Good
    <3>3. Others(m.arg) /\ transaction'[m.arg] = Empty
      BY <1>1, <2>1, <3>1, <3>2 DEF Others, Good
    <3>4. ASSUME NEW c \in Calls, Remains(m.arg, c) PROVE ~Good(c)'
      BY <1>1, <2>1, <2>2, <3>2, <3>4, PassToken DEF Good
    <3>5. QED
      BY <1>2, <2>1, <3>3, <3>4, LabelFreed DEF IsReply
  <2>3. CASE transaction[m.arg].state # "pass"
    <3>1. transaction' = transaction /\ taken' = taken
      BY <1>1, <1>2, <1>4, <2>3 DEF PassThroughCommand
    <3>2. Others(m.arg)
      BY <1>1, <3>1 DEF Others, Good
    <3>3. QED
      BY <1>1, <1>2, <2>1, <3>1, <3>2, LabelKept DEF IsReply
  <2>4. QED
    BY <2>2, <2>3
<1>5. QED
  BY <1>3, <1>4

(* The answer to a status call or a registration: what the label is in.    *)
LEMMA VendorToken ==
  ASSUME Types, LabelInv, Consumed, NEW m, m = inbox[1], m.kind \in {"reply", "end"}, Kind[m.call] # "pass"
  PROVE  /\ m \in Message /\ m.label \in Labels /\ m.call \in Calls /\ Good(m.call)
         /\ transaction[m.label].call = m.call
         /\ \/ Kind[m.call] = "status" /\ transaction[m.label].state = "status"
            \/ /\ m.kind = "reply" /\ Kind[m.call] = "register" /\ transaction[m.label].state = "register"
               /\ m.code \in {"ok", "rejected"}
            \/ /\ m.kind = "reply" /\ Kind[m.call] = "register" /\ transaction[m.label].state = "change"
               /\ m.code = "changed"
<1>1. m \in Message /\ m.label \in Labels /\ m.call \in Calls /\ 1 \in 1..Len(inbox)
      /\ \A i \in 1..Len(inbox) : i \in Nat
  BY TokenTypes DEF Consumed, Answers
<1>2. Good(m.call) /\ Fits(m.label, m.call)
  BY <1>1 DEF LabelInv, InboxInv, Good, Answers
<1>3. CASE Kind[m.call] = "status"
  BY <1>1, <1>2, <1>3 DEF Fits
<1>4. CASE Kind[m.call] = "register"
  <2>1. m.kind = "reply" /\ m.code \in {"ok", "rejected", "changed"}
    BY <1>1, <1>4, MessageFields DEF LabelInv, InboxInv, Answers
  <2>2. m.code # "changed" => transaction[m.label].state = "register"
    BY <1>1, <1>4 DEF LabelInv, InboxInv, Answers, IsReply
  <2>3. m.code = "changed" => transaction[m.label].state = "change"
    <3>1. ASSUME m.code = "changed", NEW i \in 1..Len(inbox), i < 1 PROVE FALSE
      BY <1>1, <3>1
    <3>2. QED
      BY <1>1, <2>1, <3>1 DEF LabelInv, RegisterInv, IsReply
  <2>4. QED
    BY <1>1, <1>2, <1>4, <2>1, <2>2, <2>3 DEF Fits
<1>5. Kind[m.call] \in {"pass", "status", "register"}
  BY <1>1, AvrcpAssumption
<1>6. QED
  BY <1>3, <1>4, <1>5

LEMMA CompleteLabels ==
  ASSUME Types, Types', LabelInv, Consumed, UNCHANGED <<holds, running, taken>>,
         NEW m, m = inbox[1], m.kind \in {"reply", "end"}, Kind[m.call] # "pass",
         NEW code, NEW data, Complete(m.label, code, data),
         m.kind = "reply" => code = m.code
  PROVE  LabelInv'
<1>1. /\ transaction \in [Labels -> Transaction] /\ transaction' \in [Labels -> Transaction]
      /\ m.label \in Labels /\ m.call \in Calls /\ Good(m.call)
  BY VendorToken DEF Types, TypeOK
<1>2. \A c \in Calls : Good(c)' <=> Good(c)
  BY DEF Good
<1>3. CASE transaction[m.label].state \in {"status", "change"}
  <2>1. /\ transaction' = [transaction EXCEPT ![m.label] = Empty]
        /\ stranded' = stranded \ {m.label}
    BY <1>3 DEF Complete
  <2>2. Others(m.label) /\ transaction'[m.label] = Empty
    BY <1>1, <1>2, <2>1 DEF Others
  <2>3. Kind[m.call] # "register" \/ IsReply(m, "changed")
    BY <1>3, VendorToken DEF IsReply
  <2>4. ASSUME NEW c \in Calls, Remains(m.label, c) PROVE ~Good(c)'
    BY <1>1, <1>2, <2>3, <2>4, LastToken
  <2>5. QED
    BY <1>1, <2>2, <2>3, <2>4, LabelFreed DEF IsReply
<1>4. CASE transaction[m.label].state = "register"
  <2>1. m.kind = "reply" /\ code = m.code /\ Kind[m.call] = "register"
    BY <1>4, VendorToken
  <2>2. /\ transaction' = [transaction EXCEPT ![m.label].state = "change"]
        /\ stranded' = IF code # "ok" THEN stranded \cup {m.label} ELSE stranded
    BY <1>4 DEF Complete
  <2>3. Others(m.label)
    BY <1>1, <1>2, <2>2 DEF Others
  <2>4. QED
    BY <1>1, <1>4, <2>1, <2>2, <2>3, LabelChanging
<1>5. QED
  BY <1>3, <1>4, VendorToken

(* A Start is taken: what the peer holds of the label becomes the rest.    *)
Continued(l, e) == IF linkUp /\ e.label = l /\ e.stage = "started" THEN [e EXCEPT !.stage = "rest"] ELSE e

LEMMA ContinuedFields ==
  ASSUME Types, NEW l, NEW e \in holds, NEW f, f = Continued(l, e)
  PROVE  /\ f \in Holding /\ f.label = e.label /\ f.call = e.call
         /\ f.stage = IF linkUp /\ e.label = l /\ e.stage = "started" THEN "rest" ELSE e.stage
         /\ ~(linkUp /\ e.label = l /\ e.stage = "started") => f = e
BY DEF Types, TypeOK, Holding, Continued

LEMMA StartTaken ==
  ASSUME Types, VendorStart
  PROVE  /\ Consumed /\ UNCHANGED <<transaction, running, taken, stranded>>
         /\ inbox[1] \in Message /\ inbox[1].kind = "start" /\ inbox[1].label \in Labels /\ inbox[1].call \in Calls
         /\ holds' = {Continued(inbox[1].label, e) : e \in holds}
<1>1. /\ Consumed /\ UNCHANGED <<transaction, running, taken, stranded>>
      /\ inbox[1] \in Message /\ inbox[1].kind = "start" /\ Head(inbox) = inbox[1]
  BY NextMessageType DEF VendorStart, history, Consumed
<1>2. inbox[1].label \in Labels /\ inbox[1].call \in Calls
  BY <1>1, MessageFields DEF Answers
<1>3. SendContinue(inbox[1].label)
  BY <1>1 DEF VendorStart
<1>4. CASE linkUp
  BY <1>1, <1>2, <1>3, <1>4 DEF SendContinue, Continued
<1>5. CASE ~linkUp
  BY <1>1, <1>2, <1>3, <1>5 DEF SendContinue, Continued
<1>6. QED
  BY <1>4, <1>5

(* Where there is a Start, no other answer of its label is on its way.     *)
LEMMA StartAlone ==
  ASSUME Types, LabelInv, Consumed, inbox[1].kind = "start"
  PROVE  /\ Good(inbox[1].call)
         /\ \A i \in 1..Len(inbox) : i # 1 /\ inbox[i].kind \in Answers /\ inbox[i].label = inbox[1].label
              => ~Good(inbox[i].call)
<1>1. 1 \in 1..Len(inbox) /\ \A i \in 1..Len(inbox) : i \in Nat
  BY DEF Consumed
<1>2. Good(inbox[1].call)
  BY <1>1 DEF LabelInv, InboxInv, Good, Answers
<1>3. ASSUME NEW i \in 1..Len(inbox), i # 1, inbox[i].kind \in Answers, inbox[i].label = inbox[1].label,
             Good(inbox[i].call)
      PROVE  FALSE
  <2>1. 1 < i
    BY <1>1, <1>3
  <2>2. IsReply(inbox[1], "ok")
    BY <1>1, <1>2, <1>3, <2>1 DEF LabelInv, TogetherInv, Answers
  <2>3. QED
    BY <2>2 DEF IsReply
<1>4. QED
  BY <1>2, <1>3

LEMMA VendorStartLabels == ASSUME Types, LabelInv, VendorStart PROVE LabelInv'
<1> DEFINE l == inbox[1].label
<1>1. /\ Consumed /\ UNCHANGED <<transaction, running, taken, stranded>>
      /\ inbox[1].kind = "start" /\ l \in Labels
      /\ holds' = {Continued(l, e) : e \in holds}
  BY StartTaken
<1>2. /\ \A i \in 1..Len(inbox') : i \in Nat /\ i + 1 \in 1..Len(inbox) /\ inbox'[i] = inbox[i + 1]
      /\ \A i \in 1..Len(inbox) : i \in Nat /\ (i = 1 \/ (i - 1 \in 1..Len(inbox') /\ inbox'[i - 1] = inbox[i]))
  BY <1>1 DEF Consumed
<1>21. ASSUME NEW i \in 1..Len(inbox') PROVE \E b \in 1..Len(inbox) : b # 1 /\ inbox'[i] = inbox[b]
  <2>1. i \in Nat /\ i >= 1 /\ i + 1 \in 1..Len(inbox) /\ inbox'[i] = inbox[i + 1]
    BY <1>2
  <2>2. i + 1 # 1
    BY <2>1
  <2>3. QED
    BY <2>1, <2>2
<1>3. \A c \in Calls : Good(c)' <=> Good(c)
  BY <1>1 DEF Good
<1>4. TransactionInv'
  BY <1>1 DEF LabelInv, TransactionInv, Fits
<1> HIDE DEF l
<1>5. HoldsInv'
  <2>1. ASSUME NEW f \in holds'
        PROVE  /\ Good(f.call)' => Fits(f.label, f.call)'
               /\ f.stage \in {"started", "rest"} => Kind[f.call] = "status"
               /\ f.stage = "subscribed" => Kind[f.call] = "register"
               /\ f.stage = "held" /\ Kind[f.call] = "register" => transaction'[f.label].state = "register"
    <3>1. PICK e \in holds : f = Continued(l, e)
      BY <1>1, <2>1
    <3>2. /\ Good(e.call) => Fits(e.label, e.call)
          /\ e.stage \in {"started", "rest"} => Kind[e.call] = "status"
          /\ e.stage = "subscribed" => Kind[e.call] = "register"
          /\ e.stage = "held" /\ Kind[e.call] = "register" => transaction[e.label].state = "register"
      BY DEF LabelInv, HoldsInv
    <3>3. /\ f.label = e.label /\ f.call = e.call
          /\ f.stage = IF linkUp /\ e.label = l /\ e.stage = "started" THEN "rest" ELSE e.stage
      BY <3>1, ContinuedFields
    <3>4. QED
      BY <1>1, <3>2, <3>3 DEF Good, Fits
  <2>2. ASSUME NEW f \in holds', NEW g \in holds', f.label = g.label, Good(f.call)', Good(g.call)'
        PROVE  f = g
    <3>1. PICK e \in holds : f = Continued(l, e)
      BY <1>1, <2>2
    <3>2. PICK d \in holds : g = Continued(l, d)
      BY <1>1, <2>2
    <3>3. f.label = e.label /\ f.call = e.call /\ g.label = d.label /\ g.call = d.call
      BY <3>1, <3>2, ContinuedFields
    <3>4. Good(e.call) /\ Good(d.call)
      BY <1>1, <2>2, <3>3 DEF Good
    <3>5. e = d
      BY <2>2, <3>3, <3>4 DEF LabelInv, HoldsInv
    <3>6. QED
      BY <3>1, <3>2, <3>5
  <2>3. QED
    BY <2>1, <2>2 DEF HoldsInv, Good, Fits
<1>6. InboxInv'
  <2>1. SUFFICES ASSUME NEW i \in 1..Len(inbox'), inbox'[i].kind \in Answers, NEW m, m = inbox'[i]
                 PROVE  /\ Good(m.call)' => Fits(m.label, m.call)'
                        /\ m.kind \in {"start", "end"} => Kind[m.call] = "status"
                        /\ IsReply(m, "changed") => Kind[m.call] = "register"
                        /\ Kind[m.call] = "register" /\ ~IsReply(m, "changed")
                             => transaction'[m.label].state = "register"
    BY DEF InboxInv, Good, Fits
  <2>2. PICK b \in 1..Len(inbox) : m = inbox[b]
    BY <1>2, <2>1
  <2>3. QED
    BY <1>1, <2>1, <2>2 DEF LabelInv, InboxInv, Good, Fits
<1>7. TogetherInv'
  <2>1. ASSUME NEW i \in 1..Len(inbox'), NEW f \in holds', NEW m, m = inbox'[i], m.kind \in Answers,
               m.label = f.label, Good(m.call)', Good(f.call)'
        PROVE  \/ m.kind = "start" /\ f.stage = "started"
               \/ IsReply(m, "ok") /\ f.stage = "subscribed"
    <3>1. PICK e \in holds : f = Continued(l, e)
      BY <1>1, <2>1
    <3>2. /\ f.label = e.label /\ f.call = e.call
          /\ f.stage = IF linkUp /\ e.label = l /\ e.stage = "started" THEN "rest" ELSE e.stage
      BY <3>1, ContinuedFields
    <3>3. PICK b \in 1..Len(inbox) : b # 1 /\ m = inbox[b]
      BY <1>21, <2>1
    <3>4. Good(m.call) /\ Good(e.call)
      BY <1>1, <2>1, <3>2 DEF Good
    <3>5. m.label # l
      BY <1>1, <2>1, <3>3, <3>4, StartAlone DEF l
    <3>6. \/ m.kind = "start" /\ e.stage = "started"
          \/ IsReply(m, "ok") /\ e.stage = "subscribed"
      BY <2>1, <3>2, <3>3, <3>4 DEF LabelInv, TogetherInv
    <3>7. QED
      BY <2>1, <3>2, <3>5, <3>6
  <2>2. ASSUME NEW i \in 1..Len(inbox'), NEW j \in 1..Len(inbox'), i < j, NEW m, NEW n, m = inbox'[i], n = inbox'[j],
               m.kind \in Answers, n.kind \in Answers, m.label = n.label, Good(m.call)', Good(n.call)'
        PROVE  IsReply(m, "ok") /\ IsReply(n, "changed")
    <3>1. PICK a \in 1..Len(inbox), b \in 1..Len(inbox) : a < b /\ m = inbox[a] /\ n = inbox[b]
      <4>1. i + 1 < j + 1
        BY <1>2, <2>2
      <4>2. QED
        BY <1>2, <2>2, <4>1
    <3>2. Good(m.call) /\ Good(n.call)
      BY <1>1, <2>2 DEF Good
    <3>3. QED
      BY <2>2, <3>1, <3>2 DEF LabelInv, TogetherInv
  <2>3. QED
    BY <2>1, <2>2 DEF TogetherInv, Good
<1>8. \A e : e \in holds /\ e.stage = "subscribed" <=> e \in holds' /\ e.stage = "subscribed"
  BY <1>1, ContinuedFields
<1>9. RegisterInv'
  <2>1. \A k, c : ~Interim(1, k, c)
    BY <1>1 DEF Interim, IsReply
  <2>2. QED
    BY <1>1, <1>8, <2>1, LabelRegister
<1>10. StartInv'
  <2>1. SUFFICES ASSUME NEW i \in 1..Len(inbox'), NEW m, m = inbox'[i], m.kind = "start"
                 PROVE  \E f \in holds' : f.label = m.label /\ f.call = m.call /\ f.stage = "started"
    BY DEF StartInv
  <2>2. PICK b \in 1..Len(inbox) : b # 1 /\ m = inbox[b]
    BY <1>21, <2>1
  <2>3. PICK e \in holds : e.label = m.label /\ e.call = m.call /\ e.stage = "started"
    BY <2>1, <2>2 DEF LabelInv, StartInv
  <2>4. Good(m.call)
    BY <2>1, <2>2 DEF LabelInv, InboxInv, Good, Answers
  <2>5. e.label # l
    BY <1>1, <2>1, <2>2, <2>3, <2>4, StartAlone DEF l, Answers
  <2>6. Continued(l, e) = e /\ e \in holds'
    BY <1>1, <2>5 DEF Continued
  <2>7. QED
    BY <2>3, <2>6
<1>11. OwnLabels'
  <2>1. \A k, c : (\E e \in holds : e.label = k /\ e.call = c)
                               => \E f \in holds' : f.label = k /\ f.call = c
    BY <1>1, ContinuedFields
  <2>2. ASSUME NEW k \in Labels, NEW c, NEW i \in 1..Len(inbox), inbox[i].kind \in {"reply", "start", "end"},
               inbox[i].label = k, inbox[i].call = c
        PROVE  \/ \E f \in holds' : f.label = k /\ f.call = c
               \/ \E j \in 1..Len(inbox') : /\ inbox'[j].kind \in {"reply", "start", "end"}
                                            /\ inbox'[j].label = k /\ inbox'[j].call = c
    <3>1. CASE i = 1
      <4>1. \E e \in holds : e.label = k /\ e.call = c
        BY <1>1, <2>2, <3>1 DEF LabelInv, StartInv
      <4>2. QED
        BY <2>1, <4>1
    <3>2. CASE i # 1
      BY <1>2, <2>2, <3>2
    <3>3. QED
      BY <3>1, <3>2
  <2>3. QED
    BY <1>1, <2>1, <2>2 DEF LabelInv, OwnLabels
<1>12. QED
  BY <1>4, <1>5, <1>6, <1>7, <1>9, <1>10, <1>11 DEF LabelInv

(* What the peer may answer with, and what it holds after. *)
AnswerForm(e, m, S) ==
  \/ /\ e.stage = "held" /\ m.kind = "reply" /\ m.code \in {"ok", "rejected"}
     /\ S = IF Kind[e.call] = "register" /\ m.code = "ok" THEN {[e EXCEPT !.stage = "subscribed"]} ELSE {}
  \/ e.stage = "subscribed" /\ IsReply(m, "changed") /\ S = {}
  \/ e.stage = "held" /\ Kind[e.call] = "status" /\ m.kind = "start" /\ S = {[e EXCEPT !.stage = "started"]}
  \/ e.stage = "rest" /\ m.kind = "end" /\ S = {}

LEMMA PeerForms ==
  ASSUME Types, NEW e \in holds,
         (\E code \in {"ok", "rejected"} : PeerAnswer(e, code)) \/ PeerChange(e) \/ PeerStart(e) \/ PeerFinish(e)
  PROVE  /\ \E m, S : Answered(e, m, S) /\ AnswerForm(e, m, S)
         /\ UNCHANGED <<transaction, taken, stranded, running>>
<1>1. ASSUME NEW code \in {"ok", "rejected"}, PeerAnswer(e, code)
      PROVE  \E m, S : Answered(e, m, S) /\ AnswerForm(e, m, S)
  <2>1. PICK S : S = IF Kind[e.call] = "register" /\ code = "ok" THEN {[e EXCEPT !.stage = "subscribed"]} ELSE {}
    OBVIOUS
  <2>2. Answered(e, Reply(e.label, e.call, code), S)
    BY <1>1, <2>1, PeerAnswerEffect
  <2>3. AnswerForm(e, Reply(e.label, e.call, code), S)
    BY <1>1, <2>1 DEF PeerAnswer, AnswerForm, Reply
  <2>4. QED
    BY <2>2, <2>3
<1>2. ASSUME PeerChange(e) PROVE \E m, S : Answered(e, m, S) /\ AnswerForm(e, m, S)
  <2>1. AnswerForm(e, Reply(e.label, e.call, "changed"), {})
    BY <1>2 DEF PeerChange, AnswerForm, Reply, IsReply
  <2>2. Answered(e, Reply(e.label, e.call, "changed"), {})
    BY <1>2, PeerChangeEffect
  <2>3. QED
    BY <2>1, <2>2
<1>3. ASSUME PeerStart(e) PROVE \E m, S : Answered(e, m, S) /\ AnswerForm(e, m, S)
  <2>1. AnswerForm(e, Part("start", e.label, e.call), {[e EXCEPT !.stage = "started"]})
    BY <1>3 DEF PeerStart, AnswerForm, Part
  <2>2. Answered(e, Part("start", e.label, e.call), {[e EXCEPT !.stage = "started"]})
    BY <1>3, PeerStartEffect
  <2>3. QED
    BY <2>1, <2>2
<1>4. ASSUME PeerFinish(e) PROVE \E m, S : Answered(e, m, S) /\ AnswerForm(e, m, S)
  <2>1. AnswerForm(e, Part("end", e.label, e.call), {})
    BY <1>4 DEF PeerFinish, AnswerForm, Part
  <2>2. Answered(e, Part("end", e.label, e.call), {})
    BY <1>4, PeerFinishEffect
  <2>3. QED
    BY <2>1, <2>2
<1>5. UNCHANGED <<transaction, taken, stranded, running>>
  BY DEF PeerAnswer, PeerChange, PeerStart, PeerFinish, PeerSends
<1>6. QED
  BY <1>1, <1>2, <1>3, <1>4, <1>5

(* The token the peer gives for one it held. *)
LEMMA FormFields ==
  ASSUME Types, LabelInv, NEW e \in holds, NEW m, NEW S, m.call = e.call, AnswerForm(e, m, S)
  PROVE  /\ m.kind \in Answers /\ e.stage # "started"
         /\ \A f \in S : /\ f.label = e.label /\ f.call = e.call /\ e.stage = "held"
                         /\ \/ m.kind = "start" /\ f.stage = "started" /\ Kind[e.call] = "status"
                            \/ IsReply(m, "ok") /\ f.stage = "subscribed" /\ Kind[e.call] = "register"
         /\ \A f, g \in S : f = g
         /\ m.kind \in {"start", "end"} => Kind[e.call] = "status"
         /\ IsReply(m, "changed") <=> e.stage = "subscribed"
         /\ Kind[e.call] = "register" /\ ~IsReply(m, "changed") => e.stage = "held"
         /\ IsReply(m, "ok") /\ Kind[e.call] = "register" => \E f \in S : f.stage = "subscribed"
         /\ m.kind = "start" => \E f \in S : f.stage = "started"
<1>1. /\ e \in Holding
      /\ e.stage \in {"started", "rest"} => Kind[e.call] = "status"
      /\ e.stage = "subscribed" => Kind[e.call] = "register"
  BY DEF Types, TypeOK, LabelInv, HoldsInv
<1>2. \A s : LET f == [e EXCEPT !.stage = s] IN f.label = e.label /\ f.call = e.call /\ f.stage = s
  BY <1>1 DEF Holding
<1>3. CASE /\ e.stage = "held" /\ m.kind = "reply" /\ m.code \in {"ok", "rejected"}
           /\ S = IF Kind[e.call] = "register" /\ m.code = "ok" THEN {[e EXCEPT !.stage = "subscribed"]} ELSE {}
  <2>1. CASE Kind[e.call] = "register" /\ m.code = "ok"
    <3>1. PICK f : f = [e EXCEPT !.stage = "subscribed"]
      OBVIOUS
    <3>2. S = {f} /\ f.label = e.label /\ f.call = e.call /\ f.stage = "subscribed"
      BY <1>2, <1>3, <2>1, <3>1
    <3>3. QED
      BY <1>3, <2>1, <3>2 DEF Answers, IsReply
  <2>2. CASE ~(Kind[e.call] = "register" /\ m.code = "ok")
    BY <1>3, <2>2 DEF Answers, IsReply
  <2>3. QED
    BY <2>1, <2>2
<1>4. CASE e.stage = "subscribed" /\ IsReply(m, "changed") /\ S = {}
  BY <1>1, <1>4 DEF Answers, IsReply
<1>5. CASE e.stage = "held" /\ Kind[e.call] = "status" /\ m.kind = "start" /\ S = {[e EXCEPT !.stage = "started"]}
  BY <1>2, <1>5 DEF Answers, IsReply
<1>6. CASE e.stage = "rest" /\ m.kind = "end" /\ S = {}
  BY <1>1, <1>6 DEF Answers, IsReply
<1>7. QED
  BY <1>3, <1>4, <1>5, <1>6 DEF AnswerForm

LEMMA AnsweredLabels ==
  ASSUME Types, LabelInv, NEW e, NEW m, NEW S, Answered(e, m, S), AnswerForm(e, m, S),
         UNCHANGED <<transaction, taken, stranded, running>>
  PROVE  LabelInv'
<1>1. /\ e \in holds /\ m \in Message /\ m.label = e.label /\ m.call = e.call
      /\ \A f : f \in holds' <=> (f \in holds /\ f # e) \/ f \in S
  BY DEF Answered
<1>2. /\ \A i \in 1..Len(inbox) : i \in 1..Len(inbox') /\ inbox'[i] = inbox[i] /\ i < Len(inbox')
      /\ \A i \in 1..Len(inbox') : i \in Nat /\ ((i \in 1..Len(inbox) /\ inbox'[i] = inbox[i]) \/ (i = Len(inbox') /\ inbox'[i] = m))
      /\ Len(inbox') \in 1..Len(inbox') /\ inbox'[Len(inbox')] = m
  BY DEF Answered, Added
<1>3. /\ m.kind \in Answers /\ e.stage # "started"
      /\ \A f \in S : /\ f.label = e.label /\ f.call = e.call /\ e.stage = "held"
                      /\ \/ m.kind = "start" /\ f.stage = "started" /\ Kind[e.call] = "status"
                         \/ IsReply(m, "ok") /\ f.stage = "subscribed" /\ Kind[e.call] = "register"
      /\ \A f, g \in S : f = g
      /\ m.kind \in {"start", "end"} => Kind[e.call] = "status"
      /\ IsReply(m, "changed") <=> e.stage = "subscribed"
      /\ Kind[e.call] = "register" /\ ~IsReply(m, "changed") => e.stage = "held"
      /\ IsReply(m, "ok") /\ Kind[e.call] = "register" => \E f \in S : f.stage = "subscribed"
      /\ m.kind = "start" => \E f \in S : f.stage = "started"
  BY <1>1, FormFields
<1>4. /\ Good(e.call) => Fits(e.label, e.call)
      /\ e.stage = "held" /\ Kind[e.call] = "register" => transaction[e.label].state = "register"
      /\ e.stage = "subscribed" => Kind[e.call] = "register"
  BY <1>1 DEF LabelInv, HoldsInv
<1>5. ASSUME NEW f \in holds, f # e, f.label = e.label, Good(f.call), Good(e.call) PROVE FALSE
  BY <1>1, <1>5 DEF LabelInv, HoldsInv
<1>6. ASSUME NEW i \in 1..Len(inbox), inbox[i].kind \in Answers, inbox[i].label = e.label,
             Good(inbox[i].call), Good(e.call)
      PROVE  IsReply(inbox[i], "ok") /\ e.stage = "subscribed"
  BY <1>1, <1>3, <1>6 DEF LabelInv, TogetherInv
<1>7. TransactionInv'
  BY DEF LabelInv, TransactionInv, Fits
<1>8. HoldsInv'
  <2>1. ASSUME NEW f \in holds'
        PROVE  /\ Good(f.call) => Fits(f.label, f.call)
               /\ f.stage \in {"started", "rest"} => Kind[f.call] = "status"
               /\ f.stage = "subscribed" => Kind[f.call] = "register"
               /\ f.stage = "held" /\ Kind[f.call] = "register" => transaction[f.label].state = "register"
    <3>1. CASE f \in holds
      BY <3>1 DEF LabelInv, HoldsInv
    <3>2. CASE f \in S
      BY <1>3, <1>4, <3>2
    <3>3. QED
      BY <1>1, <2>1, <3>1, <3>2
  <2>2. ASSUME NEW f \in holds', NEW g \in holds', f.label = g.label, Good(f.call), Good(g.call)
        PROVE  f = g
    <3>1. CASE f \in holds /\ g \in holds
      BY <2>2, <3>1 DEF LabelInv, HoldsInv
    <3>2. CASE f \in S /\ g \in S
      BY <1>3, <3>2
    <3>3. CASE f \in holds /\ f # e /\ g \in S
      BY <1>3, <1>5, <2>2, <3>3
    <3>4. CASE g \in holds /\ g # e /\ f \in S
      BY <1>3, <1>5, <2>2, <3>4
    <3>5. QED
      BY <1>1, <2>2, <3>1, <3>2, <3>3, <3>4
  <2>3. QED
    BY <2>1, <2>2 DEF HoldsInv, Good, Fits
<1>9. InboxInv'
  <2>1. SUFFICES ASSUME NEW i \in 1..Len(inbox'), inbox'[i].kind \in Answers, NEW n, n = inbox'[i]
                 PROVE  /\ Good(n.call) => Fits(n.label, n.call)
                        /\ n.kind \in {"start", "end"} => Kind[n.call] = "status"
                        /\ IsReply(n, "changed") => Kind[n.call] = "register"
                        /\ Kind[n.call] = "register" /\ ~IsReply(n, "changed")
                             => transaction[n.label].state = "register"
    BY DEF InboxInv, Good, Fits
  <2>2. CASE i \in 1..Len(inbox) /\ n = inbox[i]
    BY <2>1, <2>2 DEF LabelInv, InboxInv
  <2>3. CASE n = m
    BY <1>1, <1>3, <1>4, <2>3
  <2>4. QED
    BY <1>2, <2>1, <2>2, <2>3
<1>10. TogetherInv'
  <2>1. ASSUME NEW i \in 1..Len(inbox'), NEW f \in holds', NEW n, n = inbox'[i], n.kind \in Answers,
               n.label = f.label, Good(n.call), Good(f.call)
        PROVE  \/ n.kind = "start" /\ f.stage = "started"
               \/ IsReply(n, "ok") /\ f.stage = "subscribed"
    <3>1. CASE i \in 1..Len(inbox) /\ n = inbox[i] /\ f \in holds
      BY <2>1, <3>1 DEF LabelInv, TogetherInv
    <3>2. CASE i \in 1..Len(inbox) /\ n = inbox[i] /\ f \in S
      BY <1>3, <1>6, <2>1, <3>2
    <3>3. CASE n = m /\ f \in holds /\ f # e
      BY <1>1, <1>5, <2>1, <3>3
    <3>4. CASE n = m /\ f \in S
      BY <1>3, <3>4
    <3>5. QED
      BY <1>1, <1>2, <2>1, <3>1, <3>2, <3>3, <3>4
  <2>2. ASSUME NEW i \in 1..Len(inbox'), NEW j \in 1..Len(inbox'), i < j, NEW k, NEW n, k = inbox'[i], n = inbox'[j],
               k.kind \in Answers, n.kind \in Answers, k.label = n.label, Good(k.call), Good(n.call)
        PROVE  IsReply(k, "ok") /\ IsReply(n, "changed")
    <3>1. i \in 1..Len(inbox) /\ k = inbox[i]
      <4>1. Len(inbox') \in Nat /\ j <= Len(inbox')
        BY <1>2, <2>2
      <4>2. i # Len(inbox')
        BY <1>2, <2>2, <4>1
      <4>3. QED
        BY <1>2, <2>2, <4>2
    <3>2. CASE j \in 1..Len(inbox) /\ n = inbox[j]
      BY <2>2, <3>1, <3>2 DEF LabelInv, TogetherInv
    <3>3. CASE n = m
      BY <1>1, <1>3, <1>6, <2>2, <3>1, <3>3
    <3>4. QED
      BY <1>2, <2>2, <3>2, <3>3
  <2>3. QED
    BY <2>1, <2>2 DEF TogetherInv, Good
<1>11. RegisterInv'
  <2>1. ASSUME NEW f \in holds', f.stage = "subscribed"
        PROVE  transaction'[f.label].state = "change" \/ \E i \in 1..Len(inbox') : Interim(i, f.label, f.call)'
    <3>1. CASE f \in holds
      <4>1. transaction[f.label].state = "change" \/ \E i \in 1..Len(inbox) : Interim(i, f.label, f.call)
        BY <2>1, <3>1 DEF LabelInv, RegisterInv
      <4>2. QED
        BY <1>2, <4>1 DEF Interim
    <3>2. CASE f \in S
      <4>1. IsReply(m, "ok") /\ m.label = f.label /\ m.call = f.call
        BY <1>1, <1>3, <2>1, <3>2
      <4>2. Interim(Len(inbox), f.label, f.call)'
        BY <1>2, <4>1 DEF Interim
      <4>3. QED
        BY <1>2, <4>2
    <3>3. QED
      BY <1>1, <2>1, <3>1, <3>2
  <2>2. ASSUME NEW j \in 1..Len(inbox'), NEW n, n = inbox'[j], IsReply(n, "changed")
        PROVE  \/ transaction'[n.label].state = "change"
               \/ \E i \in 1..Len(inbox') : i < j /\ Interim(i, n.label, n.call)'
    <3>1. CASE j \in 1..Len(inbox) /\ n = inbox[j]
      <4>1. transaction[n.label].state = "change" \/ \E i \in 1..Len(inbox) : i < j /\ Interim(i, n.label, n.call)
        BY <2>2, <3>1 DEF LabelInv, RegisterInv
      <4>2. QED
        BY <1>2, <4>1 DEF Interim
    <3>2. CASE j = Len(inbox') /\ n = m
      <4>1. \/ transaction[n.label].state = "change"
            \/ \E i \in 1..Len(inbox) : Interim(i, n.label, n.call)
        BY <1>1, <1>3, <2>2, <3>2 DEF LabelInv, RegisterInv
      <4>2. QED
        BY <1>2, <3>2, <4>1 DEF Interim
    <3>3. QED
      BY <1>2, <2>2, <3>1, <3>2
  <2>3. ASSUME NEW i \in 1..Len(inbox'), NEW n, n = inbox'[i], IsReply(n, "ok"), Kind[n.call] = "register"
        PROVE  \/ \E f \in holds' : f.stage = "subscribed" /\ f.label = n.label /\ f.call = n.call
               \/ \E j \in 1..Len(inbox') : /\ i < j /\ IsReply(inbox'[j], "changed")
                                            /\ inbox'[j].label = n.label /\ inbox'[j].call = n.call
    <3>1. CASE i \in 1..Len(inbox) /\ n = inbox[i]
      <4>1. \/ \E f \in holds : f.stage = "subscribed" /\ f.label = n.label /\ f.call = n.call
            \/ \E j \in 1..Len(inbox) : /\ i < j /\ IsReply(inbox[j], "changed")
                                        /\ inbox[j].label = n.label /\ inbox[j].call = n.call
        BY <2>3, <3>1 DEF LabelInv, RegisterInv
      <4>2. CASE e.stage = "subscribed" /\ e.label = n.label /\ e.call = n.call
        BY <1>1, <1>2, <1>3, <3>1, <4>2
      <4>3. CASE ~(e.stage = "subscribed" /\ e.label = n.label /\ e.call = n.call)
        BY <1>1, <1>2, <4>1, <4>3
      <4>4. QED
        BY <4>2, <4>3
    <3>2. CASE n = m
      <4>1. PICK f \in S : f.stage = "subscribed"
        BY <1>1, <1>3, <2>3, <3>2
      <4>2. f \in holds' /\ f.label = n.label /\ f.call = n.call
        BY <1>1, <1>3, <3>2
      <4>3. QED
        BY <4>1, <4>2
    <3>3. QED
      BY <1>2, <2>3, <3>1, <3>2
  <2>4. \A j \in 1..Len(inbox') : IsReply(inbox'[j], "changed") =>
          \/ transaction'[inbox'[j].label].state = "change"
          \/ \E i \in 1..Len(inbox') : i < j /\ Interim(i, inbox[j].label, inbox[j].call)'
    BY <2>2
  <2>5. \A i \in 1..Len(inbox') : IsReply(inbox'[i], "ok") /\ Kind[inbox'[i].call] = "register" =>
          \/ \E f \in holds' : f.stage = "subscribed" /\ f.label = inbox'[i].label /\ f.call = inbox'[i].call
          \/ \E j \in 1..Len(inbox') : /\ i < j /\ IsReply(inbox'[j], "changed")
                                       /\ inbox'[j].label = inbox'[i].label /\ inbox'[j].call = inbox'[i].call
    BY <2>3
  <2>6. QED
    BY <2>1, <2>4, <2>5 DEF RegisterInv, Interim
<1>12. StartInv'
  <2>1. SUFFICES ASSUME NEW i \in 1..Len(inbox'), NEW n, n = inbox'[i], n.kind = "start"
                 PROVE  \E f \in holds' : f.label = n.label /\ f.call = n.call /\ f.stage = "started"
    BY DEF StartInv
  <2>2. CASE i \in 1..Len(inbox) /\ n = inbox[i]
    <3>1. PICK f \in holds : f.label = n.label /\ f.call = n.call /\ f.stage = "started"
      BY <2>1, <2>2 DEF LabelInv, StartInv
    <3>2. f \in holds'
      BY <1>1, <1>3, <3>1
    <3>3. QED
      BY <3>1, <3>2
  <2>3. CASE n = m
    BY <1>1, <1>3, <2>1, <2>3
  <2>4. QED
    BY <1>2, <2>1, <2>2, <2>3
<1>13. OwnLabels'
  <2>1. \E i \in 1..Len(inbox') : /\ inbox'[i].kind \in {"reply", "start", "end"}
                                  /\ inbox'[i].label = m.label /\ inbox'[i].call = m.call
    BY <1>2, <1>3 DEF Answers
  <2>2. SUFFICES ASSUME running, NEW k \in Labels
                 PROVE  \/ transaction[k] = Empty \/ k \in stranded
                        \/ \E f \in holds' : f.label = k /\ f.call = transaction[k].call
                        \/ \E i \in 1..Len(inbox') : /\ inbox'[i].kind \in {"reply", "start", "end"}
                                                     /\ inbox'[i].label = k /\ inbox'[i].call = transaction[k].call
    BY DEF OwnLabels
  <2>3. PICK c : c = transaction[k].call
    OBVIOUS
  <2>4. \/ transaction[k] = Empty \/ k \in stranded
        \/ \E f \in holds : f.label = k /\ f.call = c
        \/ \E i \in 1..Len(inbox) : /\ inbox[i].kind \in {"reply", "start", "end"}
                                    /\ inbox[i].label = k /\ inbox[i].call = c
    BY <2>2, <2>3 DEF LabelInv, OwnLabels
  <2>5. ASSUME NEW f \in holds, f.label = k, f.call = c
        PROVE  \/ \E g \in holds' : g.label = k /\ g.call = c
               \/ \E i \in 1..Len(inbox') : /\ inbox'[i].kind \in {"reply", "start", "end"}
                                            /\ inbox'[i].label = k /\ inbox'[i].call = c
    <3>1. CASE f = e
      BY <1>1, <2>1, <2>5, <3>1
    <3>2. CASE f # e
      BY <1>1, <2>5, <3>2
    <3>3. QED
      BY <3>1, <3>2
  <2>6. ASSUME NEW i \in 1..Len(inbox), inbox[i].kind \in {"reply", "start", "end"},
               inbox[i].label = k, inbox[i].call = c
        PROVE  \E j \in 1..Len(inbox') : /\ inbox'[j].kind \in {"reply", "start", "end"}
                                         /\ inbox'[j].label = k /\ inbox'[j].call = c
    BY <1>2, <2>6
  <2>7. QED
    BY <2>3, <2>4, <2>5, <2>6
<1>14. QED
  BY <1>7, <1>8, <1>9, <1>10, <1>11, <1>12, <1>13 DEF LabelInv

(* A command is sent with a free label: no token is left of an earlier one. *)
LEMMA SendCommandLabels == ASSUME CallInv, Types, Types', LabelInv, SendCommand PROVE LabelInv'
<1>1. CASE ~linkUp
  BY <1>1, LabelFrame DEF SendCommand, SendCall, history
<1>2. CASE linkUp
  <2>1. PICK c \in Calls : c = Head(commands).call
    BY NextCommandType DEF SendCommand, Queued
  <2>2. PICK l \in Labels : l = First(Free) /\ transaction[l] = Empty
    BY FirstFree DEF SendCommand, Free
  <2>3. PICK e : e = [label |-> l, call |-> c, stage |-> "held"]
    OBVIOUS
  <2>4. /\ holds' = holds \cup {e} /\ e.label = l /\ e.call = c /\ e.stage = "held"
        /\ UNCHANGED <<inbox, taken, stranded, running>>
    BY <1>2, <2>1, <2>2, <2>3 DEF SendCommand, SendCall, history
  <2>5. /\ transaction'[l].state = Kind[c] /\ transaction'[l].call = c
        /\ \A k \in Labels : k # l => transaction'[k] = transaction[k]
    BY <1>2, <2>1, <2>2, TokenTypes DEF SendCommand
  <2>6. ASSUME NEW d \in Calls, Fits(l, d) PROVE FALSE
    BY <2>2, <2>6, AvrcpAssumption DEF Fits, Empty
  <2>7. /\ \A f \in holds : f.label = l => ~Good(f.call) /\ Kind[f.call] = "pass"
        /\ \A i \in 1..Len(inbox) : inbox[i].kind \in Answers /\ inbox[i].label = l =>
             ~Good(inbox[i].call) /\ Kind[inbox[i].call] = "pass"
    BY <2>6, TokenTypes DEF LabelInv, HoldsInv, InboxInv, Good
  <2>8. Fits(l, c)'
    BY <2>5 DEF Fits
  <2>9. TransactionInv'
    BY <2>5, <2>8 DEF LabelInv, TransactionInv, Fits
  <2>10. HoldsInv'
    <3>1. ASSUME NEW f \in holds'
          PROVE  /\ Good(f.call)' => Fits(f.label, f.call)'
                 /\ f.stage \in {"started", "rest"} => Kind[f.call] = "status"
                 /\ f.stage = "subscribed" => Kind[f.call] = "register"
                 /\ f.stage = "held" /\ Kind[f.call] = "register" => transaction'[f.label].state = "register"
      <4>1. CASE f \in holds
        BY <2>4, <2>5, <2>7, <4>1, TokenTypes DEF LabelInv, HoldsInv, Good, Fits
      <4>2. CASE f = e
        BY <2>4, <2>5, <2>8, <4>2
      <4>3. QED
        BY <2>4, <3>1, <4>1, <4>2
    <3>2. ASSUME NEW f \in holds', NEW g \in holds', f.label = g.label, Good(f.call)', Good(g.call)'
          PROVE  f = g
      <4>1. Good(f.call) /\ Good(g.call)
        BY <2>4, <3>2 DEF Good
      <4>2. CASE f \in holds /\ g \in holds
        BY <3>2, <4>1, <4>2 DEF LabelInv, HoldsInv
      <4>3. CASE f = e \/ g = e
        BY <2>4, <2>7, <3>2, <4>1, <4>3
      <4>4. QED
        BY <2>4, <3>2, <4>2, <4>3
    <3>3. QED
      BY <3>1, <3>2 DEF HoldsInv, Good, Fits
  <2>11. InboxInv'
    <3>1. SUFFICES ASSUME NEW i \in 1..Len(inbox), inbox[i].kind \in Answers, NEW m, m = inbox[i]
                   PROVE  /\ Good(m.call)' => Fits(m.label, m.call)'
                          /\ m.kind \in {"start", "end"} => Kind[m.call] = "status"
                          /\ IsReply(m, "changed") => Kind[m.call] = "register"
                          /\ Kind[m.call] = "register" /\ ~IsReply(m, "changed")
                               => transaction'[m.label].state = "register"
      BY <2>4 DEF InboxInv, Good, Fits
    <3>2. m.label \in Labels
      BY <3>1, TokenTypes
    <3>3. QED
      BY <2>4, <2>5, <2>7, <3>1, <3>2 DEF LabelInv, InboxInv, Good, Fits
  <2>12. TogetherInv'
    BY <2>4, <2>7 DEF LabelInv, TogetherInv, Good
  <2>13. RegisterInv'
    <3>1. ASSUME NEW f \in holds', f.stage = "subscribed"
          PROVE  transaction'[f.label].state = "change" \/ \E i \in 1..Len(inbox) : Interim(i, f.label, f.call)
      <4>1. f \in holds /\ Kind[f.call] = "register" /\ f.label \in Labels
        BY <2>4, <3>1, TokenTypes DEF LabelInv, HoldsInv
      <4>2. f.label # l
        BY <2>7, <4>1
      <4>3. QED
        BY <2>5, <3>1, <4>1, <4>2 DEF LabelInv, RegisterInv
    <3>2. ASSUME NEW j \in 1..Len(inbox), NEW n, n = inbox[j], IsReply(n, "changed")
          PROVE  \/ transaction'[n.label].state = "change"
                 \/ \E i \in 1..Len(inbox) : i < j /\ Interim(i, n.label, n.call)
      <4>1. n.kind \in Answers /\ Kind[n.call] = "register" /\ n.label \in Labels
        BY <3>2, TokenTypes DEF LabelInv, InboxInv, IsReply, Answers
      <4>2. n.label # l
        BY <2>7, <3>2, <4>1
      <4>3. QED
        BY <2>5, <3>2, <4>1, <4>2 DEF LabelInv, RegisterInv
    <3>3. ASSUME NEW i \in 1..Len(inbox), NEW n, n = inbox[i], IsReply(n, "ok"), Kind[n.call] = "register"
          PROVE  \/ \E f \in holds' : f.stage = "subscribed" /\ f.label = n.label /\ f.call = n.call
                 \/ \E j \in 1..Len(inbox) : /\ i < j /\ IsReply(inbox[j], "changed")
                                             /\ inbox[j].label = n.label /\ inbox[j].call = n.call
      BY <2>4, <3>3 DEF LabelInv, RegisterInv
    <3>4. \A f \in holds' : f.stage = "subscribed" =>
            transaction'[f.label].state = "change" \/ \E i \in 1..Len(inbox') : Interim(i, f.label, f.call)'
      BY <2>4, <3>1 DEF Interim
    <3>5. \A j \in 1..Len(inbox') : IsReply(inbox'[j], "changed") =>
            \/ transaction'[inbox'[j].label].state = "change"
            \/ \E i \in 1..Len(inbox') : i < j /\ Interim(i, inbox[j].label, inbox[j].call)'
      BY <2>4, <3>2 DEF Interim
    <3>6. \A i \in 1..Len(inbox') : IsReply(inbox'[i], "ok") /\ Kind[inbox'[i].call] = "register" =>
            \/ \E f \in holds' : f.stage = "subscribed" /\ f.label = inbox'[i].label /\ f.call = inbox'[i].call
            \/ \E j \in 1..Len(inbox') : /\ i < j /\ IsReply(inbox'[j], "changed")
                                         /\ inbox'[j].label = inbox'[i].label /\ inbox'[j].call = inbox'[i].call
      BY <2>4, <3>3
    <3>7. QED
      BY <3>4, <3>5, <3>6 DEF RegisterInv, Interim
  <2>14. StartInv'
    BY <2>4 DEF LabelInv, StartInv
  <2>15. OwnLabels'
    <3>1. SUFFICES ASSUME running, NEW k \in Labels
                   PROVE  \/ transaction'[k] = Empty \/ k \in stranded
                          \/ \E f \in holds' : f.label = k /\ f.call = transaction'[k].call
                          \/ \E i \in 1..Len(inbox) : /\ inbox[i].kind \in {"reply", "start", "end"}
                                                      /\ inbox[i].label = k /\ inbox[i].call = transaction'[k].call
      BY <2>4 DEF OwnLabels
    <3>2. CASE k = l
      BY <2>4, <2>5, <3>2
    <3>3. CASE k # l
      BY <2>4, <2>5, <3>1, <3>3 DEF LabelInv, OwnLabels
    <3>4. QED
      BY <3>2, <3>3
  <2>16. QED
    BY <2>9, <2>10, <2>11, <2>12, <2>13, <2>14, <2>15 DEF LabelInv
<1>3. QED
  BY <1>1, <1>2

(* Once the session has ended, there is no label, and nothing is on its way. *)
LEMMA EndLabels == ASSUME End PROVE LabelInv'
<1>1. /\ inbox' = <<>> /\ holds' = {} /\ running' = FALSE /\ 1..Len(inbox') = {}
      /\ transaction' = [l \in Labels |-> Empty]
  BY EmptySeq DEF End
<1>2. QED
  BY <1>1 DEF LabelInv, TransactionInv, HoldsInv, InboxInv, TogetherInv, RegisterInv, StartInv, OwnLabels

LEMMA InitLabels == ASSUME Init PROVE LabelInv
<1>1. /\ inbox = <<>> /\ holds = {} /\ 1..Len(inbox) = {}
      /\ transaction = [l \in Labels |-> Empty]
  BY EmptySeq DEF Init
<1>2. QED
  BY <1>1 DEF LabelInv, TransactionInv, HoldsInv, InboxInv, TogetherInv, RegisterInv, StartInv, OwnLabels

LEMMA VendorLabels == ASSUME Types, Types', LabelInv, VendorReply \/ VendorEnd PROVE LabelInv'
<1>1. Consumed /\ UNCHANGED <<holds, running, taken>> /\ Head(inbox) = inbox[1]
  BY NextMessageType DEF VendorReply, VendorEnd, peer
<1>2. PICK m \in Message : m = inbox[1]
  BY <1>1 DEF Consumed
<1>3. CASE VendorReply
  BY <1>1, <1>2, <1>3, NextMessageType, CompleteLabels DEF VendorReply
<1>4. CASE VendorEnd
  <2>1. m.kind = "end" /\ Kind[m.call] = "status"
    BY <1>1, <1>2, <1>4, NextMessageType DEF VendorEnd, LabelInv, InboxInv, Consumed, Answers
  <2>2. CASE assembler.pdu = Pdu[m.call]
    BY <1>1, <1>2, <1>4, <2>1, <2>2, CompleteLabels DEF VendorEnd
  <2>3. CASE assembler.pdu # Pdu[m.call]
    <3>1. transaction[m.label].state = "status" /\ m.label \in Labels
      BY <1>1, <1>2, <2>1, VendorToken
    <3>2. transaction' = transaction /\ stranded' = stranded \cup {m.label}
      BY <1>1, <1>2, <1>4, <2>3, <3>1 DEF VendorEnd
    <3>3. Others(m.label)
      BY <1>1, <3>2 DEF Others, Good, Types, TypeOK
    <3>4. QED
      BY <1>2, <2>1, <3>1, <3>2, <3>3, LabelKept DEF IsReply
  <2>4. QED
    BY <2>2, <2>3
<1>5. QED
  BY <1>3, <1>4

LEMMA AskLabels ==
  ASSUME Types, LabelInv, AnswerQuery \/ RegisterNotification \/ SetAbsoluteVolume \/ OverlongVolume
  PROVE  LabelInv'
<1>1. /\ Consumed /\ UNCHANGED <<holds, running, taken, transaction, stranded>>
      /\ inbox[1].kind \in Asks
  BY NextMessageType DEF AnswerQuery, RegisterNotification, SetAbsoluteVolume, OverlongVolume, history, Asks
<1>2. 0 \in Labels
  BY AvrcpAssumption DEF Labels
<1>3. Others(0)
  BY <1>1 DEF Others, Good, Types, TypeOK
<1>4. inbox[1].kind \notin Answers /\ ~IsReply(inbox[1], "ok")
  BY <1>1 DEF Asks, Answers, IsReply
<1>5. QED
  BY <1>1, <1>2, <1>3, <1>4, LabelKept

LEMMA PeerLabels == ASSUME Types, LabelInv, PeerStep PROVE LabelInv'
<1>1. ASSUME NEW e \in holds,
             (\E code \in {"ok", "rejected"} : PeerAnswer(e, code)) \/ PeerChange(e) \/ PeerStart(e) \/ PeerFinish(e)
      PROVE  LabelInv'
  <2>1. PICK m, S : Answered(e, m, S) /\ AnswerForm(e, m, S)
    BY <1>1, PeerForms
  <2>2. UNCHANGED <<transaction, taken, stranded, running>>
    BY <1>1, PeerForms
  <2>3. QED
    BY <2>1, <2>2, AnsweredLabels
<1>2. ASSUME NEW n \in 1..MaxCommands, NEW k \in PeerCommands, PeerCommand(n, k[1], k[2]) PROVE LabelInv'
  <2>1. PICK m : m = [kind |-> k[1], tx |-> n, arg |-> k[2]]
    OBVIOUS
  <2>2. Added(m)
    BY <1>2, <2>1, PeerMessage DEF PeerCommand
  <2>3. m.kind \notin Answers
    BY <2>1, AvrcpAssumption DEF Answers
  <2>4. UNCHANGED <<holds, transaction, taken, stranded, running>>
    BY <1>2 DEF PeerCommand, PeerSends
  <2>5. QED
    BY <2>2, <2>3, <2>4, LabelAdded
<1>3. CASE HangUp
  <2>1. PICK m : m = [kind |-> "close"]
    OBVIOUS
  <2>2. Added(m)
    BY <1>3, <2>1, PeerMessage DEF HangUp
  <2>3. m.kind \notin Answers
    BY <2>1 DEF Answers
  <2>4. UNCHANGED <<holds, transaction, taken, stranded, running>>
    BY <1>3 DEF HangUp, PeerSends
  <2>5. QED
    BY <2>2, <2>3, <2>4, LabelAdded
<1>4. QED
  BY <1>1, <1>2, <1>3 DEF PeerStep

LEMMA NextLabels == ASSUME CallInv, Types, Types', LabelInv, [Next]_vars PROVE LabelInv'
<1>1. CASE SendCommand
  BY <1>1, SendCommandLabels
<1>2. CASE NoTransactionId \/ UpdatedVolume
  BY <1>2, LabelFrame DEF NoTransactionId, UpdatedVolume, peer, history
<1>3. CASE PassThroughReply \/ PassThroughCommand
  BY <1>3, PassThroughLabels
<1>4. CASE VendorReply \/ VendorEnd
  BY <1>4, VendorLabels
<1>5. CASE VendorStart
  BY <1>5, VendorStartLabels
<1>6. CASE AnswerQuery \/ RegisterNotification \/ SetAbsoluteVolume \/ OverlongVolume
  BY <1>6, AskLabels
<1>7. CASE ChannelClosed \/ SessionDropped
  BY <1>7, EndLabels DEF ChannelClosed, SessionDropped
<1>8. CASE PeerStep
  BY <1>8, PeerLabels
<1>9. CASE \/ \E c \in Calls : Call(c) \/ Cancel(c)
           \/ \E v \in Volumes : NotifyLocalVolumeChange(v)
           \/ NextEvent \/ DropSession \/ LinkDown
  BY <1>9, LabelFrame DEF Call, Cancel, NotifyLocalVolumeChange, NextEvent, DropSession, LinkDown, peer, history
<1>10. CASE UNCHANGED vars
  BY <1>10, LabelFrame DEF vars, peer, history
<1>11. QED
  BY <1>1, <1>2, <1>3, <1>4, <1>5, <1>6, <1>7, <1>8, <1>9, <1>10, PeerSteps DEF Next, SessionStep

-----------------------------------------------------------------------------
(* Fragmented answers. *)

(* What the peer sends the parts of stays, and no part is sent. *)
LEMMA FragmentSame ==
  ASSUME FragmentInv, UNCHANGED <<assembler, mixed>>,
         \A f : f \in Fragmented' <=> f \in Fragmented,
         UNCHANGED inbox \/ \E m : Added(m) /\ m.kind \notin {"start", "end"}
  PROVE  FragmentInv'
<1>1. \A i \in 1..Len(inbox') : inbox'[i].kind \in {"start", "end"} => i \in 1..Len(inbox) /\ inbox'[i] = inbox[i]
  BY DEF Added
<1>2. \A e \in holds' : e.stage = "rest" => e \in holds
  BY DEF Fragmented
<1>3. SUFFICES ASSUME ~mixed
               PROVE  /\ \A e, f \in Fragmented' : e = f
                      /\ \A i, j \in 1..Len(inbox') : inbox'[i].kind = "start" /\ inbox'[j].kind = "start" => i = j
                      /\ \A i, j \in 1..Len(inbox') : inbox'[i].kind = "end" /\ inbox'[j].kind = "end" => i = j
                      /\ \A i, j \in 1..Len(inbox') : inbox'[i].kind = "end" /\ inbox'[j].kind = "start" => i < j
                      /\ \A i \in 1..Len(inbox') : inbox'[i].kind = "end" => assembler.of \subseteq {inbox'[i].call}
                      /\ \A e \in holds' : e.stage = "rest" =>
                           assembler.of \subseteq {e.call} /\ \A i \in 1..Len(inbox') : inbox'[i].kind # "end"
  BY DEF FragmentInv
<1>4. \A e, f \in Fragmented' : e = f
  BY <1>3 DEF FragmentInv
<1>5. \A i, j \in 1..Len(inbox') : inbox'[i].kind = "start" /\ inbox'[j].kind = "start" => i = j
  BY <1>1, <1>3 DEF FragmentInv
<1>6. \A i, j \in 1..Len(inbox') : inbox'[i].kind = "end" /\ inbox'[j].kind = "end" => i = j
  BY <1>1, <1>3 DEF FragmentInv
<1>7. \A i, j \in 1..Len(inbox') : inbox'[i].kind = "end" /\ inbox'[j].kind = "start" => i < j
  BY <1>1, <1>3 DEF FragmentInv
<1>8. \A i \in 1..Len(inbox') : inbox'[i].kind = "end" => assembler.of \subseteq {inbox'[i].call}
  BY <1>1, <1>3 DEF FragmentInv
<1>9. \A e \in holds' : e.stage = "rest" =>
        assembler.of \subseteq {e.call} /\ \A i \in 1..Len(inbox') : inbox'[i].kind # "end"
  BY <1>1, <1>2, <1>3 DEF FragmentInv
<1>10. QED
  BY <1>4, <1>5, <1>6, <1>7, <1>8, <1>9

(* A message is taken; the assembler keeps what it has, or is emptied. *)
LEMMA FragmentConsumed ==
  ASSUME FragmentInv, Consumed, UNCHANGED <<holds, mixed>>,
         assembler' = assembler \/ assembler'.of = {}
  PROVE  FragmentInv'
<1>1. \A i \in 1..Len(inbox') : i \in Nat /\ i + 1 \in 1..Len(inbox) /\ inbox'[i] = inbox[i + 1]
  BY DEF Consumed
<1>2. SUFFICES ASSUME ~mixed
               PROVE  /\ \A e, f \in Fragmented' : e = f
                      /\ \A i, j \in 1..Len(inbox') : inbox'[i].kind = "start" /\ inbox'[j].kind = "start" => i = j
                      /\ \A i, j \in 1..Len(inbox') : inbox'[i].kind = "end" /\ inbox'[j].kind = "end" => i = j
                      /\ \A i, j \in 1..Len(inbox') : inbox'[i].kind = "end" /\ inbox'[j].kind = "start" => i < j
                      /\ \A i \in 1..Len(inbox') : inbox'[i].kind = "end" => assembler'.of \subseteq {inbox'[i].call}
                      /\ \A e \in holds : e.stage = "rest" =>
                           assembler'.of \subseteq {e.call} /\ \A i \in 1..Len(inbox') : inbox'[i].kind # "end"
  BY DEF FragmentInv
<1>3. \A e, f \in Fragmented' : e = f
  BY <1>2 DEF FragmentInv, Fragmented
<1>4. ASSUME NEW i \in 1..Len(inbox'), NEW j \in 1..Len(inbox')
      PROVE  /\ inbox'[i].kind = "start" /\ inbox'[j].kind = "start" => i = j
             /\ inbox'[i].kind = "end" /\ inbox'[j].kind = "end" => i = j
             /\ inbox'[i].kind = "end" /\ inbox'[j].kind = "start" => i < j
  <2>1. PICK a \in 1..Len(inbox) : a = i + 1 /\ inbox'[i] = inbox[a]
    BY <1>1
  <2>2. PICK b \in 1..Len(inbox) : b = j + 1 /\ inbox'[j] = inbox[b]
    BY <1>1
  <2>3. /\ inbox[a].kind = "start" /\ inbox[b].kind = "start" => a = b
        /\ inbox[a].kind = "end" /\ inbox[b].kind = "end" => a = b
        /\ inbox[a].kind = "end" /\ inbox[b].kind = "start" => a < b
    BY <1>2 DEF FragmentInv
  <2>4. i \in Nat /\ j \in Nat
    BY <1>1
  <2>5. QED
    BY <2>1, <2>2, <2>3, <2>4
<1>5. \A i \in 1..Len(inbox') : inbox'[i].kind = "end" => assembler'.of \subseteq {inbox'[i].call}
  BY <1>1, <1>2 DEF FragmentInv
<1>6. \A e \in holds : e.stage = "rest" =>
        assembler'.of \subseteq {e.call} /\ \A i \in 1..Len(inbox') : inbox'[i].kind # "end"
  BY <1>1, <1>2 DEF FragmentInv
<1>7. QED
  BY <1>3, <1>4, <1>5, <1>6

(* A Start is taken: its command is the only one that is fragmented. *)
LEMMA VendorStartFragment == ASSUME Types, LabelInv, FragmentInv, VendorStart PROVE FragmentInv'
<1>1. PICK m \in Message : m = inbox[1]
  BY StartTaken
<1>2. /\ Consumed /\ m.kind = "start" /\ holds' = {Continued(m.label, e) : e \in holds}
      /\ mixed' = mixed /\ Head(inbox) = inbox[1]
  BY <1>1, StartTaken, NextMessageType DEF VendorStart, history
<1>3. /\ \A i \in 1..Len(inbox') : i \in Nat /\ i + 1 \in 1..Len(inbox) /\ inbox'[i] = inbox[i + 1]
      /\ 1 \in 1..Len(inbox)
  BY <1>2 DEF Consumed
<1>4. assembler'.of = {m.call}
  BY <1>1, <1>2 DEF VendorStart
<1>5. SUFFICES ASSUME ~mixed
               PROVE  /\ \A e, f \in Fragmented' : e = f
                      /\ \A i \in 1..Len(inbox') : inbox'[i].kind \notin {"start", "end"}
                      /\ \A e \in holds' : e.stage = "rest" => e.call = m.call
  BY <1>2, <1>4 DEF FragmentInv
<1>6. PICK d \in holds : d.label = m.label /\ d.call = m.call /\ d.stage = "started"
  BY <1>1, <1>2, <1>3 DEF LabelInv, StartInv
<1>7. \A e \in Fragmented : e = d
  BY <1>5, <1>6 DEF FragmentInv, Fragmented
<1>8. \A f \in Fragmented' : f = Continued(m.label, d)
  <2>1. SUFFICES ASSUME NEW f \in holds', f.stage \in {"started", "rest"} PROVE f = Continued(m.label, d)
    BY DEF Fragmented
  <2>2. PICK e \in holds : f = Continued(m.label, e)
    BY <1>2
  <2>3. e.stage \in {"started", "rest"}
    BY <2>1, <2>2 DEF Continued
  <2>4. QED
    BY <1>7, <2>2, <2>3 DEF Fragmented
<1>9. \A e \in holds' : e.stage = "rest" => e.call = m.call
  BY <1>6, <1>8, ContinuedFields DEF Fragmented
<1>10. ASSUME NEW i \in 1..Len(inbox'), inbox'[i].kind \in {"start", "end"} PROVE FALSE
  <2>1. PICK b \in 1..Len(inbox) : b = i + 1 /\ inbox'[i] = inbox[b]
    BY <1>3
  <2>2. b # 1 /\ ~(b < 1)
    BY <1>3, <2>1
  <2>3. QED
    BY <1>1, <1>2, <1>3, <1>5, <1>10, <2>1, <2>2 DEF FragmentInv
<1>11. QED
  BY <1>8, <1>9, <1>10

(* A Start is sent. *)
LEMMA PeerStartFragment == ASSUME Types, LabelInv, FragmentInv, NEW e \in holds, PeerStart(e) PROVE FragmentInv'
<1>1. PICK m, g : m = Part("start", e.label, e.call) /\ g = [e EXCEPT !.stage = "started"]
  OBVIOUS
<1>2. Added(m) /\ holds' = (holds \ {e}) \cup {g} /\ m.kind = "start"
  BY <1>1, PeerStartEffect DEF Answered, Part
<1>3. g.stage = "started"
  BY <1>1 DEF Types, TypeOK, Holding
<1>4. SUFFICES ASSUME ~mixed' PROVE FragmentInv'
  BY DEF FragmentInv
<1>5. \A d \in holds : d.stage \notin {"started", "rest"}
  BY <1>4 DEF PeerStart
<1>6. \A f \in holds' : f.stage \in {"started", "rest"} => f = g
  BY <1>2, <1>5
<1>7. ~mixed
  BY <1>4 DEF PeerStart
<1>8. assembler' = assembler
  BY DEF PeerStart, PeerSends
<1>9. \A i \in 1..Len(inbox) : inbox[i].kind # "start"
  BY <1>5 DEF LabelInv, StartInv
<1>10. /\ \A i \in 1..Len(inbox) : i \in 1..Len(inbox') /\ inbox'[i] = inbox[i] /\ i < Len(inbox')
       /\ \A i \in 1..Len(inbox') : \/ i \in 1..Len(inbox) /\ inbox'[i] = inbox[i]
                                    \/ i = Len(inbox') /\ inbox'[i] = m
  BY <1>2 DEF Added
<1>11. /\ \A i, j \in 1..Len(inbox') : inbox'[i].kind = "start" /\ inbox'[j].kind = "start" => i = j
       /\ \A i, j \in 1..Len(inbox') : inbox'[i].kind = "end" /\ inbox'[j].kind = "end" => i = j
       /\ \A i, j \in 1..Len(inbox') : inbox'[i].kind = "end" /\ inbox'[j].kind = "start" => i < j
  BY <1>2, <1>7, <1>9, <1>10 DEF FragmentInv
<1>12. \A i \in 1..Len(inbox') : inbox'[i].kind = "end" => assembler'.of \subseteq {inbox'[i].call}
  BY <1>2, <1>7, <1>8, <1>10 DEF FragmentInv
<1>13. QED
  BY <1>3, <1>6, <1>11, <1>12 DEF FragmentInv, Fragmented

(* An End is sent, after the Start it belongs to was taken. *)
LEMMA PeerFinishFragment == ASSUME Types, LabelInv, FragmentInv, NEW e \in holds, PeerFinish(e) PROVE FragmentInv'
<1>1. PICK m : m = Part("end", e.label, e.call)
  OBVIOUS
<1>2. Added(m) /\ holds' = holds \ {e} /\ m.kind = "end" /\ m.call = e.call /\ e.stage = "rest"
  BY <1>1, PeerFinishEffect DEF Answered, Part, PeerFinish
<1>3. UNCHANGED <<assembler, mixed>>
  BY DEF PeerFinish, PeerSends
<1>4. SUFFICES ASSUME ~mixed PROVE FragmentInv'
  BY <1>3 DEF FragmentInv
<1>5. \A f \in holds : f.stage \in {"started", "rest"} => f = e
  BY <1>2, <1>4 DEF FragmentInv, Fragmented
<1>6. assembler.of \subseteq {e.call} /\ \A i \in 1..Len(inbox) : inbox[i].kind # "end"
  BY <1>2, <1>4 DEF FragmentInv
<1>7. \A i \in 1..Len(inbox) : inbox[i].kind # "start"
  <2>1. ASSUME NEW i \in 1..Len(inbox), inbox[i].kind = "start" PROVE FALSE
    <3>1. PICK f \in holds : f.stage = "started"
      BY <2>1 DEF LabelInv, StartInv
    <3>2. QED
      BY <1>2, <1>5, <3>1
  <2>2. QED
    BY <2>1
<1>8. /\ \A i \in 1..Len(inbox') : \/ i \in 1..Len(inbox) /\ inbox'[i] = inbox[i]
                                   \/ i = Len(inbox') /\ inbox'[i] = m
  BY <1>2 DEF Added
<1>9. \A i \in 1..Len(inbox') : /\ inbox'[i].kind # "start"
                                /\ inbox'[i].kind = "end" => i = Len(inbox') /\ inbox'[i] = m
  BY <1>2, <1>6, <1>7, <1>8
<1>10. \A f \in holds' : f.stage \notin {"started", "rest"}
  BY <1>2, <1>5
<1>11. QED
  BY <1>2, <1>3, <1>6, <1>9, <1>10 DEF FragmentInv, Fragmented

LEMMA NextFragment == ASSUME Types, LabelInv, FragmentInv, [Next]_vars PROVE FragmentInv'
<1>1. CASE SendCommand
  <2>1. \A f : f \in Fragmented' <=> f \in Fragmented
    BY <1>1 DEF SendCommand, SendCall, Fragmented
  <2>2. UNCHANGED <<assembler, mixed, inbox>>
    BY <1>1 DEF SendCommand, NextCommand, history
  <2>3. QED
    BY <2>1, <2>2, FragmentSame
<1>2. CASE \/ NoTransactionId \/ UpdatedVolume
           \/ \E c \in Calls : Call(c) \/ Cancel(c)
           \/ \E v \in Volumes : NotifyLocalVolumeChange(v)
           \/ NextEvent \/ DropSession \/ LinkDown \/ UNCHANGED vars
  <2>1. UNCHANGED <<assembler, mixed, inbox, holds>>
    BY <1>2 DEF NoTransactionId, UpdatedVolume, NextCommand, Call, Cancel, NotifyLocalVolumeChange, NextEvent,
                DropSession, LinkDown, vars, peer, history
  <2>2. QED
    BY <2>1, FragmentSame DEF Fragmented
<1>3. CASE \/ PassThroughReply \/ PassThroughCommand \/ VendorReply \/ VendorEnd
           \/ AnswerQuery \/ RegisterNotification \/ SetAbsoluteVolume \/ OverlongVolume
  <2>1. Consumed
    BY <1>3, NextMessageType DEF PassThroughReply, PassThroughCommand, VendorReply, VendorEnd,
                                 AnswerQuery, RegisterNotification, SetAbsoluteVolume, OverlongVolume
  <2>2. UNCHANGED <<holds, mixed>> /\ (assembler' = assembler \/ assembler'.of = {})
    BY <1>3 DEF PassThroughReply, PassThroughCommand, VendorReply, VendorEnd,
                AnswerQuery, RegisterNotification, SetAbsoluteVolume, OverlongVolume, peer, history
  <2>3. QED
    BY <2>1, <2>2, FragmentConsumed
<1>4. CASE VendorStart
  BY <1>4, VendorStartFragment
<1>5. CASE ChannelClosed \/ SessionDropped
  <2>1. inbox' = <<>> /\ holds' = {} /\ 1..Len(inbox') = {}
    BY <1>5, EmptySeq DEF ChannelClosed, SessionDropped, End
  <2>2. QED
    BY <2>1 DEF FragmentInv, Fragmented
<1>6. ASSUME NEW e \in holds, (\E code \in {"ok", "rejected"} : PeerAnswer(e, code)) \/ PeerChange(e)
      PROVE  FragmentInv'
  <2>1. UNCHANGED <<assembler, mixed>>
    BY <1>6 DEF PeerAnswer, PeerChange, PeerSends
  <2>2. e.stage \in {"held", "subscribed"}
    BY <1>6 DEF PeerAnswer, PeerChange
  <2>3. \E m : Added(m) /\ m.kind \notin {"start", "end"}
    <3>1. PICK code : \/ code \in {"ok", "rejected"} /\ PeerAnswer(e, code)
                      \/ code = "changed" /\ PeerChange(e)
      BY <1>6
    <3>2. PICK m : m = Reply(e.label, e.call, code)
      OBVIOUS
    <3>3. Added(m)
      BY <3>1, <3>2, PeerAnswerEffect, PeerChangeEffect DEF Answered
    <3>4. m.kind = "reply"
      BY <3>2 DEF Reply
    <3>5. QED
      BY <3>3, <3>4
  <2>4. \A f : f \in Fragmented' <=> f \in Fragmented
    <3>1. \A f \in {[e EXCEPT !.stage = "subscribed"]} : f.stage = "subscribed"
      BY DEF Types, TypeOK, Holding
    <3>2. \/ holds' = holds \ {e}
          \/ holds' = (holds \ {e}) \cup {[e EXCEPT !.stage = "subscribed"]}
      BY <1>6 DEF PeerAnswer, PeerChange
    <3>3. QED
      BY <2>2, <3>1, <3>2 DEF Fragmented
  <2>5. QED
    BY <2>1, <2>3, <2>4, FragmentSame
<1>7. ASSUME NEW n \in 1..MaxCommands, NEW k \in PeerCommands, PeerCommand(n, k[1], k[2]) PROVE FragmentInv'
  <2>1. PICK m : m = [kind |-> k[1], tx |-> n, arg |-> k[2]]
    OBVIOUS
  <2>2. Added(m) /\ m.kind \notin {"start", "end"} /\ UNCHANGED <<assembler, mixed, holds>>
    BY <1>7, <2>1, PeerMessage, AvrcpAssumption DEF PeerCommand, PeerSends
  <2>3. QED
    BY <2>2, FragmentSame DEF Fragmented
<1>8. CASE HangUp
  <2>1. PICK m : m = [kind |-> "close"]
    OBVIOUS
  <2>2. Added(m) /\ m.kind \notin {"start", "end"} /\ UNCHANGED <<assembler, mixed, holds>>
    BY <1>8, <2>1, PeerMessage DEF HangUp, PeerSends
  <2>3. QED
    BY <2>2, FragmentSame DEF Fragmented
<1>9. CASE PeerStep
  BY <1>6, <1>7, <1>8, <1>9, PeerStartFragment, PeerFinishFragment DEF PeerStep
<1>10. QED
  BY <1>1, <1>2, <1>3, <1>4, <1>5, <1>9, PeerSteps DEF Next, SessionStep

-----------------------------------------------------------------------------
(* The answers the calls are given. *)

LEMMA RepliesSame ==
  ASSUME RepliesBelong, UNCHANGED answer, taken # {} => taken' # {}, mixed => mixed'
  PROVE  RepliesBelong'
BY DEF RepliesBelong

LEMMA RepliesPassThrough ==
  ASSUME Types, LabelInv, RepliesBelong, PassThroughReply
  PROVE  RepliesBelong'
<1>1. Consumed /\ UNCHANGED <<taken, mixed>> /\ Head(inbox) = inbox[1]
  BY NextMessageType DEF PassThroughReply, history
<1>2. PICK m \in Message : m = inbox[1]
  BY <1>1 DEF Consumed
<1>3. m.kind = "reply" /\ Kind[m.call] = "pass" /\ m.label \in Labels /\ m.call \in Calls
  BY <1>1, <1>2, NextMessageType, MessageFields DEF PassThroughReply, Answers
<1>4. PICK t : t = transaction[m.label]
  OBVIOUS
<1>5. CASE t.state = "pass"
  <2>1. t \in Transaction /\ t # Empty
    BY <1>3, <1>4, <1>5, TokenTypes DEF Empty
  <2>2. t.call \in Calls /\ Kind[t.call] = "pass"
    BY <1>3, <1>4, <1>5, <2>1 DEF Transaction, LabelInv, TransactionInv, Fits
  <2>3. taken = {} => t.call = m.call
    BY <1>1, <1>2, <1>3, <1>4 DEF LabelInv, InboxInv, Fits, Good, Consumed, Answers
  <2>4. answer' = [answer EXCEPT ![t.call] = {m.call}]
    BY <1>1, <1>2, <1>4, <1>5 DEF PassThroughReply
  <2>5. QED
    BY <1>1, <2>2, <2>3, <2>4 DEF RepliesBelong, Types, TypeOK
<1>6. CASE t.state # "pass"
  <2>1. answer' = answer
    BY <1>1, <1>2, <1>4, <1>6 DEF PassThroughReply, caller
  <2>2. QED
    BY <1>1, <2>1, RepliesSame
<1>7. QED
  BY <1>5, <1>6

LEMMA RepliesComplete ==
  ASSUME Types, LabelInv, RepliesBelong, Consumed, UNCHANGED <<taken, mixed>>,
         NEW m, m = inbox[1], m.kind \in {"reply", "end"}, Kind[m.call] # "pass",
         NEW code, NEW data, Complete(m.label, code, data),
         data \subseteq {m.call} \/ (Kind[m.call] = "status" /\ mixed)
  PROVE  RepliesBelong'
<1>1. m.call \in Calls /\ transaction[m.label].call = m.call
  BY VendorToken
<1>2. CASE transaction[m.label].state \in {"status", "register"}
  <2>1. answer' = [answer EXCEPT ![m.call] = data]
    BY <1>1, <1>2 DEF Complete
  <2>2. QED
    BY <1>1, <2>1 DEF RepliesBelong, Types, TypeOK
<1>3. CASE transaction[m.label].state \notin {"status", "register"}
  <2>1. answer' = answer
    BY <1>3 DEF Complete, caller
  <2>2. QED
    BY <2>1, RepliesSame
<1>4. QED
  BY <1>2, <1>3

LEMMA RepliesVendor ==
  ASSUME Types, LabelInv, FragmentInv, RepliesBelong, VendorReply \/ VendorEnd
  PROVE  RepliesBelong'
<1>1. Consumed /\ UNCHANGED <<taken, mixed>> /\ Head(inbox) = inbox[1] /\ 1 \in 1..Len(inbox)
  BY NextMessageType DEF VendorReply, VendorEnd, Consumed
<1>2. PICK m \in Message : m = inbox[1]
  BY <1>1 DEF Consumed
<1>3. CASE VendorReply
  <2>1. m.kind = "reply"
    BY <1>2, <1>3, NextMessageType DEF VendorReply
  <2>2. Kind[m.call] # "pass" /\ Complete(m.label, m.code, {m.call})
    BY <1>1, <1>2, <1>3 DEF VendorReply
  <2>3. QED
    BY <1>1, <1>2, <2>1, <2>2, RepliesComplete
<1>4. CASE VendorEnd
  <2>1. m.kind = "end" /\ Kind[m.call] = "status"
    BY <1>1, <1>2, <1>4, NextMessageType DEF VendorEnd, LabelInv, InboxInv, Answers
  <2>2. CASE assembler.pdu = Pdu[m.call]
    <3>1. Complete(m.label, "ok", assembler.of \cup {m.call})
      BY <1>1, <1>2, <1>4, <2>2 DEF VendorEnd
    <3>2. ~mixed => assembler.of \subseteq {m.call}
      BY <1>1, <1>2, <2>1 DEF FragmentInv
    <3>3. (assembler.of \cup {m.call}) \subseteq {m.call} \/ (Kind[m.call] = "status" /\ mixed)
      BY <2>1, <3>2
    <3>4. QED
      BY <1>1, <1>2, <2>1, <3>1, <3>3, RepliesComplete
  <2>3. CASE assembler.pdu # Pdu[m.call]
    <3>1. answer' = answer
      BY <1>1, <1>2, <1>4, <2>3 DEF VendorEnd, caller
    <3>2. QED
      BY <1>1, <3>1, RepliesSame
  <2>4. QED
    BY <2>2, <2>3
<1>5. QED
  BY <1>3, <1>4

LEMMA NextReplies ==
  ASSUME Types, LabelInv, FragmentInv, RepliesBelong, [Next]_vars
  PROVE  RepliesBelong'
<1>1. CASE PassThroughReply \/ VendorReply \/ VendorEnd
  BY <1>1, RepliesPassThrough, RepliesVendor
<1>2. CASE \/ SendCommand \/ NoTransactionId \/ UpdatedVolume \/ PassThroughCommand
           \/ VendorStart \/ AnswerQuery \/ RegisterNotification \/ SetAbsoluteVolume \/ OverlongVolume
  <2>1. UNCHANGED answer /\ (taken # {} => taken' # {}) /\ UNCHANGED mixed
    BY <1>2 DEF SendCommand, NoTransactionId, UpdatedVolume, PassThroughCommand, VendorStart, AnswerQuery,
                RegisterNotification, SetAbsoluteVolume, OverlongVolume, caller, history
  <2>2. QED
    BY <2>1, RepliesSame
<1>3. CASE ChannelClosed \/ SessionDropped
  BY <1>3, RepliesSame DEF ChannelClosed, SessionDropped, End
<1>4. CASE \/ \E c \in Calls : Call(c) \/ Cancel(c)
           \/ \E v \in Volumes : NotifyLocalVolumeChange(v)
           \/ NextEvent \/ DropSession \/ LinkDown \/ UNCHANGED vars
  <2>1. UNCHANGED <<answer, taken, mixed>>
    BY <1>4 DEF Call, Cancel, NotifyLocalVolumeChange, NextEvent, DropSession, LinkDown, vars, caller, history
  <2>2. QED
    BY <2>1, RepliesSame
<1>5. CASE PeerStep
  <2>1. ASSUME NEW m, PeerSends(m) PROVE UNCHANGED <<answer, taken>>
    BY <2>1 DEF PeerSends, caller
  <2>2. \E m : PeerSends(m)
    BY <1>5 DEF PeerStep, PeerAnswer, PeerChange, PeerStart, PeerFinish, PeerCommand, HangUp
  <2>3. mixed => mixed'
    BY <1>5 DEF PeerStep, PeerAnswer, PeerChange, PeerStart, PeerFinish, PeerCommand, HangUp
  <2>4. QED
    BY <2>1, <2>2, <2>3, RepliesSame
<1>6. QED
  BY <1>1, <1>2, <1>3, <1>4, <1>5, PeerSteps DEF Next, SessionStep

(***************************************************************************)
(* A call is given the answer to its own command and to no other, for any  *)
(* calls, any number of labels and any order of answers, unless the peer   *)
(* used a label of ours for a pass-through of its own, or sent two         *)
(* fragmented answers at a time (avrcp/mod.rs:225-241, 404-460,            *)
(* avrcp/packets.rs, CommandAssembler).                                    *)
(***************************************************************************)
THEOREM AnswersBelong == Spec => []RepliesBelong
<1> DEFINE Inv == CallInv /\ Types /\ LabelInv /\ FragmentInv /\ RepliesBelong
<1>1. Init => Inv
  <2> SUFFICES ASSUME Init PROVE Inv
    OBVIOUS
  <2>1. 1..Len(inbox) = {} /\ holds = {}
    BY EmptySeq DEF Init
  <2>2. FragmentInv
    BY <2>1 DEF FragmentInv, Fragmented
  <2>3. RepliesBelong
    BY DEF Init, RepliesBelong
  <2>4. QED
    BY <2>2, <2>3, InitCallInv, InitTypes, InitLabels
<1>2. Inv /\ [Next]_vars => Inv'
  BY NextCallInv, NextTypes, NextLabels, NextFragment, NextReplies
<1>3. QED
  BY <1>1, <1>2, PTL DEF Spec


-----------------------------------------------------------------------------
(* The volumes.  What is left of a queue whose first element was taken. *)
LEMMA VolumeTail ==
  ASSUME NEW S, NEW q \in Seq(S), q # <<>>, NEW r, r = Tail(q), NEW v
  PROVE  /\ Carries(r, "volume") => Carries(q, "volume")
         /\ Carries(q, "volume") /\ Head(q).kind # "volume" => Carries(r, "volume")
         /\ LastIs(q, v) /\ Carries(r, "volume") => LastIs(r, v)
         /\ LastIs(q, v) /\ ~Carries(r, "volume") => Head(q).kind = "volume" /\ Head(q).volume = v
<1>1. /\ Head(q) = q[1] /\ Len(q) \in Nat \ {0} /\ Len(r) = Len(q) - 1
      /\ \A i \in 1..Len(r) : r[i] = q[i + 1]
  BY HeadTailProperties, EmptySeq
<1>2. \A i \in 1..Len(r) : \E j \in 1..Len(q) : j = i + 1 /\ q[j] = r[i]
  BY <1>1
<1>3. ASSUME NEW j \in 1..Len(q) PROVE j = 1 \/ \E i \in 1..Len(r) : j = i + 1 /\ r[i] = q[j]
  <2>1. CASE j # 1
    <3>1. PICK i \in 1..Len(r) : j = i + 1
      BY <1>1, <2>1
    <3>2. QED
      BY <1>1, <3>1
  <2>2. QED
    BY <2>1
<1>4. Carries(r, "volume") => Carries(q, "volume")
  BY <1>2 DEF Carries
<1>5. Carries(q, "volume") /\ Head(q).kind # "volume" => Carries(r, "volume")
  BY <1>1, <1>3 DEF Carries
<1>6. ASSUME LastIs(q, v)
      PROVE  IF Carries(r, "volume") THEN LastIs(r, v) ELSE Head(q).kind = "volume" /\ Head(q).volume = v
  <2>1. PICK j \in 1..Len(q) : /\ q[j].kind = "volume" /\ q[j].volume = v
                               /\ \A k \in 1..Len(q) : j < k => q[k].kind # "volume"
    BY <1>6 DEF LastIs
  <2>2. CASE j = 1
    <3>1. \A i \in 1..Len(r) : r[i].kind # "volume"
      BY <1>1, <1>2, <2>1, <2>2
    <3>2. QED
      BY <1>1, <2>1, <2>2, <3>1 DEF Carries
  <2>3. CASE j # 1
    <3>1. PICK i \in 1..Len(r) : j = i + 1 /\ r[i] = q[j]
      BY <1>3, <2>3
    <3>2. ASSUME NEW k \in 1..Len(r), i < k PROVE r[k].kind # "volume"
      <4>1. PICK m \in 1..Len(q) : m = k + 1 /\ q[m] = r[k]
        BY <1>2
      <4>2. j < m
        BY <3>1, <3>2, <4>1
      <4>3. QED
        BY <2>1, <4>1, <4>2
    <3>3. LastIs(r, v) /\ Carries(r, "volume")
      BY <2>1, <3>1, <3>2 DEF LastIs, Carries
    <3>4. QED
      BY <3>3
  <2>4. QED
    BY <2>2, <2>3
<1>7. QED
  BY <1>4, <1>5, <1>6

(* What a queue is after one more element. *)
LEMMA VolumeAppend ==
  ASSUME NEW S, NEW q \in Seq(S), NEW e \in S, NEW r, r = Append(q, e), NEW v
  PROVE  /\ e.kind = "volume" => Carries(r, "volume") /\ LastIs(r, e.volume)
         /\ e.kind # "volume" => /\ Carries(r, "volume") <=> Carries(q, "volume")
                                 /\ LastIs(q, v) => LastIs(r, v)
<1>1. PICK n \in 1..Len(r) : n = Len(r) /\ r[n] = e /\ n \notin 1..Len(q)
  BY AppendProperties, LenProperties
<1>2. \A i \in 1..Len(q) : i \in 1..Len(r) /\ r[i] = q[i]
  BY AppendProperties, LenProperties
<1>3. \A i \in 1..Len(r) : i \in 1..Len(q) \/ i = n
  BY <1>1, AppendProperties, LenProperties
<1>4. \A i \in 1..Len(r) : ~(n < i)
  BY <1>1
<1>5. ASSUME e.kind = "volume" PROVE Carries(r, "volume") /\ LastIs(r, e.volume)
  BY <1>1, <1>4, <1>5 DEF Carries, LastIs
<1>6. ASSUME e.kind # "volume" PROVE Carries(r, "volume") <=> Carries(q, "volume")
  BY <1>1, <1>2, <1>3, <1>6 DEF Carries
<1>7. ASSUME e.kind # "volume", LastIs(q, v) PROVE LastIs(r, v)
  <2>1. PICK j \in 1..Len(q) : /\ q[j].kind = "volume" /\ q[j].volume = v
                               /\ \A k \in 1..Len(q) : j < k => q[k].kind # "volume"
    BY <1>7 DEF LastIs
  <2>2. \A k \in 1..Len(r) : j < k => r[k].kind # "volume"
    BY <1>1, <1>2, <1>3, <1>7, <2>1
  <2>3. QED
    BY <1>2, <2>1, <2>2 DEF LastIs
<1>8. QED
  BY <1>5, <1>6, <1>7

LEMMA VolumeFrame ==
  ASSUME VolumeInv, UNCHANGED <<volume, appVolume, commands, events>>, UNCHANGED uninformed,
         running' => running, held' => held, diverged => diverged'
  PROVE  VolumeInv'
BY DEF VolumeInv, Carries, LastIs

(* Something else than a volume is queued, or was taken. *)
LEMMA VolumeAside ==
  ASSUME Types, VolumeInv, UNCHANGED <<volume, appVolume, running, held, diverged, uninformed>>,
         \/ UNCHANGED events /\ \E e \in Queued : e.kind # "volume" /\ commands' = Append(commands, e)
         \/ UNCHANGED commands /\ \E e \in Event : e.kind # "volume" /\ events' = Append(events, e)
         \/ UNCHANGED events /\ commands # <<>> /\ Head(commands).kind # "volume" /\ commands' = Tail(commands)
         \/ UNCHANGED commands /\ events # <<>> /\ Head(events).kind # "volume" /\ events' = Tail(events)
  PROVE  VolumeInv'
<1> DEFINE Same(q, r) == /\ Carries(r, "volume") <=> Carries(q, "volume")
                         /\ \A v \in Volumes : LastIs(q, v) /\ Carries(r, "volume") => LastIs(r, v)
<1>1. commands \in Seq(Queued) /\ events \in Seq(Event)
  BY DEF Types, QueueTypes
<1>2. Same(commands, commands') /\ Same(events, events')
  <2>1. Same(commands, commands) /\ Same(events, events)
    OBVIOUS
  <2>2. CASE UNCHANGED events /\ \E e \in Queued : e.kind # "volume" /\ commands' = Append(commands, e)
    <3>1. Same(commands, commands')
      BY <1>1, <2>2, VolumeAppend
    <3>2. QED
      BY <2>1, <2>2, <3>1
  <2>3. CASE UNCHANGED commands /\ \E e \in Event : e.kind # "volume" /\ events' = Append(events, e)
    <3>1. Same(events, events')
      BY <1>1, <2>3, VolumeAppend
    <3>2. QED
      BY <2>1, <2>3, <3>1
  <2>4. CASE UNCHANGED events /\ commands # <<>> /\ Head(commands).kind # "volume" /\ commands' = Tail(commands)
    <3>1. Same(commands, commands')
      BY <1>1, <2>4, VolumeTail
    <3>2. QED
      BY <2>1, <2>4, <3>1
  <2>5. CASE UNCHANGED commands /\ events # <<>> /\ Head(events).kind # "volume" /\ events' = Tail(events)
    <3>1. Same(events, events')
      BY <1>1, <2>5, VolumeTail
    <3>2. QED
      BY <2>1, <2>5, <3>1
  <2>6. QED
    BY <2>2, <2>3, <2>4, <2>5
<1>3. volume \in Volumes /\ appVolume \in Volumes
  BY DEF Types, TypeOK
<1>4. VolumeInv' <=> (running /\ held /\ ~diverged =>
        /\ ~(Carries(events', "volume") /\ Carries(commands', "volume"))
        /\ Carries(commands', "volume") => LastIs(commands', appVolume)
        /\ "application" \notin uninformed =>
             /\ Carries(events', "volume") => LastIs(events', volume)
             /\ ~Carries(events', "volume") /\ ~Carries(commands', "volume") => appVolume = volume)
  BY DEF VolumeInv, Carries, LastIs
<1> HIDE DEF Same
<1>5. QED
  BY <1>2, <1>3, <1>4 DEF VolumeInv, Same


(* The application sets its volume: the last on its way is its own. *)
LEMMA VolumeNotify ==
  ASSUME Types, VolumeInv, NEW v \in Volumes, NotifyLocalVolumeChange(v)
  PROVE  VolumeInv'
<1>1. /\ appVolume' = v /\ commands' = Append(commands, Update(v))
      /\ UNCHANGED <<events, volume>> /\ (diverged' = (diverged \/ Carries(events, "volume")))
  BY DEF NotifyLocalVolumeChange, volumes, history
<1>2. Update(v) \in Queued /\ Update(v).kind = "volume" /\ Update(v).volume = v
  BY DEF Update, Queued
<1>3. Carries(commands', "volume") /\ LastIs(commands', v)
  BY <1>1, <1>2, VolumeAppend DEF Types, QueueTypes
<1>4. SUFFICES ASSUME ~diverged' PROVE VolumeInv'
  BY DEF VolumeInv
<1>5. ~Carries(events', "volume")
  BY <1>1, <1>4
<1>6. /\ Carries(commands, "volume")' /\ ~Carries(events, "volume")' /\ LastIs(commands, appVolume)'
  BY <1>1, <1>3, <1>5 DEF Carries, LastIs
<1>7. QED
  BY <1>6 DEF VolumeInv

(* The application reads an event. *)
LEMMA VolumeEvent == ASSUME Types, VolumeInv, NextEvent PROVE VolumeInv'
<1>1. /\ events # <<>> /\ events' = Tail(events) /\ UNCHANGED <<commands, volume, running, held, diverged, uninformed>>
      /\ appVolume' = IF Head(events).kind = "volume" THEN Head(events).volume ELSE appVolume
  BY DEF NextEvent, volumes, history
<1>2. CASE Head(events).kind # "volume"
  <2>1. UNCHANGED appVolume
    BY <1>1, <1>2
  <2>2. QED
    BY <1>1, <1>2, <2>1, VolumeAside
<1>3. CASE Head(events).kind = "volume"
  <2>1. events \in Seq(Event) /\ Head(events) = events[1] /\ 1 \in 1..Len(events)
    BY <1>1, HeadTailProperties, EmptySeq DEF Types, QueueTypes
  <2>2. SUFFICES ASSUME running, held, ~diverged PROVE VolumeInv'
    BY <1>1 DEF VolumeInv
  <2>3. Carries(events, "volume")
    BY <1>3, <2>1 DEF Carries
  <2>4. ~Carries(commands, "volume") /\ ("application" \notin uninformed => LastIs(events, volume))
    BY <2>2, <2>3 DEF VolumeInv
  <2>5. "application" \notin uninformed /\ Carries(events', "volume") => LastIs(events', volume)
    BY <1>1, <2>1, <2>4, VolumeTail
  <2>6. "application" \notin uninformed /\ ~Carries(events', "volume") => Head(events).volume = volume
    BY <1>1, <2>1, <2>4, VolumeTail
  <2>7. ~Carries(commands', "volume") /\ volume' = volume /\ appVolume' = Head(events).volume
    BY <1>1, <1>3, <2>4
  <2>8. /\ ~Carries(commands, "volume")'
        /\ "application" \notin uninformed' =>
             /\ Carries(events, "volume")' => LastIs(events, volume)'
             /\ ~Carries(events, "volume")' => appVolume' = volume'
    BY <1>1, <2>5, <2>6, <2>7 DEF Carries, LastIs
  <2>9. QED
    BY <2>8 DEF VolumeInv
<1>4. QED
  BY <1>2, <1>3

(* The session reads a volume of the application. *)
LEMMA VolumeUpdated == ASSUME Types, VolumeInv, UpdatedVolume PROVE VolumeInv'
<1>1. /\ commands # <<>> /\ commands' = Tail(commands) /\ UNCHANGED <<events, appVolume, running, held, diverged>>
      /\ Head(commands).kind = "volume" /\ volume' = Head(commands).volume
  BY DEF UpdatedVolume, NextCommand, history
<1>2. commands \in Seq(Queued) /\ Head(commands) = commands[1] /\ 1 \in 1..Len(commands)
  BY <1>1, HeadTailProperties, EmptySeq DEF Types, QueueTypes
<1>3. SUFFICES ASSUME running, held, ~diverged PROVE VolumeInv'
  BY <1>1 DEF VolumeInv
<1>4. Carries(commands, "volume")
  BY <1>1, <1>2 DEF Carries
<1>5. ~Carries(events, "volume") /\ LastIs(commands, appVolume)
  BY <1>3, <1>4 DEF VolumeInv
<1>6. Carries(commands', "volume") => LastIs(commands', appVolume)
  BY <1>1, <1>2, <1>5, VolumeTail
<1>7. ~Carries(commands', "volume") => Head(commands).volume = appVolume
  BY <1>1, <1>2, <1>5, VolumeTail
<1>8. ~Carries(events', "volume") /\ appVolume' = appVolume
  BY <1>1, <1>5
<1>9. /\ ~Carries(events, "volume")'
      /\ Carries(commands, "volume")' => LastIs(commands, appVolume)'
      /\ ~Carries(commands, "volume")' => appVolume' = volume'
  BY <1>1, <1>6, <1>7, <1>8 DEF Carries, LastIs
<1>10. QED
  BY <1>9 DEF VolumeInv

(* The peer sets the volume: the event that carries it is the last, or lost. *)
LEMMA VolumeSet == ASSUME Types, VolumeInv, SetAbsoluteVolume PROVE VolumeInv'
<1>1. /\ UNCHANGED <<running, held, commands, appVolume>>
      /\ TriggerEvent(VolumeChanged(volume')) /\ volume' \in Volumes
  <2>1. UNCHANGED <<running, held, commands, appVolume>> /\ TriggerEvent(VolumeChanged(volume'))
    BY DEF SetAbsoluteVolume
  <2>2. Head(inbox).arg \in Nat
    BY NextMessageType, MessageFields DEF SetAbsoluteVolume, Consumed
  <2>3. QED
    BY <2>1, <2>2, ClippedVolume DEF SetAbsoluteVolume
<1>2. PICK e : e = VolumeChanged(volume')
  OBVIOUS
<1>3. e \in Event /\ e.kind = "volume" /\ e.volume = volume'
  BY <1>1, <1>2 DEF VolumeChanged, Event
<1>4. SUFFICES ASSUME running, held, ~diverged' PROVE VolumeInv'
  BY <1>1 DEF VolumeInv
<1>5. Len(events) < EventSlots /\ ~Carries(commands, "volume")
  <2>1. Len(events) \in Nat
    BY LenProperties DEF Types, QueueTypes
  <2>2. TriggerEvent(e)
    BY <1>1, <1>2
  <2>3. ~(Len(events) >= EventSlots \/ Carries(commands, "volume"))
    BY <1>3, <1>4, <2>2 DEF TriggerEvent
  <2>4. QED
    BY <2>1, <2>3, AvrcpAssumption
<1>6. events' = Append(events, e)
  BY <1>1, <1>2, <1>4, <1>5 DEF TriggerEvent
<1>7. Carries(events', "volume") /\ LastIs(events', volume')
  BY <1>3, <1>6, VolumeAppend DEF Types, QueueTypes
<1>8. Carries(events, "volume")' /\ LastIs(events, volume)' /\ ~Carries(commands, "volume")'
  BY <1>1, <1>5, <1>7 DEF Carries, LastIs
<1>9. QED
  BY <1>8 DEF VolumeInv

(* A volume that is set and rejected: the application is not told of it. *)
LEMMA VolumeOverlong == ASSUME Types, VolumeInv, OverlongVolume PROVE VolumeInv'
<1>1. UNCHANGED <<running, held, commands, appVolume, events, diverged>>
  BY DEF OverlongVolume
<1>2. CASE volume' = volume
  <2>1. UNCHANGED uninformed
    BY <1>2 DEF OverlongVolume
  <2>2. QED
    BY <1>1, <1>2, <2>1, VolumeFrame
<1>3. CASE volume' # volume
  <2>1. "application" \in uninformed'
    BY <1>3 DEF OverlongVolume
  <2>2. QED
    BY <1>1, <2>1 DEF VolumeInv, Carries, LastIs
<1>4. QED
  BY <1>2, <1>3

(* A change that was waited for: an event of another kind. *)
LEMMA VolumeComplete ==
  ASSUME Types, VolumeInv, UNCHANGED <<volume, appVolume, running, held, commands, uninformed>>,
         \/ UNCHANGED <<events, diverged>>
         \/ \E c \in Calls : TriggerEvent(Changed(c))
  PROVE  VolumeInv'
<1>1. CASE UNCHANGED <<events, diverged>>
  BY <1>1, VolumeFrame
<1>2. ASSUME NEW c \in Calls, TriggerEvent(Changed(c)) PROVE VolumeInv'
  <2>1. Changed(c) \in Event /\ Changed(c).kind # "volume"
    BY DEF Changed, Event
  <2>2. UNCHANGED diverged
    BY <1>2, <2>1 DEF TriggerEvent, Types, TypeOK
  <2>3. CASE UNCHANGED events
    BY <2>2, <2>3, VolumeFrame
  <2>4. CASE events' = Append(events, Changed(c))
    <3>1. \E e \in Event : e.kind # "volume" /\ events' = Append(events, e)
      BY <2>1, <2>4
    <3>2. QED
      BY <2>2, <3>1, VolumeAside
  <2>5. QED
    BY <1>2, <2>3, <2>4 DEF TriggerEvent
<1>3. QED
  BY <1>1, <1>2

LEMMA VolumeVendor ==
  ASSUME Types, LabelInv, VolumeInv, VendorReply \/ VendorEnd
  PROVE  VolumeInv'
<1>1. Consumed /\ Head(inbox) = inbox[1]
  BY NextMessageType DEF VendorReply, VendorEnd
<1>2. PICK m \in Message : m = inbox[1]
  BY <1>1 DEF Consumed
<1>3. m.kind \in {"reply", "end"} /\ Kind[m.call] # "pass"
  <2>1. m.kind \in {"reply", "end"}
    BY <1>2, NextMessageType DEF VendorReply, VendorEnd
  <2>2. m.kind = "end" => Kind[m.call] = "status"
    BY <1>1, <1>2 DEF LabelInv, InboxInv, Answers, Consumed
  <2>3. VendorReply => Kind[m.call] # "pass"
    BY <1>1, <1>2 DEF VendorReply
  <2>4. VendorEnd => m.kind = "end"
    BY <1>2, NextMessageType DEF VendorEnd
  <2>5. QED
    BY <2>1, <2>2, <2>3, <2>4
<1>4. transaction[m.label].call \in Calls
  BY <1>1, <1>2, <1>3, VendorToken
<1>5. UNCHANGED <<volume, appVolume, running, held, commands, uninformed>>
  BY DEF VendorReply, VendorEnd, volumes
<1>6. \/ UNCHANGED <<events, diverged>>
      \/ \E code, data : Complete(m.label, code, data)
  BY <1>1, <1>2 DEF VendorReply, VendorEnd
<1>7. ASSUME NEW code, NEW data, Complete(m.label, code, data)
      PROVE  UNCHANGED <<events, diverged>> \/ \E c \in Calls : TriggerEvent(Changed(c))
  BY <1>4, <1>7 DEF Complete
<1>8. QED
  BY <1>5, <1>6, <1>7, VolumeComplete


LEMMA PeerUnchanged ==
  ASSUME PeerStep
  PROVE  UNCHANGED <<volumes, appVolume, commands, events, running, linkUp, held, diverged, uninformed,
                      peerVolume>>
<1>1. ASSUME NEW m, PeerSends(m)
      PROVE  UNCHANGED <<volumes, appVolume, commands, events, running, linkUp, held, diverged, uninformed,
                      peerVolume>>
  BY <1>1 DEF PeerSends
<1>2. \E m : PeerSends(m)
  BY DEF PeerStep, PeerAnswer, PeerChange, PeerStart, PeerFinish, PeerCommand, HangUp
<1>3. QED
  BY <1>1, <1>2

LEMMA NextVolume == ASSUME Types, LabelInv, VolumeInv, [Next]_vars PROVE VolumeInv'
<1>1. ASSUME NEW c \in Calls, Call(c) \/ Cancel(c) PROVE VolumeInv'
  <2>1. UNCHANGED <<volume, appVolume, running, held, diverged, events, uninformed>>
    BY <1>1 DEF Call, Cancel, volumes, history
  <2>2. CASE UNCHANGED commands
    BY <2>1, <2>2, VolumeFrame
  <2>3. CASE commands' = Append(commands, Request(c))
    <3>1. Request(c) \in Queued /\ Request(c).kind # "volume"
      BY DEF Request, Queued
    <3>2. \E e \in Queued : e.kind # "volume" /\ commands' = Append(commands, e)
      BY <2>3, <3>1
    <3>3. QED
      BY <2>1, <3>2, VolumeAside
  <2>4. QED
    BY <1>1, <2>2, <2>3 DEF Call, Cancel
<1>2. CASE \/ \E v \in Volumes : NotifyLocalVolumeChange(v)
           \/ NextEvent \/ UpdatedVolume \/ SetAbsoluteVolume \/ OverlongVolume \/ VendorReply \/ VendorEnd
  BY <1>2, VolumeNotify, VolumeEvent, VolumeUpdated, VolumeSet, VolumeOverlong, VolumeVendor
<1>3. CASE DropSession
  BY <1>3 DEF DropSession, VolumeInv
<1>4. CASE ChannelClosed \/ SessionDropped
  BY <1>4 DEF ChannelClosed, SessionDropped, End, VolumeInv
<1>5. CASE SendCommand \/ NoTransactionId
  <2>1. /\ UNCHANGED <<volume, appVolume, running, held, events, uninformed>>
        /\ commands # <<>> /\ commands' = Tail(commands)
    BY <1>5 DEF SendCommand, NoTransactionId, NextCommand, volumes, history
  <2>2. CASE Head(commands).kind = "call"
    <3>1. UNCHANGED diverged
      BY <1>5, <2>2 DEF SendCommand, NoTransactionId, history
    <3>2. QED
      BY <2>1, <2>2, <3>1, VolumeAside
  <2>3. CASE Head(commands).kind # "call"
    <3>1. diverged'
      BY <1>5, <2>3 DEF SendCommand, NoTransactionId
    <3>2. QED
      BY <3>1 DEF VolumeInv
  <2>4. QED
    BY <2>2, <2>3
<1>6. CASE PassThroughReply \/ PassThroughCommand \/ VendorStart \/ AnswerQuery \/ RegisterNotification
  <2>1. UNCHANGED <<volume, appVolume, commands, events, running, held, diverged>>
    BY <1>6 DEF PassThroughReply, PassThroughCommand, VendorStart, AnswerQuery, RegisterNotification,
                volumes, history
  <2>2. "application" \in uninformed' <=> "application" \in uninformed
    BY <1>6 DEF PassThroughReply, PassThroughCommand, VendorStart, AnswerQuery, RegisterNotification, history
  <2>3. QED
    BY <2>1, <2>2 DEF VolumeInv, Carries, LastIs
<1>7. CASE PeerStep
  BY <1>7, PeerUnchanged, VolumeFrame DEF volumes
<1>8. CASE LinkDown \/ UNCHANGED vars
  BY <1>8, VolumeFrame DEF LinkDown, vars, volumes, history
<1>9. QED
  BY <1>1, <1>2, <1>3, <1>4, <1>5, <1>6, <1>7, <1>8, PeerSteps DEF Next, SessionStep

(* The volume the peer was told, while it has a registration. *)
PeerTold == running /\ linkUp /\ registered # None /\ "peer" \notin uninformed => peerVolume = volume

LEMMA NextPeerTold == ASSUME Types, PeerTold, [Next]_vars PROVE PeerTold'
<1>1. CASE UpdatedVolume
  <2>1. UNCHANGED <<running, linkUp>>
    BY <1>1 DEF UpdatedVolume
  <2>2. CASE registered' = None
    BY <2>2 DEF PeerTold
  <2>3. CASE registered' # None
    <3>1. UNCHANGED <<volume, registered, peerVolume>> /\ ("peer" \in uninformed => "peer" \in uninformed')
      BY <1>1, <2>3 DEF UpdatedVolume
    <3>2. QED
      BY <2>1, <3>1 DEF PeerTold
  <2>4. QED
    BY <2>2, <2>3
<1>2. CASE RegisterNotification
  <2>1. UNCHANGED <<running, linkUp, volume>> /\ volume # None
    BY <1>2, AvrcpAssumption DEF RegisterNotification, Types, TypeOK, Volumes
  <2>2. CASE registered # None
    <3>1. UNCHANGED <<registered, peerVolume, uninformed>>
      BY <1>2, <2>2 DEF RegisterNotification, Respond
    <3>2. QED
      BY <2>1, <3>1 DEF PeerTold
  <2>3. CASE registered = None
    <3>1. linkUp => peerVolume' = volume
      BY <1>2, <2>1, <2>3 DEF RegisterNotification, Respond
    <3>2. QED
      BY <2>1, <3>1 DEF PeerTold
  <2>4. QED
    BY <2>2, <2>3
<1>3. CASE SetAbsoluteVolume
  <2>1. Head(inbox).arg \in Nat
    BY <1>3, NextMessageType, MessageFields DEF SetAbsoluteVolume, Consumed
  <2>2. PICK v \in Volumes : v = volume'
    BY <1>3, <2>1, ClippedVolume DEF SetAbsoluteVolume
  <2>3. v # None
    BY AvrcpAssumption DEF Volumes
  <2>4. Respond(Head(inbox).tx, "done", v) /\ UNCHANGED <<running, linkUp>>
    BY <1>3, <2>2 DEF SetAbsoluteVolume
  <2>5. linkUp => peerVolume' = v
    BY <2>3, <2>4 DEF Respond
  <2>6. QED
    BY <2>2, <2>4, <2>5 DEF PeerTold
<1>4. CASE OverlongVolume
  <2>1. UNCHANGED <<running, linkUp, registered, peerVolume>>
    BY <1>4 DEF OverlongVolume, Respond
  <2>2. (volume' = volume /\ uninformed' = uninformed) \/ "peer" \in uninformed'
    BY <1>4 DEF OverlongVolume
  <2>3. QED
    BY <2>1, <2>2 DEF PeerTold
<1>5. CASE ChannelClosed \/ SessionDropped
  BY <1>5 DEF ChannelClosed, SessionDropped, End, PeerTold
<1>6. CASE LinkDown
  BY <1>6 DEF LinkDown, PeerTold, volumes, peer, history
<1>7. CASE AnswerQuery
  BY <1>7 DEF AnswerQuery, Respond, PeerTold, volumes, history
<1>8. CASE PeerStep
  BY <1>8, PeerUnchanged DEF PeerTold, volumes
<1>9. CASE \/ SendCommand \/ NoTransactionId \/ PassThroughReply \/ PassThroughCommand
           \/ VendorReply \/ VendorStart \/ VendorEnd
  BY <1>9 DEF SendCommand, NoTransactionId, PassThroughReply, PassThroughCommand, VendorReply, VendorStart,
              VendorEnd, PeerTold, volumes, peer, history
<1>10. CASE \/ \E c \in Calls : Call(c) \/ Cancel(c)
            \/ \E v \in Volumes : NotifyLocalVolumeChange(v)
            \/ NextEvent \/ DropSession
  BY <1>10 DEF Call, Cancel, NotifyLocalVolumeChange, NextEvent, DropSession, PeerTold, volumes, peer, history
<1>11. CASE UNCHANGED vars
  BY <1>11 DEF vars, PeerTold, volumes, peer, history
<1>12. QED
  BY <1>1, <1>2, <1>3, <1>4, <1>5, <1>6, <1>7, <1>8, <1>9, <1>10, <1>11, PeerSteps DEF Next, SessionStep

(***************************************************************************)
(* The volumes of both sides agree: a peer with a registration was told    *)
(* the volume the session has, and the application has it too once nothing *)
(* is on its way, unless a change was dropped or two crossed, or a command *)
(* that was rejected set the one they have not been told of                *)
(* (avrcp/mod.rs:261-274, 356-374, 383-402).                               *)
(***************************************************************************)
THEOREM VolumesAgree == Spec => []VolumeAgrees
<1> DEFINE Inv == CallInv /\ Types /\ LabelInv /\ VolumeInv /\ PeerTold
<1>1. Init => Inv
  <2> SUFFICES ASSUME Init PROVE Inv
    OBVIOUS
  <2>1. Len(events) = 0 /\ Len(commands) = 0
    BY EmptySeq DEF Init
  <2>2. ~Carries(events, "volume") /\ ~Carries(commands, "volume")
    BY <2>1 DEF Carries
  <2>3. VolumeInv /\ PeerTold
    BY <2>2 DEF Init, VolumeInv, PeerTold
  <2>4. QED
    BY <2>3, InitCallInv, InitTypes, InitLabels
<1>2. Inv /\ [Next]_vars => Inv'
  BY NextCallInv, NextTypes, NextLabels, NextVolume, NextPeerTold
<1>3. Inv => VolumeAgrees
  BY DEF VolumeInv, PeerTold, VolumeAgrees
<1>4. QED
  BY <1>1, <1>2, <1>3, PTL DEF Spec


-----------------------------------------------------------------------------
(* The commands of the peer.  Nothing happens to one of them. *)
LEMMA AskKept ==
  ASSUME AskInv, running' => running, linkUp' => linkUp, UNCHANGED <<asked, registered>>,
         \/ UNCHANGED inbox
         \/ Consumed /\ inbox[1].kind \notin Asks
         \/ \E m : Added(m) /\ m.kind \notin Asks
  PROVE  AskInv'
<1> SUFFICES ASSUME running', linkUp' PROVE AskInv'
  BY DEF AskInv
<1>1. CASE UNCHANGED inbox
  BY <1>1 DEF AskInv
<1>2. CASE Consumed /\ inbox[1].kind \notin Asks
  <2>1. \A i \in 1..Len(inbox') : \E k \in 1..Len(inbox) : k = i + 1 /\ inbox'[i] = inbox[k] /\ i \in Nat
    BY <1>2 DEF Consumed
  <2>2. \A i \in 1..Len(inbox) : inbox[i].kind \in Asks => \E k \in 1..Len(inbox') : inbox'[k] = inbox[i]
    BY <1>2 DEF Consumed
  <2>3. \A i \in 1..Len(inbox') : inbox'[i].kind \in Asks => asked'[inbox'[i].tx] = "sent"
    BY <2>1 DEF AskInv
  <2>4. \A i, j \in 1..Len(inbox') :
          inbox'[i].kind \in Asks /\ inbox'[j].kind \in Asks /\ inbox'[i].tx = inbox'[j].tx => i = j
    <3>1. SUFFICES ASSUME NEW i \in 1..Len(inbox'), NEW j \in 1..Len(inbox'),
                          inbox'[i].kind \in Asks, inbox'[j].kind \in Asks, inbox'[i].tx = inbox'[j].tx
                   PROVE  i = j
      OBVIOUS
    <3>2. PICK a \in 1..Len(inbox) : a = i + 1 /\ inbox'[i] = inbox[a] /\ i \in Nat
      BY <2>1
    <3>3. PICK b \in 1..Len(inbox) : b = j + 1 /\ inbox'[j] = inbox[b] /\ j \in Nat
      BY <2>1
    <3>4. a = b
      BY <3>1, <3>2, <3>3 DEF AskInv
    <3>5. QED
      BY <3>2, <3>3, <3>4
  <2>5. \A n \in 1..MaxCommands :
          asked'[n] = "sent" => \E i \in 1..Len(inbox') : inbox'[i].kind \in Asks /\ inbox'[i].tx = n
    BY <2>2 DEF AskInv
  <2>6. \A n \in 1..MaxCommands : asked'[n] = "registered" <=> registered' = n
    BY DEF AskInv
  <2>7. QED
    BY <2>3, <2>4, <2>5, <2>6 DEF AskInv
<1>3. CASE \E m : Added(m) /\ m.kind \notin Asks
  <2>1. PICK m : Added(m) /\ m.kind \notin Asks
    BY <1>3
  <2>2. \A i \in 1..Len(inbox') : inbox'[i].kind \in Asks => i \in 1..Len(inbox) /\ inbox'[i] = inbox[i]
    BY <2>1 DEF Added
  <2>3. \A i \in 1..Len(inbox) : i \in 1..Len(inbox') /\ inbox'[i] = inbox[i]
    BY <2>1 DEF Added
  <2>4. QED
    BY <2>2, <2>3 DEF AskInv
<1>4. QED
  BY <1>1, <1>2, <1>3

(* The first message is one, and is answered: a registration is remembered. *)
LEMMA AskAnswered ==
  ASSUME Types, AskInv, Consumed, UNCHANGED <<running, linkUp>>, inbox[1].kind \in Asks,
         NEW n, n = inbox[1].tx, NEW outcome \in {"done", "registered"},
         linkUp => asked' = [asked EXCEPT ![n] = outcome],
         outcome = "registered" => registered = None /\ registered' = n,
         outcome = "done" => UNCHANGED registered
  PROVE  AskInv'
<1> SUFFICES ASSUME running, linkUp PROVE AskInv'
  BY DEF AskInv
<1>1. n \in 1..MaxCommands
  BY MessageFields DEF Consumed
<1>2. asked \in [1..MaxCommands -> {"unused", "sent", "registered", "unanswered", "done"}]
  BY DEF Types, TypeOK
<1>3. \A k \in 1..MaxCommands : asked'[k] = IF k = n THEN outcome ELSE asked[k]
  BY <1>1, <1>2
<1>4. asked[n] = "sent" /\ registered # n
  <2>1. asked[n] = "sent"
    BY DEF AskInv, Consumed
  <2>2. QED
    BY <1>1, <2>1 DEF AskInv
<1>5. \A i \in 1..Len(inbox') : \E k \in 1..Len(inbox) : k = i + 1 /\ k # 1 /\ inbox'[i] = inbox[k] /\ i \in Nat
  <2>1. \A i \in 1..Len(inbox') : i \in Nat /\ i + 1 \in 1..Len(inbox) /\ inbox'[i] = inbox[i + 1] /\ i # 0
    BY DEF Consumed
  <2>2. QED
    BY <2>1
<1>6. \A i \in 1..Len(inbox) : i = 1 \/ \E k \in 1..Len(inbox') : inbox'[k] = inbox[i]
  BY DEF Consumed
<1>7. \A i \in 1..Len(inbox') : inbox'[i].kind \in Asks => asked'[inbox'[i].tx] = "sent"
  <2>1. SUFFICES ASSUME NEW i \in 1..Len(inbox'), inbox'[i].kind \in Asks PROVE asked'[inbox'[i].tx] = "sent"
    OBVIOUS
  <2>2. PICK a \in 1..Len(inbox) : a # 1 /\ inbox'[i] = inbox[a]
    BY <1>5
  <2>3. inbox[a].tx # n /\ asked[inbox[a].tx] = "sent"
    BY <2>1, <2>2 DEF AskInv, Consumed
  <2>4. inbox[a].tx \in 1..MaxCommands
    BY <2>1, <2>2, MessageFields DEF Types, QueueTypes
  <2>5. QED
    BY <1>3, <2>2, <2>3, <2>4
<1>8. \A i, j \in 1..Len(inbox') :
        inbox'[i].kind \in Asks /\ inbox'[j].kind \in Asks /\ inbox'[i].tx = inbox'[j].tx => i = j
  <2>1. SUFFICES ASSUME NEW i \in 1..Len(inbox'), NEW j \in 1..Len(inbox'),
                        inbox'[i].kind \in Asks, inbox'[j].kind \in Asks, inbox'[i].tx = inbox'[j].tx
                 PROVE  i = j
    OBVIOUS
  <2>2. PICK a \in 1..Len(inbox) : a = i + 1 /\ inbox'[i] = inbox[a] /\ i \in Nat
    BY <1>5
  <2>3. PICK b \in 1..Len(inbox) : b = j + 1 /\ inbox'[j] = inbox[b] /\ j \in Nat
    BY <1>5
  <2>4. a = b
    BY <2>1, <2>2, <2>3 DEF AskInv
  <2>5. QED
    BY <2>2, <2>3, <2>4
<1>9. \A k \in 1..MaxCommands :
        asked'[k] = "sent" => \E i \in 1..Len(inbox') : inbox'[i].kind \in Asks /\ inbox'[i].tx = k
  <2>1. SUFFICES ASSUME NEW k \in 1..MaxCommands, asked'[k] = "sent"
                 PROVE  \E i \in 1..Len(inbox') : inbox'[i].kind \in Asks /\ inbox'[i].tx = k
    OBVIOUS
  <2>2. k # n /\ asked[k] = "sent"
    BY <1>3, <2>1
  <2>3. PICK i \in 1..Len(inbox) : inbox[i].kind \in Asks /\ inbox[i].tx = k
    BY <2>2 DEF AskInv
  <2>4. i # 1
    BY <2>2, <2>3
  <2>5. QED
    BY <1>6, <2>3, <2>4
<1>10. \A k \in 1..MaxCommands : asked'[k] = "registered" <=> registered' = k
  <2>1. \A k \in 1..MaxCommands : asked[k] = "registered" <=> registered = k
    BY DEF AskInv
  <2>2. CASE outcome = "done"
    BY <1>3, <1>4, <2>1, <2>2
  <2>3. CASE outcome = "registered"
    <3>1. \A k \in 1..MaxCommands : asked[k] # "registered"
      BY <2>1, <2>3, AvrcpAssumption
    <3>2. QED
      BY <1>3, <2>3, <3>1
  <2>4. QED
    BY <2>2, <2>3
<1>11. QED
  BY <1>7, <1>8, <1>9, <1>10 DEF AskInv

(* The change is sent: the registration is over. *)
LEMMA AskUpdated == ASSUME Types, AskInv, UpdatedVolume PROVE AskInv'
<1>1. UNCHANGED <<running, linkUp, inbox>>
  BY DEF UpdatedVolume
<1>2. CASE UNCHANGED <<asked, registered>>
  BY <1>1, <1>2, AskKept
<1>3. CASE ~UNCHANGED <<asked, registered>>
  <2> SUFFICES ASSUME running, linkUp PROVE AskInv'
    BY <1>1 DEF AskInv
  <2>1. /\ registered # None /\ registered' = None
        /\ linkUp => asked' = [asked EXCEPT ![registered] = "done"]
    BY <1>3 DEF UpdatedVolume, Respond
  <2>2. PICK n \in 1..MaxCommands : n = registered
    BY <2>1 DEF Types, TypeOK
  <2>3. \A k \in 1..MaxCommands : asked'[k] = IF k = n THEN "done" ELSE asked[k]
    BY <2>1, <2>2 DEF Types, TypeOK
  <2>4. asked[n] = "registered" /\ \A k \in 1..MaxCommands : k # n => asked[k] # "registered"
    BY <2>2 DEF AskInv
  <2>5. \A i \in 1..Len(inbox) : inbox[i].kind \in Asks =>
          inbox[i].tx \in 1..MaxCommands /\ inbox[i].tx # n
    <3>1. ASSUME NEW i \in 1..Len(inbox), inbox[i].kind \in Asks
          PROVE  inbox[i].tx \in 1..MaxCommands /\ inbox[i].tx # n
      <4>1. inbox[i].tx \in 1..MaxCommands
        BY <3>1, MessageFields DEF Types, QueueTypes
      <4>2. asked[inbox[i].tx] = "sent"
        BY <3>1 DEF AskInv
      <4>3. QED
        BY <2>4, <4>1, <4>2
    <3>2. QED
      BY <3>1
  <2>6. \A k \in 1..MaxCommands : asked'[k] = "registered" <=> registered' = k
    BY <2>1, <2>3, <2>4, AvrcpAssumption
  <2>7. \A i \in 1..Len(inbox) : inbox[i].kind \in Asks => asked'[inbox[i].tx] = "sent"
    BY <2>3, <2>5 DEF AskInv
  <2>8. \A k \in 1..MaxCommands : asked'[k] = "sent" => asked[k] = "sent"
    BY <2>3
  <2>9. QED
    BY <1>1, <2>6, <2>7, <2>8 DEF AskInv
<1>4. QED
  BY <1>2, <1>3


(* The peer sends a command it has not sent yet. *)
LEMMA AskSent ==
  ASSUME Types, AskInv, NEW n \in 1..MaxCommands, NEW k \in PeerCommands, PeerCommand(n, k[1], k[2])
  PROVE  AskInv'
<1>1. PICK m : m = [kind |-> k[1], tx |-> n, arg |-> k[2]]
  OBVIOUS
<1>2. PeerSends(m) /\ asked[n] = "unused" /\ UNCHANGED <<running, linkUp, registered>>
  BY <1>1 DEF PeerCommand, PeerSends, volumes
<1>3. m \in Message /\ Added(m) /\ m.kind = k[1] /\ m.tx = n
  BY <1>1, <1>2, PeerMessage
<1>4. \A i \in 1..MaxCommands : asked'[i] = IF i = n THEN IF k[1] = "press" THEN "unanswered" ELSE "sent" ELSE asked[i]
  BY DEF PeerCommand, Types, TypeOK
<1>5. k[1] # "press" <=> m.kind \in Asks
  BY <1>3, AvrcpAssumption DEF Asks
<1> SUFFICES ASSUME running, linkUp PROVE AskInv'
  BY <1>2 DEF AskInv
<1>6. \A i \in 1..Len(inbox) : inbox[i].kind \in Asks =>
        /\ inbox[i].tx \in 1..MaxCommands /\ inbox[i].tx # n
        /\ asked'[inbox[i].tx] = "sent"
  <2>1. SUFFICES ASSUME NEW i \in 1..Len(inbox), inbox[i].kind \in Asks
                 PROVE  inbox[i].tx \in 1..MaxCommands /\ inbox[i].tx # n /\ asked'[inbox[i].tx] = "sent"
    OBVIOUS
  <2>2. inbox[i].tx \in 1..MaxCommands
    BY <2>1, MessageFields DEF Types, QueueTypes
  <2>3. asked[inbox[i].tx] = "sent"
    BY <2>1 DEF AskInv
  <2>4. QED
    BY <1>2, <1>4, <2>2, <2>3
<1>7. \A i \in 1..Len(inbox) : i \in 1..Len(inbox') /\ inbox'[i] = inbox[i]
  BY <1>3 DEF Added
<1>8. PICK last \in 1..Len(inbox') : /\ inbox'[last] = m
                                     /\ \A i \in 1..Len(inbox') : i \in 1..Len(inbox) \/ i = last
  BY <1>3 DEF Added
<1>9. \A i \in 1..Len(inbox') : inbox'[i].kind \in Asks => asked'[inbox'[i].tx] = "sent"
  <2>1. SUFFICES ASSUME NEW i \in 1..Len(inbox'), inbox'[i].kind \in Asks PROVE asked'[inbox'[i].tx] = "sent"
    OBVIOUS
  <2>2. CASE i \in 1..Len(inbox)
    BY <1>6, <1>7, <2>1, <2>2
  <2>3. CASE i = last
    BY <1>3, <1>4, <1>5, <1>8, <2>1, <2>3
  <2>4. QED
    BY <1>8, <2>2, <2>3
<1>10. \A i, j \in 1..Len(inbox') :
         inbox'[i].kind \in Asks /\ inbox'[j].kind \in Asks /\ inbox'[i].tx = inbox'[j].tx => i = j
  <2>1. SUFFICES ASSUME NEW i \in 1..Len(inbox'), NEW j \in 1..Len(inbox'),
                        inbox'[i].kind \in Asks, inbox'[j].kind \in Asks, inbox'[i].tx = inbox'[j].tx
                 PROVE  i = j
    OBVIOUS
  <2>2. CASE i \in 1..Len(inbox) /\ j \in 1..Len(inbox)
    BY <1>7, <2>1, <2>2 DEF AskInv
  <2>3. CASE i \in 1..Len(inbox) /\ j = last
    BY <1>3, <1>6, <1>7, <1>8, <2>1, <2>3
  <2>4. CASE i = last /\ j \in 1..Len(inbox)
    BY <1>3, <1>6, <1>7, <1>8, <2>1, <2>4
  <2>5. QED
    BY <1>8, <2>2, <2>3, <2>4
<1>11. \A i \in 1..MaxCommands :
         asked'[i] = "sent" => \E j \in 1..Len(inbox') : inbox'[j].kind \in Asks /\ inbox'[j].tx = i
  <2>1. SUFFICES ASSUME NEW i \in 1..MaxCommands, asked'[i] = "sent"
                 PROVE  \E j \in 1..Len(inbox') : inbox'[j].kind \in Asks /\ inbox'[j].tx = i
    OBVIOUS
  <2>2. CASE i = n
    BY <1>3, <1>4, <1>5, <1>8, <2>1, <2>2
  <2>3. CASE i # n
    <3>1. PICK j \in 1..Len(inbox) : inbox[j].kind \in Asks /\ inbox[j].tx = i
      BY <1>4, <2>1, <2>3 DEF AskInv
    <3>2. QED
      BY <1>7, <3>1
  <2>4. QED
    BY <2>2, <2>3
<1>12. \A i \in 1..MaxCommands : asked'[i] = "registered" <=> registered' = i
  <2>1. \A i \in 1..MaxCommands : asked[i] = "registered" <=> registered = i
    BY DEF AskInv
  <2>2. asked'[n] # "registered" /\ registered # n
    BY <1>2, <1>4, <2>1
  <2>3. QED
    BY <1>2, <1>4, <2>1, <2>2
<1>13. QED
  BY <1>9, <1>10, <1>11, <1>12 DEF AskInv

LEMMA AskAnswers ==
  ASSUME Types, AskInv, AnswerQuery \/ RegisterNotification \/ SetAbsoluteVolume \/ OverlongVolume
  PROVE  AskInv'
<1>1. /\ Consumed /\ Head(inbox) = inbox[1] /\ inbox[1].kind \in Asks /\ UNCHANGED <<running, linkUp>>
  BY NextMessageType DEF AnswerQuery, RegisterNotification, SetAbsoluteVolume, OverlongVolume, Asks
<1>2. PICK n : n = inbox[1].tx
  OBVIOUS
<1>3. ASSUME NEW v, Respond(n, "done", v), UNCHANGED registered PROVE AskInv'
  <2>1. linkUp => asked' = [asked EXCEPT ![n] = "done"]
    BY <1>3 DEF Respond
  <2>2. PICK outcome \in {"done", "registered"} : outcome = "done"
    OBVIOUS
  <2>3. QED
    BY <1>1, <1>2, <1>3, <2>1, <2>2, AskAnswered
<1>4. ASSUME NEW v, Respond(n, "registered", v), registered = None, registered' = n PROVE AskInv'
  <2>1. linkUp => asked' = [asked EXCEPT ![n] = "registered"]
    BY <1>4 DEF Respond
  <2>2. PICK outcome \in {"done", "registered"} : outcome = "registered"
    OBVIOUS
  <2>3. QED
    BY <1>1, <1>2, <1>4, <2>1, <2>2, AskAnswered
<1>5. CASE AnswerQuery
  <2>1. Respond(n, "done", None) /\ UNCHANGED registered
    BY <1>1, <1>2, <1>5 DEF AnswerQuery, volumes
  <2>2. QED
    BY <1>3, <2>1
<1>6. CASE RegisterNotification
  <2>1. \/ Respond(n, "done", None) /\ UNCHANGED registered
        \/ Respond(n, "registered", volume) /\ registered = None /\ registered' = n
    BY <1>1, <1>2, <1>6 DEF RegisterNotification
  <2>2. QED
    BY <1>3, <1>4, <2>1
<1>7. CASE SetAbsoluteVolume
  <2>1. PICK v : v = volume'
    OBVIOUS
  <2>2. Respond(n, "done", v) /\ UNCHANGED registered
    BY <1>1, <1>2, <1>7, <2>1 DEF SetAbsoluteVolume
  <2>3. QED
    BY <1>3, <2>2
<1>8. CASE OverlongVolume
  <2>1. Respond(n, "done", None) /\ UNCHANGED registered
    BY <1>1, <1>2, <1>8 DEF OverlongVolume
  <2>2. QED
    BY <1>3, <2>1
<1>9. QED
  BY <1>5, <1>6, <1>7, <1>8

LEMMA NextAsk == ASSUME Types, AskInv, [Next]_vars PROVE AskInv'
<1>1. CASE AnswerQuery \/ RegisterNotification \/ SetAbsoluteVolume \/ OverlongVolume \/ UpdatedVolume
  BY <1>1, AskAnswers, AskUpdated
<1>2. CASE PassThroughReply \/ PassThroughCommand \/ VendorReply \/ VendorStart \/ VendorEnd
  <2>1. UNCHANGED <<running, linkUp, asked, registered>>
    BY <1>2 DEF PassThroughReply, PassThroughCommand, VendorReply, VendorStart, VendorEnd, volumes, peer
  <2>2. Consumed /\ inbox[1].kind \notin Asks
    BY <1>2, NextMessageType
       DEF PassThroughReply, PassThroughCommand, VendorReply, VendorStart, VendorEnd, Asks
  <2>3. QED
    BY <2>1, <2>2, AskKept
<1>3. CASE ChannelClosed \/ SessionDropped
  BY <1>3 DEF ChannelClosed, SessionDropped, End, AskInv
<1>4. CASE \/ \E c \in Calls : Call(c) \/ Cancel(c)
           \/ \E v \in Volumes : NotifyLocalVolumeChange(v)
           \/ NextEvent \/ DropSession \/ LinkDown \/ SendCommand \/ NoTransactionId \/ UNCHANGED vars
  <2>1. UNCHANGED <<running, asked, registered, inbox>> /\ (linkUp' => linkUp)
    BY <1>4 DEF Call, Cancel, NotifyLocalVolumeChange, NextEvent, DropSession, LinkDown, SendCommand,
                NoTransactionId, vars, volumes, peer
  <2>2. QED
    BY <2>1, AskKept
<1>5. ASSUME NEW e \in holds,
             (\E code \in {"ok", "rejected"} : PeerAnswer(e, code)) \/ PeerChange(e) \/ PeerStart(e) \/ PeerFinish(e)
      PROVE  AskInv'
  <2>1. UNCHANGED <<running, linkUp, registered>>
    BY <1>5, PeerUnchanged DEF PeerStep, volumes
  <2>2. UNCHANGED asked
    BY <1>5 DEF PeerAnswer, PeerChange, PeerStart, PeerFinish
  <2>3. \E m : Added(m) /\ m.kind \notin Asks
    <3>1. \A l, c, code : Reply(l, c, code).kind \notin Asks
      BY DEF Reply, Asks
    <3>2. \A l, c : Part("start", l, c).kind \notin Asks /\ Part("end", l, c).kind \notin Asks
      BY DEF Part, Asks
    <3>3. QED
      BY <1>5, <3>1, <3>2, PeerAnswerEffect, PeerChangeEffect, PeerStartEffect, PeerFinishEffect DEF Answered
  <2>4. QED
    BY <2>1, <2>2, <2>3, AskKept
<1>6. CASE HangUp
  <2>1. UNCHANGED <<running, linkUp, registered, asked>>
    BY <1>6 DEF HangUp, PeerSends, volumes
  <2>2. PICK m : m = [kind |-> "close"]
    OBVIOUS
  <2>3. Added(m) /\ m.kind \notin Asks
    BY <1>6, <2>2, PeerMessage DEF HangUp, Asks
  <2>4. QED
    BY <2>1, <2>3, AskKept
<1>7. CASE PeerStep
  BY <1>5, <1>6, <1>7, AskSent DEF PeerStep
<1>8. QED
  BY <1>1, <1>2, <1>3, <1>4, <1>7, PeerSteps DEF Next, SessionStep

LEMMA AskMeans == ASSUME Types, AskInv PROVE PeerTransactions
<1>1. ASSUME NEW i \in 1..Len(inbox), inbox[i].kind \in Asks
      PROVE  inbox[i].kind \in {k[1] : k \in PeerCommands}
  <2>1. inbox[i] \in Command
    BY <1>1 DEF Types, QueueTypes, Message, Asks
  <2>2. PICK k \in PeerCommands, n \in 1..MaxCommands : inbox[i] = [kind |-> k[1], tx |-> n, arg |-> k[2]]
    BY <2>1 DEF Command
  <2>3. inbox[i].kind = k[1]
    BY <2>2
  <2>4. QED
    BY <2>3
<1>2. QED
  BY <1>1 DEF AskInv, PeerTransactions

(***************************************************************************)
(* Every label that is not free has an answer to come, or a change, but    *)
(* for the two leaks that stranded records; every command of the peer is   *)
(* being answered, and the registration it was granted is the one the      *)
(* session remembers (avrcp/mod.rs:210-460).                               *)
(***************************************************************************)
THEOREM TransactionsAreAccounted == Spec => []TransactionsAccounted
<1> DEFINE Inv == CallInv /\ Types /\ LabelInv /\ AskInv
<1>1. Init => Inv
  <2> SUFFICES ASSUME Init PROVE Inv
    OBVIOUS
  <2>1. 1..Len(inbox) = {}
    BY EmptySeq DEF Init
  <2>2. AskInv
    BY <2>1, AvrcpAssumption DEF Init, AskInv
  <2>3. QED
    BY <2>2, InitCallInv, InitTypes, InitLabels
<1>2. Inv /\ [Next]_vars => Inv'
  BY NextCallInv, NextTypes, NextLabels, NextAsk
<1>3. Inv => TransactionsAccounted
  BY AskMeans DEF LabelInv, TransactionsAccounted
<1>4. QED
  BY <1>1, <1>2, <1>3, PTL DEF Spec

=============================================================================
