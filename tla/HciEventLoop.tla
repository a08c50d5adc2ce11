---------------------------- MODULE HciEventLoop ----------------------------
(***************************************************************************)
(* The task that owns the USB transport of a controller                    *)
(* (hci/event_loop.rs) together with the API that talks to it through      *)
(* three unbounded channels (hci/mod.rs):                                  *)
(*                                                                         *)
(*   cmd   HCI commands, one outstanding at a time, answered by opcode;    *)
(*   acl   ACL packets, sent while fewer than the controller's buffers are *)
(*         in flight;                                                      *)
(*   ctl   registration of handlers, the buffer count, Shutdown.           *)
(*                                                                         *)
(* One step of the module is one turn of the loop's select!, one call of   *)
(* the API, or one step of the controller.  Each call and each ACL packet  *)
(* is a value of its own and is used once, so that a response or a credit  *)
(* can be traced to what it belongs to.                                    *)
(***************************************************************************)
EXTENDS Integers, Sequences, FiniteSets, SequencesExt

CONSTANTS
  Calls,        (* the command calls made of Hci                            *)
  Closers,      (* those of them that are the reset() of an Hci::shutdown() *)
  Opcode,       (* the opcode of each call                                  *)
  Packets,      (* the ACL packets AclSenders queue                         *)
  Handle,       (* the connection handle of each packet                     *)
  Handlers,     (* receivers registered for events                          *)
  NumBuffers,   (* total_num_acl_data_packets of the controller             *)
  MaxEvents,    (* bound: unsolicited events the controller emits           *)
  MaxNops,      (* bound: NOP CommandCompletes in the pipe at a time        *)
  MaxFaults,    (* bound: USB transfers that fail                           *)
  None

ASSUME CallsAssumption == Closers \subseteq Calls /\ None \notin Calls
ASSUME PacketsAssumption == IsFiniteSet(Packets) /\ Handle \in [Packets -> Nat]
ASSUME BoundsAssumption == /\ NumBuffers \in Nat
                           /\ MaxEvents \in Nat
                           /\ MaxNops \in Nat
                           /\ MaxFaults \in Nat

VARIABLES
  status,       (* the oneshot of each call, as its caller sees it          *)
  answer,       (* history: the call whose response a call was given        *)
  shutdown,     (* progress of each Hci::shutdown()                         *)
  taken,        (* whether shutdown() took the loop's JoinHandle            *)
  cmdQueue,     (* the channel of commands                                  *)
  outstanding,  (* State::outstanding_command                               *)
  ctlQueue,     (* the channel of control messages                          *)
  handlers,     (* State::hci_event_handlers                                *)
  live,         (* handlers whose receiver still exists                     *)
  inbox,        (* the events a handler was sent                            *)
  maxInFlight,  (* State::max_in_flight                                     *)
  inFlight,     (* State::in_flight                                         *)
  packet,       (* where each ACL packet is                                 *)
  drift,        (* history: credits that events about several connections   *)
                (* kept back, or gave away if it is negative                *)
  held,         (* whether an Arc<Hci> still exists                         *)
  alive,        (* whether the loop is running                              *)
  controller,   (* commands the controller has not answered                 *)
  events,       (* the interrupt-in pipe                                    *)
  emitted,      (* unsolicited events emitted so far                        *)
  faults,       (* failed USB transfers so far                              *)
  missed        (* history: events lost to a failed interrupt-in transfer   *)

caller == <<status, answer, shutdown, taken>>
queues == <<cmdQueue, outstanding, ctlQueue>>
receivers == <<handlers, live, inbox>>
acl == <<maxInFlight, inFlight, packet, drift>>
device == <<controller, events, emitted>>
usb == <<faults, missed>>
life == <<held, alive>>
vars == <<caller, queues, receivers, acl, life, device, usb>>

(***************************************************************************)
(* Messages.  A CommandComplete or CommandStatus names the call it answers *)
(* (None: an opcode no call has, such as the NOP that only updates the     *)
(* command quota); NumberOfCompletedPackets names the packets it counts    *)
(* and lists the connections they were sent on, in any order.              *)
(***************************************************************************)
Response(c) == [kind |-> "response", call |-> c]
Connections(S) == {Handle[p] : p \in S}
Completed(S, list) == [kind |-> "completed", packets |-> S, handles |-> list]
Other(n) == [kind |-> "other", id |-> n]

Completions ==
  {e \in [kind : {"completed"}, packets : SUBSET Packets, handles : Seq(Nat)] :
     e.packets # {} /\ e.handles \in SetToSeqs(Connections(e.packets))}

Event == {Response(c) : c \in Calls \cup {None}}
           \cup Completions
           \cup {Other(n) : n \in 1..MaxEvents}

Register(h) == [kind |-> "register", handler |-> h]
SetMax == [kind |-> "setmax"]
Shutdown == [kind |-> "shutdown"]
Control == {SetMax, Shutdown} \cup {Register(h) : h \in Handlers}

Queued == {cmdQueue[i] : i \in 1..Len(cmdQueue)}
At(places) == {p \in Packets : packet[p] \in places}

(* Packets whose buffer the controller has not handed back to the loop. *)
Unreturned == At({"usb", "buffered", "reported", "lost"})

(***************************************************************************)
(* Hci::new has returned: the handle exists, nothing is outstanding and    *)
(* SetMaxInFlightAclPackets is on its way.                                 *)
(***************************************************************************)
Init ==
  /\ status = [c \in Calls |-> "new"]
  /\ answer = [c \in Calls |-> None]
  /\ shutdown = [c \in Closers |-> "idle"]
  /\ taken = FALSE
  /\ cmdQueue = <<>>
  /\ outstanding = None
  /\ ctlQueue = <<SetMax>>
  /\ handlers = {}
  /\ live = {}
  /\ inbox = [h \in Handlers |-> <<>>]
  /\ maxInFlight = 0
  /\ inFlight = 0
  /\ packet = [p \in Packets |-> "new"]
  /\ drift = 0
  /\ held = TRUE
  /\ alive = TRUE
  /\ controller = {}
  /\ events = <<>>
  /\ emitted = 0
  /\ faults = 0
  /\ missed = {}

-----------------------------------------------------------------------------
(* The API.                                                                *)

(* The send half of call_with_args: it fails at once on a closed channel. *)
Enqueue(c) ==
  /\ held
  /\ status[c] = "new"
  /\ status' = [status EXCEPT ![c] = IF alive THEN "waiting" ELSE "closed"]
  /\ cmdQueue' = IF alive THEN Append(cmdQueue, c) ELSE cmdQueue
  /\ UNCHANGED <<answer, outstanding, ctlQueue, receivers, acl, life, device, usb>>

Call(c) ==
  /\ c \notin Closers
  /\ Enqueue(c)
  /\ UNCHANGED <<shutdown, taken>>

(* The caller drops the future it was awaiting; nothing here times out. *)
Cancel(c) ==
  /\ status[c] = "waiting"
  /\ status' = [status EXCEPT ![c] = "dropped"]
  /\ shutdown' = [s \in Closers |-> IF s = c THEN "failed" ELSE shutdown[s]]
  /\ UNCHANGED <<answer, taken, queues, receivers, acl, life, device, usb>>

(* shutdown() takes the JoinHandle before it resets the controller. *)
BeginShutdown(c) ==
  /\ shutdown[c] = "idle"
  /\ ~taken
  /\ Enqueue(c)
  /\ taken' = TRUE
  /\ shutdown' = [shutdown EXCEPT ![c] = "resetting"]

(* "Another thread already called shutdown": logged, and Ok is returned. *)
ShutdownAgain(c) ==
  /\ shutdown[c] = "idle"
  /\ held
  /\ taken
  /\ shutdown' = [shutdown EXCEPT ![c] = "already"]
  /\ UNCHANGED <<status, answer, taken, queues, receivers, acl, life, device, usb>>

(* Mutant: the Shutdown message is forgotten. *)
SendShutdown_NoMessage(c) ==
  /\ shutdown[c] = "resetting"
  /\ status[c] = "ok"
  /\ alive
  /\ shutdown' = [shutdown EXCEPT ![c] = "joining"]
  /\ UNCHANGED <<status, answer, taken, queues, receivers, acl, life, device, usb>>

(* reset()? succeeded and the loop still listens: ask it to stop. *)
SendShutdown(c) ==
  /\ shutdown[c] = "resetting"
  /\ status[c] = "ok"
  /\ alive
  /\ ctlQueue' = Append(ctlQueue, Shutdown)
  /\ shutdown' = [shutdown EXCEPT ![c] = "joining"]
  /\ UNCHANGED <<status, answer, taken, cmdQueue, outstanding, receivers, acl, life, device, usb>>

(* reset()? failed (a USB error, a closed loop, a bad status), or the loop *)
(* closed meanwhile: shutdown() returns the error and the handle is gone.  *)
FailShutdown(c) ==
  /\ shutdown[c] = "resetting"
  /\ status[c] \in {"ok", "failed", "closed"}
  /\ shutdown' = [shutdown EXCEPT ![c] = "failed"]
  /\ UNCHANGED <<status, answer, taken, queues, receivers, acl, life, device, usb>>

Joined(c) ==
  /\ shutdown[c] = "joining"
  /\ ~alive
  /\ shutdown' = [shutdown EXCEPT ![c] = "done"]
  /\ UNCHANGED <<status, answer, taken, queues, receivers, acl, life, device, usb>>

(* The last Arc<Hci> goes: no call or shutdown borrows it any more. *)
DropHci ==
  /\ held
  /\ \A c \in Calls : status[c] # "waiting"
  /\ \A c \in Closers : shutdown[c] \notin {"resetting", "joining"}
  /\ held' = FALSE
  /\ UNCHANGED <<caller, queues, receivers, acl, alive, device, usb>>

(* register_event_handler *)
RegisterHandler(h) ==
  /\ held
  /\ alive
  /\ h \notin live \cup handlers
  /\ inbox[h] = <<>>
  /\ \A i \in 1..Len(ctlQueue) : ctlQueue[i] # Register(h)
  /\ ctlQueue' = Append(ctlQueue, Register(h))
  /\ live' = live \cup {h}
  /\ UNCHANGED <<caller, cmdQueue, outstanding, handlers, inbox, acl, life, device, usb>>

DropHandler(h) ==
  /\ h \in live
  /\ live' = live \ {h}
  /\ UNCHANGED <<caller, queues, handlers, inbox, acl, life, device, usb>>

(* One chunk of AclSender::send; the order of the queue is AclTransfer's. *)
SendAcl(p) ==
  /\ packet[p] = "new"
  /\ packet' = [packet EXCEPT ![p] = IF alive THEN "queued" ELSE "dropped"]
  /\ UNCHANGED <<caller, queues, receivers, maxInFlight, inFlight, drift, life, device, usb>>

-----------------------------------------------------------------------------
(* The arms of the loop's select!.                                         *)

Fail == faults < MaxFaults /\ faults' = faults + 1

(* Tell the caller of c the outcome, unless it dropped its receiver. *)
Resolve(c, outcome) ==
  status' = [status EXCEPT ![c] = IF @ = "waiting" THEN outcome ELSE @]

TakeCommand ==
  /\ alive
  /\ outstanding = None
  /\ cmdQueue # <<>>
  /\ cmdQueue' = Tail(cmdQueue)
  /\ outstanding' = Head(cmdQueue)
  /\ controller' = controller \cup {Head(cmdQueue)}
  /\ UNCHANGED <<caller, ctlQueue, receivers, acl, life, events, emitted, usb>>

(* Mutant: the slot is filled before the transfer's result is known. *)
TakeCommandFails_KeepsSlot ==
  /\ alive
  /\ outstanding = None
  /\ cmdQueue # <<>>
  /\ Fail
  /\ cmdQueue' = Tail(cmdQueue)
  /\ Resolve(Head(cmdQueue), "failed")
  /\ outstanding' = Head(cmdQueue)
  /\ UNCHANGED <<answer, shutdown, taken, ctlQueue, receivers, acl, life, device, missed>>

(* control_out failed: the caller gets the error, nothing is outstanding. *)
TakeCommandFails ==
  /\ alive
  /\ outstanding = None
  /\ cmdQueue # <<>>
  /\ Fail
  /\ cmdQueue' = Tail(cmdQueue)
  /\ Resolve(Head(cmdQueue), "failed")
  /\ UNCHANGED <<answer, shutdown, taken, outstanding, ctlQueue, receivers, acl, life, device, missed>>

OutstandingDropped ==
  /\ alive
  /\ outstanding # None
  /\ status[outstanding] = "dropped"
  /\ outstanding' = None
  /\ UNCHANGED <<caller, cmdQueue, ctlQueue, receivers, acl, life, device, usb>>

(* Mutant: a response completes whatever command is outstanding. *)
Matches_AnyOpcode(d) == outstanding # None /\ d # None

(* Whether a response to call d is taken for the outstanding command. *)
Matches(d) ==
  /\ outstanding # None
  /\ d # None
  /\ Opcode[d] = Opcode[outstanding]

(* Mutant: take() without putting an unmatched command back. *)
OnResponse_NotPutBack ==
  LET d == Head(events).call IN
  /\ outstanding' = None
  /\ IF Matches(d)
     THEN /\ Resolve(outstanding, "ok")
          /\ answer' = [answer EXCEPT ![outstanding] = d]
     ELSE UNCHANGED <<status, answer>>
  /\ UNCHANGED <<shutdown, taken, cmdQueue, ctlQueue, receivers, acl>>

(* CommandComplete / CommandStatus in process_hci_event; a response that   *)
(* matches nothing is UnexpectedCommandResponse and the command stays.     *)
OnResponse ==
  LET d == Head(events).call IN
  /\ IF Matches(d)
     THEN /\ outstanding' = None
          /\ Resolve(outstanding, "ok")
          /\ answer' = [answer EXCEPT ![outstanding] = d]
     ELSE UNCHANGED <<outstanding, status, answer>>
  /\ UNCHANGED <<shutdown, taken, cmdQueue, ctlQueue, receivers, acl>>

SaturatingSub(a, b) == IF a > b THEN a - b ELSE 0

(* The event is a list of pairs of words, a handle and its count. *)
Word(e, k) ==
  LET h == e.handles[(k + 1) \div 2]
  IN IF k % 2 = 1 THEN h ELSE Cardinality({p \in e.packets : Handle[p] = h})

(* The loop takes the first half of the words for the handles, which it    *)
(* does not look at, and the second half for the counts: of several pairs  *)
(* some counts are skipped and some handles are added up.                  *)
Credited(e) ==
  LET n == Len(e.handles)
  IN Cardinality(UNION {{k} \X (1..Word(e, k)) : k \in (n + 1)..(2 * n)})

(* History: exact are the events about one connection, of which no more    *)
(* packets are reported than were counted.                                 *)
Drifts(e) ==
  LET n == Cardinality(e.packets)
  IN drift' = IF Len(e.handles) = 1 /\ n <= inFlight THEN drift ELSE drift + n - (inFlight - inFlight')

(* Mutant: one credit per event, whatever its counts. *)
OnCompleted_OnePerEvent ==
  LET e == Head(events) IN
  /\ inFlight' = SaturatingSub(inFlight, 1)
  /\ packet' = [p \in Packets |-> IF p \in e.packets THEN "returned" ELSE packet[p]]
  /\ Drifts(e)
  /\ UNCHANGED <<caller, queues, receivers, maxInFlight>>

(* NumberOfCompletedPackets. *)
OnCompleted ==
  LET e == Head(events) IN
  /\ inFlight' = SaturatingSub(inFlight, Credited(e))
  /\ packet' = [p \in Packets |-> IF p \in e.packets THEN "returned" ELSE packet[p]]
  /\ Drifts(e)
  /\ UNCHANGED <<caller, queues, receivers, maxInFlight>>

(* Mutant: a handler is in the table twice. *)
Dispatch_Twice ==
  LET n == Head(events).id IN
  /\ inbox' = [h \in Handlers |-> IF h \in handlers \cap live
                                  THEN inbox[h] \o <<n, n>> ELSE inbox[h]]
  /\ handlers' = handlers \cap live
  /\ UNCHANGED <<caller, queues, live, acl>>

(* DispatchExt::dispatch keeps the handlers whose receiver still exists. *)
Dispatch ==
  LET n == Head(events).id IN
  /\ inbox' = [h \in Handlers |-> IF h \in handlers \cap live
                                  THEN Append(inbox[h], n) ELSE inbox[h]]
  /\ handlers' = handlers \cap live
  /\ UNCHANGED <<caller, queues, live, acl>>

HandleEvent ==
  /\ alive
  /\ events # <<>>
  /\ events' = Tail(events)
  /\ \/ Head(events).kind = "response" /\ OnResponse
     \/ Head(events).kind = "completed" /\ OnCompleted
     \/ Head(events).kind = "other" /\ Dispatch
  /\ UNCHANGED <<life, controller, emitted, usb>>

(* "Error reading HCI event": the event is gone, the buffer is resubmitted. *)
EventTransferFails ==
  /\ alive
  /\ events # <<>>
  /\ Fail
  /\ events' = Tail(events)
  /\ missed' = missed \cup {Head(events)}
  /\ packet' = [p \in Packets |->
                 IF Head(events).kind = "completed" /\ p \in Head(events).packets
                 THEN "lost" ELSE packet[p]]
  /\ UNCHANGED <<caller, queues, receivers, maxInFlight, inFlight, drift, life, controller, emitted>>

(* Mutant: the comparison lets one packet too many through. *)
TakeAcl_OffByOne(p) ==
  /\ alive
  /\ packet[p] = "queued"
  /\ inFlight <= maxInFlight
  /\ inFlight' = inFlight + 1
  /\ packet' = [packet EXCEPT ![p] = "usb"]
  /\ UNCHANGED <<caller, queues, receivers, maxInFlight, drift, life, device, usb>>

(* Mutant: the last buffer is never used. *)
TakeAcl_SparesOne(p) ==
  /\ alive
  /\ packet[p] = "queued"
  /\ inFlight + 1 < maxInFlight
  /\ inFlight' = inFlight + 1
  /\ packet' = [packet EXCEPT ![p] = "usb"]
  /\ UNCHANGED <<caller, queues, receivers, maxInFlight, drift, life, device, usb>>

(* The acl_receiver arm: any queued packet, if a credit is left. *)
TakeAcl(p) ==
  /\ alive
  /\ packet[p] = "queued"
  /\ inFlight < maxInFlight
  /\ inFlight' = inFlight + 1
  /\ packet' = [packet EXCEPT ![p] = "usb"]
  /\ UNCHANGED <<caller, queues, receivers, maxInFlight, drift, life, device, usb>>

(* Mutant: a command whose response is outstanding is not told. *)
Exit_KeepsOutstanding ==
  /\ alive' = FALSE
  /\ status' = [c \in Calls |-> IF c \in Queued /\ status[c] = "waiting" THEN "closed" ELSE status[c]]
  /\ cmdQueue' = <<>>
  /\ outstanding' = None
  /\ ctlQueue' = <<>>
  /\ handlers' = {}
  /\ packet' = [p \in Packets |-> IF packet[p] = "queued" THEN "dropped" ELSE packet[p]]
  /\ UNCHANGED <<answer, shutdown, taken, live, inbox, maxInFlight, inFlight, drift, held, device, usb>>

(* The loop returns: its channels and the outstanding oneshot are dropped. *)
Exit ==
  /\ alive' = FALSE
  /\ status' = [c \in Calls |-> IF c \in Queued \cup {outstanding} /\ status[c] = "waiting"
                                THEN "closed" ELSE status[c]]
  /\ cmdQueue' = <<>>
  /\ outstanding' = None
  /\ ctlQueue' = <<>>
  /\ handlers' = {}
  /\ packet' = [p \in Packets |-> IF packet[p] = "queued" THEN "dropped" ELSE packet[p]]
  /\ UNCHANGED <<answer, shutdown, taken, live, inbox, maxInFlight, inFlight, drift, held, device, usb>>

(* A receiver yields None: the Hci is gone and its channel is drained.  The *)
(* ACL channel also needs every AclSender gone (a new packet has a sender). *)
ChannelClosed ==
  /\ alive
  /\ ~held
  /\ \/ ctlQueue = <<>>
     \/ cmdQueue = <<>> /\ outstanding = None
     \/ At({"new", "queued"}) = {} /\ inFlight < maxInFlight
  /\ Exit

HandleCtl ==
  /\ alive
  /\ ctlQueue # <<>>
  /\ LET msg == Head(ctlQueue) IN
     IF msg = Shutdown
     THEN Exit
     ELSE /\ ctlQueue' = Tail(ctlQueue)
          /\ handlers' = IF msg.kind = "register" THEN handlers \cup {msg.handler} ELSE handlers
          /\ maxInFlight' = IF msg = SetMax THEN NumBuffers ELSE maxInFlight
          /\ UNCHANGED <<caller, cmdQueue, outstanding, live, inbox, inFlight, packet, drift,
                         life, device, usb>>

-----------------------------------------------------------------------------
(* The controller and the USB pipes.                                       *)

(* A command is answered once, in any order among those it holds. *)
Answer(c) ==
  /\ c \in controller
  /\ controller' = controller \ {c}
  /\ events' = Append(events, Response(c))
  /\ UNCHANGED <<caller, queues, receivers, acl, life, emitted, usb>>

(* An event for the registered handlers. *)
Emit ==
  /\ emitted < MaxEvents
  /\ emitted' = emitted + 1
  /\ events' = Append(events, Other(emitted + 1))
  /\ UNCHANGED <<caller, queues, receivers, acl, life, controller, usb>>

(* A CommandComplete that answers no command. *)
EmitNop ==
  /\ Cardinality({i \in 1..Len(events) : events[i] = Response(None)}) < MaxNops
  /\ events' = Append(events, Response(None))
  /\ UNCHANGED <<caller, queues, receivers, acl, life, controller, emitted, usb>>

(* A bulk-out transfer ends; its completion only logs an error. *)
AclDelivered(p) ==
  /\ packet[p] = "usb"
  /\ packet' = [packet EXCEPT ![p] = "buffered"]
  /\ UNCHANGED <<caller, queues, receivers, maxInFlight, inFlight, drift, life, device, usb>>

AclWriteFails(p) ==
  /\ packet[p] = "usb"
  /\ Fail
  /\ packet' = [packet EXCEPT ![p] = "lost"]
  /\ UNCHANGED <<caller, queues, receivers, maxInFlight, inFlight, drift, life, device, missed>>

Complete(S) ==
  /\ S # {}
  /\ S \subseteq At({"buffered"})
  /\ packet' = [p \in Packets |-> IF p \in S THEN "reported" ELSE packet[p]]
  /\ \E list \in SetToSeqs(Connections(S)) : events' = Append(events, Completed(S, list))
  /\ UNCHANGED <<caller, queues, receivers, maxInFlight, inFlight, drift, life, controller, emitted, usb>>

(* A disconnection flushes the buffers of its handle: they are free again, *)
(* the host is told of the disconnection alone (NumberOfCompletedPackets   *)
(* never counts them).                                                     *)
Flush(h) ==
  /\ \E p \in At({"buffered"}) : Handle[p] = h
  /\ packet' = [p \in Packets |-> IF packet[p] = "buffered" /\ Handle[p] = h
                                  THEN "lost" ELSE packet[p]]
  /\ UNCHANGED <<caller, queues, receivers, maxInFlight, inFlight, drift, life, device, usb>>

-----------------------------------------------------------------------------
LoopStep == \/ TakeCommand \/ TakeCommandFails \/ OutstandingDropped
            \/ HandleEvent \/ EventTransferFails \/ HandleCtl \/ ChannelClosed
            \/ \E p \in Packets : TakeAcl(p)

ApiStep == \/ DropHci
           \/ \E c \in Calls : Call(c) \/ Cancel(c)
           \/ \E c \in Closers : \/ BeginShutdown(c) \/ ShutdownAgain(c) \/ SendShutdown(c)
                                 \/ FailShutdown(c) \/ Joined(c)
           \/ \E h \in Handlers : RegisterHandler(h) \/ DropHandler(h)
           \/ \E p \in Packets : SendAcl(p)

DeviceStep == \/ \E c \in Calls : Answer(c)
              \/ Emit \/ EmitNop
              \/ \E p \in Packets : AclDelivered(p) \/ AclWriteFails(p) \/ Flush(Handle[p])
              \/ \E S \in SUBSET Packets : Complete(S)

Next == LoopStep \/ ApiStep \/ DeviceStep

Spec == Init /\ [][Next]_vars

(***************************************************************************)
(* select! starts polling at a random arm, so an arm that stays ready is   *)
(* taken; a transfer ends; the controller answers what it holds and        *)
(* completes what it buffers; a task whose future is ready is polled.      *)
(* Nobody has to make a call, cancel one, or drop a handler.               *)
(***************************************************************************)
Fairness ==
  /\ WF_vars(TakeCommand \/ TakeCommandFails)
  /\ WF_vars(OutstandingDropped)
  /\ WF_vars(HandleEvent \/ EventTransferFails)
  /\ WF_vars(HandleCtl)
  /\ WF_vars(ChannelClosed)
  /\ WF_vars(\E p \in Packets : TakeAcl(p))
  /\ \A c \in Calls : WF_vars(Answer(c))
  /\ \A c \in Closers : WF_vars(SendShutdown(c) \/ FailShutdown(c))
  /\ WF_vars(\E p \in Packets : AclDelivered(p) \/ AclWriteFails(p))
  /\ WF_vars(\E S \in SUBSET Packets : Complete(S))

FairSpec == Spec /\ Fairness

-----------------------------------------------------------------------------
Place == {"new", "queued", "dropped", "usb", "buffered", "reported", "returned", "lost"}

(* The type of every variable. *)
TypeOK ==
  /\ status \in [Calls -> {"new", "waiting", "ok", "failed", "closed", "dropped"}]
  /\ answer \in [Calls -> Calls \cup {None}]
  /\ shutdown \in [Closers -> {"idle", "resetting", "joining", "done", "failed", "already"}]
  /\ taken \in BOOLEAN
  /\ cmdQueue \in Seq(Calls)
  /\ outstanding \in Calls \cup {None}
  /\ ctlQueue \in Seq(Control)
  /\ handlers \subseteq Handlers
  /\ live \subseteq Handlers
  /\ inbox \in [Handlers -> Seq(1..MaxEvents)]
  /\ maxInFlight \in {0, NumBuffers}
  /\ inFlight \in 0..NumBuffers
  /\ packet \in [Packets -> Place]
  /\ drift \in Int
  /\ held \in BOOLEAN
  /\ alive \in BOOLEAN
  /\ controller \subseteq Calls
  /\ events \in Seq(Event)
  /\ emitted \in 0..MaxEvents
  /\ faults \in 0..MaxFaults
  /\ missed \subseteq Event

(***************************************************************************)
(* A call is only ever given another call's response when some call with   *)
(* that opcode was cancelled: responses are matched by opcode, and the     *)
(* slot is freed (outstanding_command_dropped) while the controller still  *)
(* owes the cancelled command's response.                                  *)
(***************************************************************************)
Explained(c) == \E e \in Calls : status[e] = "dropped" /\ Opcode[e] = Opcode[c]

StaleOnlyAfterCancel ==
  \A c \in Calls : answer[c] \notin {None, c} => Explained(c)

(***************************************************************************)
(* The sender of a call that still waits is held by the queue or by the    *)
(* slot: no unexpected response, USB error, cancellation of another call   *)
(* or exit of the loop loses it without an outcome.                        *)
(***************************************************************************)
NoOrphanedCall ==
  \A c \in Calls : status[c] = "waiting" => c \in Queued \cup {outstanding}

(***************************************************************************)
(* Every call returns (an answer, an error, EventLoopClosed) unless the    *)
(* response the loop is waiting for was lost: then, there being no         *)
(* timeout, it waits for as long as its caller does.                       *)
(***************************************************************************)
Blocked == outstanding # None /\ Response(outstanding) \in missed

CallsReturn ==
  \A c \in Calls : status[c] = "waiting" ~> (status[c] # "waiting" \/ Blocked)

(***************************************************************************)
(* shutdown() that reports success (or that another call is at it) is      *)
(* followed by the loop's end, unless the call that took the handle fails: *)
(* nobody can stop the loop after that.                                    *)
(***************************************************************************)
ShutdownHonoured ==
  \A c \in Closers :
    shutdown[c] \in {"joining", "already"}
      ~> (~alive \/ Blocked \/ \E s \in Closers : shutdown[s] = "failed")

(***************************************************************************)
(* The credit count is exact, whatever is cancelled, flushed, lost on the  *)
(* way or returned late, but for the events about several connections:     *)
(* in_flight is the number of packets handed to USB whose completion the   *)
(* loop has not read, and what those events left over (drift).             *)
(***************************************************************************)
CreditsExact == inFlight = Cardinality(Unreturned) + drift

(***************************************************************************)
(* The controller is never sent more packets than it has buffers for: what *)
(* the limit of in_flight is there for (event_loop.rs:97).                 *)
(***************************************************************************)
BuffersRespected == Cardinality(At({"usb", "buffered"})) <= NumBuffers

(***************************************************************************)
(* It is not, as long as those events have not given away more credits     *)
(* than they kept back.                                                    *)
(***************************************************************************)
BuffersKept == drift >= 0 => BuffersRespected

(***************************************************************************)
(* Queued packets are sent unless every credit is gone: to disconnections, *)
(* whose flushed packets nobody counts, to failed transfers, and to events *)
(* about several connections.  The loop then never sends again.            *)
(***************************************************************************)
AclDrains ==
  At({"queued"}) # {}
    ~> (At({"queued"}) = {} \/ Cardinality(At({"lost"})) + drift >= maxInFlight)

(***************************************************************************)
(* A handler sees the controller's events in order and, from its first to  *)
(* its last, all of them but those lost on the USB pipe.                   *)
(***************************************************************************)
HandlersMissNothing ==
  \A h \in Handlers : \A i \in 1..(Len(inbox[h]) - 1) :
    /\ inbox[h][i] < inbox[h][i + 1]
    /\ \A n \in (inbox[h][i] + 1)..(inbox[h][i + 1] - 1) : Other(n) \in missed

(***************************************************************************)
(* The loop is a service of calls: each caller is told once, by success or *)
(* failure, and all that wait are told when the loop ends, after which     *)
(* nothing succeeds.                                                       *)
(***************************************************************************)
Outcome(s) == IF s = "new" THEN "new"
              ELSE IF s = "waiting" THEN "pending"
              ELSE IF s = "ok" THEN "succeeded"
              ELSE IF s = "dropped" THEN "abandoned" ELSE "failed"

Service == INSTANCE CallService WITH outcome <- [c \in Calls |-> Outcome(status[c])],
                                     closed <- ~alive

ImplementsService == Service!Spec

=============================================================================
