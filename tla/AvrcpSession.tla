---------------------------- MODULE AvrcpSession ----------------------------
(***************************************************************************)
(* An AVRCP session (avrcp/mod.rs, avrcp/session.rs) over AVCTP: the task  *)
(* that runs State::run, the application that calls AvrcpSession, and the  *)
(* peer, which answers commands and sends its own.                         *)
(*                                                                         *)
(* The session has a label for each command it has sent and not seen the   *)
(* last answer of, and for each notification it waits for.  Every message  *)
(* arrives in order; what the session sends is the peer's at once, which   *)
(* takes its time to answer instead.  A message is a record of what the    *)
(* session looks at, with the call it is about so that answers can be      *)
(* traced; the bytes of an answer are the calls whose answers they are of. *)
(* The commands of a session are those its API sends: pass-through,        *)
(* status, and registration (the Control arm of process_message has no     *)
(* sender in the crate).                                                   *)
(***************************************************************************)
EXTENDS Naturals, Sequences, FiniteSets

CONSTANTS
  Calls,          (* the commands callers send                              *)
  Kind,           (* "pass", "status" or "register"                         *)
  Pdu,            (* the PDU of a status call's answer                      *)
  Frame,          (* the operation and state of a pass-through              *)
  After,          (* the call a call is made after (Released: Pressed)      *)
  NumLabels,      (* transaction labels: 16                                 *)
  CommandSlots,   (* capacity of the channel of commands: 16                *)
  EventSlots,     (* capacity of the channel of events: 16                  *)
  MaxVolume,      (* MAX_VOLUME                                             *)
  MaxCommands,    (* bound: commands of the peer                            *)
  PeerCommands,   (* what the peer may ask for: <<kind, argument>>          *)
  MaxMoves,       (* bound: calls, and all else both sides do unasked       *)
  None

ASSUME AvrcpAssumption ==
  /\ Kind \in [Calls -> {"pass", "status", "register"}]
  /\ None \notin Calls
  /\ NumLabels \in Nat \ {0} /\ CommandSlots \in Nat \ {0} /\ EventSlots \in Nat \ {0}
  /\ MaxVolume \in Nat /\ MaxCommands \in Nat /\ MaxMoves \in Nat
  /\ None \notin 0..(MaxVolume + 1) /\ None \notin 1..MaxCommands
  /\ \A k \in PeerCommands : /\ k[1] \in {"query", "register", "press", "setvolume", "overlong"}
                             /\ k[1] = "press" => k[2] \in 0..(NumLabels - 1)
                             /\ k[1] \in {"setvolume", "overlong"} => k[2] \in Nat

VARIABLES
  status,      (* what each caller has been told                            *)
  answer,      (* history: the calls whose answers a call was given         *)
  running,     (* whether State::run runs                                   *)
  linkUp,      (* whether sending on the channel works                      *)
  held,        (* whether the application still has its AvrcpSession        *)
  commands,    (* State::commands                                           *)
  transaction, (* State::outstanding_transactions                           *)
  assembler,   (* State::response_assembler: PDU and what it holds          *)
  volume,      (* State::volume                                             *)
  registered,  (* State::registered_notifications: the peer's transaction   *)
  events,      (* State::events                                             *)
  appVolume,   (* the application's volume                                  *)
  inbox,       (* messages on their way to the session                      *)
  holds,       (* commands the peer has not finished with                   *)
  asked,       (* the peer's own commands                                   *)
  peerVolume,  (* the volume the peer was last told                         *)
  moves,       (* what both sides have done unasked                         *)
  stranded,    (* history: labels no answer is ever going to free           *)
  taken,       (* history: pass-throughs ended by a command of the peer     *)
  mixed,       (* history: two fragmented answers were under way at a time  *)
  diverged,    (* history: a volume change was dropped, or two crossed      *)
  uninformed   (* history: whom nobody told of the volume a rejected        *)
               (* command has set: "peer", "application"                    *)

caller == <<status, answer>>
volumes == <<volume, registered>>
peer == <<holds, asked, peerVolume>>
history == <<stranded, taken, mixed, diverged, uninformed>>
vars == <<caller, running, linkUp, held, commands, transaction, assembler, volumes, events, appVolume,
          inbox, peer, moves, history>>

Labels == 0..(NumLabels - 1)
Volumes == 0..MaxVolume

Empty == [state |-> "empty", call |-> None]
Transaction == {Empty} \cup [state : {"pass", "status", "register", "change"}, call : Calls]

(* What the channel of commands carries. *)
Request(c) == [kind |-> "call", call |-> c]
Update(v) == [kind |-> "volume", volume |-> v]

(* What the channel of events carries. *)
Changed(c) == [kind |-> "changed", call |-> c]
VolumeChanged(v) == [kind |-> "volume", volume |-> v]

(* Answers to the session: last (or interim, of a registration), or a part. *)
Reply(l, c, code) == [kind |-> "reply", label |-> l, call |-> c, code |-> code]
Part(type, l, c) == [kind |-> type, label |-> l, call |-> c]

Carries(q, kind) == \E i \in 1..Len(q) : q[i].kind = kind

Init ==
  /\ status = [c \in Calls |-> "new"]
  /\ answer = [c \in Calls |-> {}]
  /\ running = TRUE
  /\ linkUp = TRUE
  /\ held = TRUE
  /\ commands = <<>>
  /\ transaction = [l \in Labels |-> Empty]
  /\ assembler = [pdu |-> None, of |-> {}]
  /\ volume = MaxVolume
  /\ registered = None
  /\ events = <<>>
  /\ appVolume = MaxVolume
  /\ inbox = <<>>
  /\ holds = {}
  /\ asked = [n \in 1..MaxCommands |-> "unused"]
  /\ peerVolume = None
  /\ moves = 0
  /\ stranded = {}
  /\ taken = {}
  /\ mixed = FALSE
  /\ diverged = FALSE
  /\ uninformed = {}

-----------------------------------------------------------------------------
(* The application.  A call on a full channel waits for room.              *)

Move == moves < MaxMoves /\ moves' = moves + 1

Call(c) ==
  /\ Move
  /\ held
  /\ status[c] = "new"
  /\ After[c] # None => status[After[c]] = "ok"
  /\ running => Len(commands) < CommandSlots
  /\ status' = [status EXCEPT ![c] = IF running THEN "waiting" ELSE "closed"]
  /\ commands' = IF running THEN Append(commands, Request(c)) ELSE commands
  /\ UNCHANGED <<answer, running, linkUp, held, transaction, assembler, volumes, events, appVolume,
                 inbox, peer, history>>

Cancel(c) ==
  /\ Move
  /\ status[c] = "waiting"
  /\ status' = [status EXCEPT ![c] = "dropped"]
  /\ UNCHANGED <<answer, running, linkUp, held, commands, transaction, assembler, volumes, events,
                 appVolume, inbox, peer, history>>

NotifyLocalVolumeChange(v) ==
  /\ Move
  /\ held
  /\ running
  /\ Len(commands) < CommandSlots
  /\ appVolume' = v
  /\ commands' = Append(commands, Update(v))
  /\ diverged' = (diverged \/ Carries(events, "volume"))
  /\ UNCHANGED <<caller, running, linkUp, held, transaction, assembler, volumes, events,
                 inbox, peer, stranded, taken, mixed, uninformed>>

NextEvent ==
  /\ held
  /\ events # <<>>
  /\ events' = Tail(events)
  /\ appVolume' = IF Head(events).kind = "volume" THEN Head(events).volume ELSE appVolume
  /\ UNCHANGED <<caller, running, linkUp, held, commands, transaction, assembler, volumes,
                 inbox, peer, moves, history>>

(* It is borrowed by the calls that wait. *)
DropSession ==
  /\ Move
  /\ held
  /\ \A c \in Calls : status[c] # "waiting"
  /\ held' = FALSE
  /\ UNCHANGED <<caller, running, linkUp, commands, transaction, assembler, volumes, events,
                 appVolume, inbox, peer, history>>

-----------------------------------------------------------------------------
(* State::run.  It polls the channel first, the commands when it is empty. *)

(* send_avrcp, send_avc: a command, the request for the rest of an answer, *)
(* and the response to a command of the peer.                              *)
SendCall(l, c) ==
  holds' = IF linkUp THEN holds \cup {[label |-> l, call |-> c, stage |-> "held"]} ELSE holds

SendContinue(l) ==
  holds' = IF linkUp
           THEN {IF e.label = l /\ e.stage = "started" THEN [e EXCEPT !.stage = "rest"] ELSE e : e \in holds}
           ELSE holds

Respond(n, outcome, v) ==
  /\ asked' = IF linkUp THEN [asked EXCEPT ![n] = outcome] ELSE asked
  /\ peerVolume' = IF linkUp /\ v # None THEN v ELSE peerVolume

Tell(c, result) ==
  status' = [status EXCEPT ![c] = IF @ = "waiting" THEN result ELSE @]

(* Mutant: a label that waits for a change is taken for a free one. *)
Free_UntilChange == {l \in Labels : transaction[l].state \in {"empty", "change"}}

Free == {l \in Labels : transaction[l] = Empty}
First(S) == CHOOSE l \in S : \A k \in S : l <= k

NextCommand ==
  /\ running
  /\ inbox = <<>>
  /\ commands # <<>>
  /\ commands' = Tail(commands)
  /\ UNCHANGED moves

(* A call with a label: the transaction exists once the command is sent. *)
SendCommand ==
  /\ NextCommand
  /\ Head(commands).kind = "call"
  /\ Free # {}
  /\ LET c == Head(commands).call
         l == First(Free) IN
     /\ SendCall(l, c)
     /\ IF linkUp
        THEN /\ transaction' = [transaction EXCEPT ![l] = [state |-> Kind[c], call |-> c]]
             /\ UNCHANGED status
        ELSE /\ Tell(c, "closed")
             /\ UNCHANGED transaction
  /\ UNCHANGED <<answer, running, linkUp, held, assembler, volumes, events, appVolume, inbox, asked,
                 peerVolume, history>>

(* Without a free label a call fails, and a volume change is forgotten. *)
NoTransactionId ==
  /\ NextCommand
  /\ Free = {}
  /\ IF Head(commands).kind = "call"
     THEN /\ Tell(Head(commands).call, "nolabel")
          /\ UNCHANGED diverged
     ELSE /\ diverged' = TRUE
          /\ UNCHANGED status
  /\ UNCHANGED <<answer, running, linkUp, held, transaction, assembler, volumes, events, appVolume,
                 inbox, peer, stranded, taken, mixed, uninformed>>

(* Mutant: a new volume is kept without telling a registered peer. *)
UpdatedVolume_Silent ==
  /\ NextCommand
  /\ Head(commands).kind = "volume"
  /\ Free # {}
  /\ volume' = Head(commands).volume
  /\ uninformed' = uninformed \ {"application"}
  /\ UNCHANGED <<caller, running, linkUp, held, transaction, assembler, registered, events, appVolume,
                 inbox, peer, stranded, taken, mixed, diverged>>

UpdatedVolume ==
  /\ NextCommand
  /\ Head(commands).kind = "volume"
  /\ Free # {}
  /\ LET v == Head(commands).volume IN
     /\ volume' = v
     /\ IF v # volume /\ registered # None
        THEN /\ Respond(registered, "done", v)
             /\ registered' = None
             /\ uninformed' = {}
        ELSE /\ uninformed' = uninformed \ {"application"}
             /\ UNCHANGED <<asked, peerVolume, registered>>
  /\ UNCHANGED <<caller, running, linkUp, held, transaction, assembler, events, appVolume, inbox, holds,
                 stranded, taken, mixed, diverged>>

NextMessage(kinds) ==
  /\ running
  /\ inbox # <<>>
  /\ Head(inbox).kind \in kinds
  /\ inbox' = Tail(inbox)
  /\ UNCHANGED moves

(* try_send: a full queue, or an application that is gone, drops the event. *)
TriggerEvent(e) ==
  /\ events' = IF held /\ Len(events) < EventSlots THEN Append(events, e) ELSE events
  /\ diverged' = (diverged \/ /\ e.kind = "volume"
                              /\ Len(events) >= EventSlots \/ Carries(commands, "volume"))

(* The answer of a pass-through; its frame is compared by the caller. *)
PassThroughReply ==
  /\ NextMessage({"reply"})
  /\ Kind[Head(inbox).call] = "pass"
  /\ LET m == Head(inbox)
         t == transaction[m.label] IN
     IF t.state = "pass"
     THEN /\ transaction' = [transaction EXCEPT ![m.label] = Empty]
          /\ answer' = [answer EXCEPT ![t.call] = {m.call}]
          /\ Tell(t.call, IF m.code = "ok" /\ Frame[m.call] = Frame[t.call] THEN "ok" ELSE "error")
     ELSE UNCHANGED <<transaction, caller>>
  /\ UNCHANGED <<running, linkUp, held, commands, assembler, volumes, events, appVolume, peer, history>>

(* A pass-through command of the peer: only its label is looked at.  Its   *)
(* code is none a pass-through may end with, and no answer is sent.        *)
PassThroughCommand ==
  /\ NextMessage({"press"})
  /\ LET l == Head(inbox).arg
         t == transaction[l] IN
     IF t.state = "pass"
     THEN /\ transaction' = [transaction EXCEPT ![l] = Empty]
          /\ Tell(t.call, "error")
          /\ taken' = taken \cup {t.call}
     ELSE UNCHANGED <<transaction, status, taken>>
  /\ UNCHANGED <<answer, running, linkUp, held, commands, assembler, volumes, events, appVolume, peer,
                 stranded, mixed, diverged, uninformed>>

(* Mutant: the label of a finished status call is not freed. *)
Complete_KeepsLabel(l, code, data) ==
  LET t == transaction[l] IN
  /\ IF t.state \in {"status", "register"}
     THEN /\ answer' = [answer EXCEPT ![t.call] = data]
          /\ Tell(t.call, IF code = "ok" THEN "ok" ELSE "error")
     ELSE UNCHANGED caller
  /\ transaction' = CASE t.state = "register" -> [transaction EXCEPT ![l].state = "change"]
                      [] t.state = "change" -> [transaction EXCEPT ![l] = Empty]
                      [] OTHER -> transaction
  /\ IF t.state = "change" /\ code = "changed"
     THEN TriggerEvent(Changed(t.call))
     ELSE UNCHANGED <<events, diverged>>
  /\ stranded' = IF t.state = "register" /\ code # "ok" THEN stranded \cup {l} ELSE stranded

(* A whole vendor dependent response for label l.  take_sender leaves a    *)
(* registration waiting for a change, whatever its answer was.             *)
Complete(l, code, data) ==
  LET t == transaction[l] IN
  /\ IF t.state \in {"status", "register"}
     THEN /\ answer' = [answer EXCEPT ![t.call] = data]
          /\ Tell(t.call, IF code = "ok" THEN "ok" ELSE "error")
     ELSE UNCHANGED caller
  /\ transaction' = CASE t.state = "register" -> [transaction EXCEPT ![l].state = "change"]
                      [] t.state \in {"status", "change"} -> [transaction EXCEPT ![l] = Empty]
                      [] OTHER -> transaction
  /\ IF t.state = "change" /\ code = "changed"
     THEN TriggerEvent(Changed(t.call))
     ELSE UNCHANGED <<events, diverged>>
  /\ stranded' = IF t.state = "register" THEN IF code # "ok" THEN stranded \cup {l} ELSE stranded
                 ELSE IF t.state \in {"status", "change"} THEN stranded \ {l} ELSE stranded

(* CommandAssembler::process_msg, a Single packet: what was there is lost. *)
VendorReply ==
  /\ NextMessage({"reply"})
  /\ LET m == Head(inbox) IN
     /\ Kind[m.call] # "pass"
     /\ Complete(m.label, m.code, {m.call})
  /\ assembler' = [pdu |-> None, of |-> {}]
  /\ UNCHANGED <<running, linkUp, held, commands, volumes, appVolume, peer, taken, mixed, uninformed>>

(* A Start packet, whatever was there: the rest is asked for. *)
VendorStart ==
  /\ NextMessage({"start"})
  /\ LET m == Head(inbox) IN
     /\ assembler' = [pdu |-> Pdu[m.call], of |-> {m.call}]
     /\ SendContinue(m.label)
  /\ UNCHANGED <<caller, running, linkUp, held, commands, transaction, volumes, events, appVolume, asked,
                 peerVolume, history>>

(* An End packet: an error unless the PDU is that of the Start; then the   *)
(* packet is ignored, and the label stays.                                 *)
VendorEnd ==
  /\ NextMessage({"end"})
  /\ LET m == Head(inbox) IN
     IF assembler.pdu = Pdu[m.call]
     THEN /\ assembler' = [pdu |-> None, of |-> {}]
          /\ Complete(m.label, "ok", assembler.of \cup {m.call})
     ELSE /\ stranded' = IF transaction[m.label].state = "status" THEN stranded \cup {m.label} ELSE stranded
          /\ UNCHANGED <<assembler, caller, transaction, events, diverged>>
  /\ UNCHANGED <<running, linkUp, held, commands, volumes, appVolume, peer, taken, mixed, uninformed>>

(* GetCapabilities, UnitInfo, SubunitInfo; a PDU, an event or an opcode    *)
(* that is not supported; or parameters that are too short, or too long    *)
(* for anything but a volume: answered, or rejected, at once.              *)
AnswerQuery ==
  /\ NextMessage({"query"})
  /\ Respond(Head(inbox).tx, "done", None)
  /\ UNCHANGED <<caller, running, linkUp, held, commands, transaction, assembler, volumes, events, appVolume,
                 holds, history>>

(* One registration at a time; the interim response carries the volume. *)
RegisterNotification ==
  /\ NextMessage({"register"})
  /\ IF registered # None
     THEN /\ Respond(Head(inbox).tx, "done", None)
          /\ UNCHANGED <<registered, uninformed>>
     ELSE /\ Respond(Head(inbox).tx, "registered", volume)
          /\ registered' = Head(inbox).tx
          /\ uninformed' = uninformed \ {"peer"}
  /\ UNCHANGED <<caller, running, linkUp, held, commands, transaction, assembler, volume, events, appVolume,
                 holds, stranded, taken, mixed, diverged>>

(* MAX_VOLUME.min(..); a registered peer is not sent a Changed for it.     *)
SetAbsoluteVolume ==
  /\ NextMessage({"setvolume"})
  /\ volume' = IF Head(inbox).arg > MaxVolume THEN MaxVolume ELSE Head(inbox).arg
  /\ Respond(Head(inbox).tx, "done", volume')
  /\ TriggerEvent(VolumeChanged(volume'))
  /\ uninformed' = {}
  /\ UNCHANGED <<caller, running, linkUp, held, commands, transaction, assembler, registered, appVolume,
                 holds, stranded, taken, mixed>>

(* The same with more bytes than a volume: it is set before finish() fails, *)
(* and the answer is an error that tells neither side of it.               *)
OverlongVolume ==
  /\ NextMessage({"overlong"})
  /\ volume' = IF Head(inbox).arg > MaxVolume THEN MaxVolume ELSE Head(inbox).arg
  /\ Respond(Head(inbox).tx, "done", None)
  /\ uninformed' = IF volume' = volume THEN uninformed ELSE {"peer", "application"}
  /\ UNCHANGED <<caller, running, linkUp, held, commands, transaction, assembler, registered, events,
                 appVolume, holds, stranded, taken, mixed, diverged>>

(* Mutant: the commands still queued keep their senders. *)
Held_ButQueued == {transaction[l].call : l \in {k \in Labels : transaction[k].state \notin {"empty", "change"}}}

(* The calls whose sender the task holds. *)
Held == {transaction[l].call : l \in {k \in Labels : transaction[k].state \notin {"empty", "change"}}}
          \cup {commands[i].call : i \in {j \in 1..Len(commands) : commands[j].kind = "call"}}

(* run returns, and its State is dropped with every sender it holds; what  *)
(* the peer still does for it is of no use.                                *)
End ==
  /\ running' = FALSE
  /\ status' = [c \in Calls |-> IF c \in Held /\ status[c] = "waiting" THEN "closed" ELSE status[c]]
  /\ commands' = <<>>
  /\ transaction' = [l \in Labels |-> Empty]
  /\ inbox' = <<>>
  /\ stranded' = {}
  /\ holds' = {}
  /\ UNCHANGED <<answer, linkUp, held, assembler, volumes, events, appVolume, asked, peerVolume,
                 moves, taken, mixed, diverged, uninformed>>

(* read() yields None: the peer has closed the channel, or L2CAP is gone. *)
ChannelClosed ==
  /\ running
  /\ \/ inbox # <<>> /\ Head(inbox).kind = "close"
     \/ inbox = <<>> /\ ~linkUp
  /\ End

(* recv() yields None. *)
SessionDropped ==
  /\ running
  /\ ~held
  /\ inbox = <<>>
  /\ commands = <<>>
  /\ End

-----------------------------------------------------------------------------
(* The peer, and the link.                                                 *)

CanSend == running /\ linkUp /\ ~Carries(inbox, "close")

PeerSends(m) ==
  /\ CanSend
  /\ inbox' = Append(inbox, m)
  /\ UNCHANGED <<caller, running, linkUp, held, commands, transaction, assembler, volumes, events, appVolume,
                 peerVolume, stranded, taken, diverged, uninformed>>

(* An interim answer to a registration leaves it subscribed. *)
PeerAnswer(e, code) ==
  /\ e.stage = "held"
  /\ PeerSends(Reply(e.label, e.call, code))
  /\ holds' = (holds \ {e}) \cup (IF Kind[e.call] = "register" /\ code = "ok"
                                  THEN {[e EXCEPT !.stage = "subscribed"]} ELSE {})
  /\ UNCHANGED <<asked, moves, mixed>>

PeerChange(e) ==
  /\ e.stage = "subscribed"
  /\ PeerSends(Reply(e.label, e.call, "changed"))
  /\ holds' = holds \ {e}
  /\ UNCHANGED <<asked, moves, mixed>>

(* A long answer goes in two parts, the second when it is asked for. *)
PeerStart(e) ==
  /\ Kind[e.call] = "status"
  /\ e.stage = "held"
  /\ PeerSends(Part("start", e.label, e.call))
  /\ holds' = (holds \ {e}) \cup {[e EXCEPT !.stage = "started"]}
  /\ mixed' = (mixed \/ \E d \in holds : d.stage \in {"started", "rest"})
  /\ UNCHANGED <<asked, moves>>

PeerFinish(e) ==
  /\ e.stage = "rest"
  /\ PeerSends(Part("end", e.label, e.call))
  /\ holds' = holds \ {e}
  /\ UNCHANGED <<asked, moves, mixed>>

PeerCommand(n, kind, arg) ==
  /\ Move
  /\ asked[n] = "unused"
  /\ \A k \in 1..(n - 1) : asked[k] # "unused"
  /\ PeerSends([kind |-> kind, tx |-> n, arg |-> arg])
  /\ asked' = [asked EXCEPT ![n] = IF kind = "press" THEN "unanswered" ELSE "sent"]
  /\ UNCHANGED <<holds, mixed>>

HangUp ==
  /\ Move
  /\ PeerSends([kind |-> "close"])
  /\ UNCHANGED <<holds, asked, mixed>>

LinkDown ==
  /\ Move
  /\ linkUp
  /\ linkUp' = FALSE
  /\ UNCHANGED <<caller, running, held, commands, transaction, assembler, volumes, events, appVolume,
                 inbox, peer, history>>

-----------------------------------------------------------------------------
SessionStep == \/ SendCommand \/ NoTransactionId \/ UpdatedVolume
               \/ PassThroughReply \/ PassThroughCommand
               \/ VendorReply \/ VendorStart \/ VendorEnd
               \/ AnswerQuery \/ RegisterNotification \/ SetAbsoluteVolume \/ OverlongVolume
               \/ ChannelClosed \/ SessionDropped

PeerWorks(l, c) == \E e \in holds : /\ e.label = l /\ e.call = c
                                    /\ \/ \E code \in {"ok", "rejected"} : PeerAnswer(e, code)
                                       \/ PeerStart(e)
                                       \/ PeerFinish(e)

Next == \/ SessionStep
        \/ \E c \in Calls : Call(c) \/ Cancel(c)
        \/ \E v \in Volumes : NotifyLocalVolumeChange(v)
        \/ NextEvent \/ DropSession
        \/ HangUp \/ LinkDown
        \/ \E e \in holds : PeerChange(e)
        \/ \E l \in Labels, c \in Calls : PeerWorks(l, c)
        \/ \E n \in 1..MaxCommands : \E k \in PeerCommands : PeerCommand(n, k[1], k[2])

Spec == Init /\ [][Next]_vars

(***************************************************************************)
(* The task of the session is polled when a message or a command is there; *)
(* the peer answers what it was asked.                                     *)
(***************************************************************************)
Fairness == /\ WF_vars(SessionStep)
            /\ WF_vars(\E l \in Labels, c \in Calls : PeerWorks(l, c))

FairSpec == Spec /\ Fairness

-----------------------------------------------------------------------------
Holding == [label : Labels, call : Calls, stage : {"held", "started", "rest", "subscribed"}]

(* The type of every variable but the queues. *)
TypeOK ==
  /\ status \in [Calls -> {"new", "waiting", "ok", "error", "nolabel", "closed", "dropped"}]
  /\ answer \in [Calls -> SUBSET Calls]
  /\ running \in BOOLEAN /\ linkUp \in BOOLEAN /\ held \in BOOLEAN
  /\ transaction \in [Labels -> Transaction]
  /\ assembler.of \subseteq Calls
  /\ volume \in Volumes /\ appVolume \in Volumes /\ peerVolume \in Volumes \cup {None}
  /\ registered \in 1..MaxCommands \cup {None}
  /\ Len(commands) <= CommandSlots /\ Len(events) <= EventSlots
  /\ moves \in 0..MaxMoves
  /\ holds \subseteq Holding
  /\ asked \in [1..MaxCommands -> {"unused", "sent", "registered", "unanswered", "done"}]
  /\ stranded \subseteq Labels /\ taken \subseteq Calls
  /\ mixed \in BOOLEAN /\ diverged \in BOOLEAN /\ uninformed \subseteq {"peer", "application"}

(***************************************************************************)
(* A call is given the answer to its own command, whatever labels are      *)
(* reused meanwhile.  Two things break it: a pass-through command of the   *)
(* peer ends a pass-through of ours with its label, whose answer then      *)
(* comes for a later call; and two fragmented answers under way at a time  *)
(* are told apart by their PDU alone.                                      *)
(***************************************************************************)
RepliesBelong ==
  \A c \in Calls : answer[c] \subseteq {c} \/ (Kind[c] = "pass" /\ taken # {})
                                           \/ (Kind[c] = "status" /\ mixed)

(***************************************************************************)
(* Every label that is not free belongs to a command whose answer (or, for *)
(* a registration, whose change) can still come, but for two leaks: the    *)
(* label of a registration the peer refused, and that of an answer whose   *)
(* parts were interrupted.  Every command of the peer but a pass-through   *)
(* is being answered, and a registration it was granted is the one the     *)
(* session remembers until the change is sent.                             *)
(***************************************************************************)
OwnLabels ==
  running => \A l \in Labels : \/ transaction[l] = Empty
                               \/ l \in stranded
                               \/ \E e \in holds : e.label = l /\ e.call = transaction[l].call
                               \/ \E i \in 1..Len(inbox) :
                                    /\ inbox[i].kind \in {"reply", "start", "end"}
                                    /\ inbox[i].label = l /\ inbox[i].call = transaction[l].call

PeerTransactions ==
  running /\ linkUp => \A n \in 1..MaxCommands :
    /\ asked[n] = "sent" => \E i \in 1..Len(inbox) : /\ inbox[i].kind \in {k[1] : k \in PeerCommands}
                                                    /\ inbox[i].tx = n
    /\ asked[n] = "registered" <=> registered = n

TransactionsAccounted == OwnLabels /\ PeerTransactions

(***************************************************************************)
(* Volume.  A peer with a registration has been told the volume the        *)
(* session has.  Once what they have sent each other is read, the          *)
(* application has it too, unless a change was dropped (a full queue, no   *)
(* free label) or two changes crossed on their way.  A command that sets   *)
(* the volume and is rejected all the same tells neither: until the next   *)
(* volume each of them is sent or sends, it may have another.              *)
(***************************************************************************)
VolumeAgrees ==
  /\ running /\ linkUp /\ registered # None /\ "peer" \notin uninformed => peerVolume = volume
  /\ running /\ held /\ ~diverged /\ "application" \notin uninformed =>
       (~Carries(events, "volume") /\ ~Carries(commands, "volume") => appVolume = volume)

(***************************************************************************)
(* Every call returns, unless the parts of its answer were interrupted:    *)
(* its label is then never freed and its caller waits with it.             *)
(***************************************************************************)
CallsReturn ==
  \A c \in Calls : status[c] = "waiting"
                     ~> (status[c] # "waiting" \/ \E l \in stranded : transaction[l].call = c)

(***************************************************************************)
(* The session is a service of calls: each caller is told once, and all    *)
(* that wait are told when the session ends.                               *)
(***************************************************************************)
Outcome(s) == IF s = "new" THEN "new"
              ELSE IF s = "waiting" THEN "pending"
              ELSE IF s = "ok" THEN "succeeded"
              ELSE IF s = "dropped" THEN "abandoned" ELSE "failed"

Service == INSTANCE CallService WITH outcome <- [c \in Calls |-> Outcome(status[c])],
                                     closed <- ~running

ImplementsService == Service!Spec

=============================================================================
