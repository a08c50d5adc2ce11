# A formal model of bluefang

bluefang is a Bluetooth Classic host stack in Rust: it drives a USB controller
through HCI, speaks L2CAP on its ACL connections, and offers SDP, AVDTP/A2DP and
AVCTP/AVRCP on top, so that a phone can stream audio to it and be remote-controlled
by it. This directory holds TLA+ modules that model its core, TLC configurations
that check them on small instances, and theorems about them that TLAPS checks for
every value of the constants. Paths below are relative to `src/src/`.

Contents: 1 inventory; 2 modules and how they correspond to the code; 3 runs;
4 fairness; 5 proofs; 6 findings; 7 abstractions and what is left out; 8 what is left.

## 1. Inventory

How the parts interact. One tokio task (the *event loop*) owns the USB transport.
Everybody else reaches it through three unbounded channels (commands with a oneshot
for the answer, ACL packets, control messages) and hears from it through unbounded
channels registered as event or data handlers. The *L2CAP server* is such a handler: a
task that reassembles ACL packets, runs the signaling channel, keeps a table from
channel ids to the event queues of channels, and asks a *protocol handler* (SDP, AVDTP,
AVCTP) what to do with a peer's connection request. A *channel* is owned by a task of
its protocol, which polls the channel's queue inside every call it makes. The
*connection manager* is another event handler.

| Part | State | Operations | What is hard | What makes it correct |
|---|---|---|---|---|
| HCI event loop and API (`hci/event_loop.rs`, `hci/mod.rs`) | outstanding command, credit counters, handlers, the JoinHandle | call, shutdown, register, send ACL; five arms of a `select!` | cancelled callers, NOP and stale responses, USB failures, lost credits, events about several connections, shutdown races | answers go to their call, no call is lost, credits exact, buffers respected, every call ends |
| ACL fragments (`hci/acl.rs`, `hci/mod.rs`) | per connection: buffer, expected length, in-progress flag | cut and queue chunk by chunk; push | clones of the sender on one connection, lost packets | what comes out is a PDU that went in, in order |
| L2CAP channel (`l2cap/channel.rs`) | state machine, ids, event queue | connect, accept, reject, configure, write, read, disconnect, drop | both ends configure at once; drop and disconnect at any time; events polled inside calls | open means open at both ends, nothing lost, everybody finishes |
| L2CAP server (`l2cap/mod.rs`, `l2cap/signaling.rs`) | connections, table of channels, shared id counter | new_channel, deliver data and signaling | stale entries, reuse of ids, ids of the peer taken for own ones, failed disconnections, order of data and events, racing id requests | packets reach the channel they were sent to; ids distinct |
| Connection manager (`hci/connection.rs`) | link key table, file | pairing events, save in the background | unordered saves, crash in a save | what a restart reads was current |
| SDP server (`sdp/`) | per channel: rest of a long answer | three requests, continuation | continuation of another request | the pieces put together are the answer |
| AVDTP (`avdtp/`) | session per connection, streams, endpoint locks, a oneshot per opening stream | handle, signals, stream processing, end of session | two critical sections, hand-over by another task, lost channels, connect() racing the peer | endpoints locked by one stream, the right channel in each stream, no stale entry |
| AVCTP and AVRCP (`avctp/`, `avrcp/`) | fragments; 16 transaction labels, notifications, volume; the set of handles that have a session | passthrough, vendor commands, notifications | labels exhausted, queue of events full, stale registrations, fragments that mix, tasks that outlive their link | every command answered once, labels freed, volume agreed on, a handle free again when its session ends |
| Firmware loader (`firmware/`) | position in the patch | download loop | wrap of the index; commands that fail | the patch of the chip, whole and in order, its last fragment marked; the index after the wrap as the comment has it (it is not: finding 6) |
| Encodings (data elements, configuration options, AV/C addresses, capabilities) | none | read, write, length | lengths at the limits of their prefixes, parts taken for the whole | what is written is read back |
| USB host, sniffer log, HCI command builders, A2DP tables, utilities | none or pure I/O | | | |

`PROJECT.json` lists the parts with their files and, under "hazards", each behaviour
that is hard to test, at its line, with the properties that cover it.

## 2. Modules

Each definition has its source lines in `PROJECT.json` ("map"). Operators whose name
has an underscore (`TakeAcl_OffByOne`) are deliberate bugs that show that a property can
fail; no specification uses them.

**HciEventLoop.** One step is one turn of the loop's `select!`, one call of the API
or one step of the controller. `TakeCommand`, `TakeCommandFails`, `OutstandingDropped`,
`HandleEvent`/`EventTransferFails`, `HandleCtl`, `TakeAcl` and `AclDelivered`/
`AclWriteFails` are the arms; `ChannelClosed` and `Exit` the ends. `OnResponse`,
`OnCompleted` and `Dispatch` are the branches of `process_hci_event`. `Call`, `Cancel` (the
future is dropped), `BeginShutdown`, `SendShutdown`, `FailShutdown`, `ShutdownAgain`,
`RegisterHandler`, `SendAcl`, `DropHci` are the API. `Answer`, `Emit`, `EmitNop`,
`Complete` and `Flush` are the controller. Each call and packet is a value of its own and
is used once, so that `answer` and `packet` can trace a response or a credit to what it
belongs to. A NumberOfCompletedPackets event lists the connections it is about in any order,
and `Credited` is what the loop makes of it: it reads the pairs of handle and count as a list
of handles and a list of counts, so of two pairs it takes the second handle for a count.
`drift` is what such events keep back or give away; only properties read it.
`HciEventLoop_proof` holds its theorems, `MCHciEventLoop` its instances.

**CallService.** What a task that answers calls promises: `Ask`, `Answer` (once, with
success or failure), `Abandon` (the caller's future is dropped) and `Close`, which tells
every caller that waits. The crate relies on it in two places, and both are shown to
implement it: the event loop behind `Hci::call` (`HciEventLoop!Service`) and the AVRCP
session behind the methods of `AvrcpSession` (`AvrcpSession!Service`).

**AclTransfer.** `SendChunk` is one iteration of the loop in `AclSender::send`; the queue
and the link are one FIFO for all connections; `LosePacket` is the failed USB transfer that
the event loop only logs; `PushPacket` finds the assembler of the connection and does all
of `AclDataAssembler::push` (`Push`, `Buffered`). `TransferSpec` is its specification: the
names carry the component so that MCWire can extend it. `AclTransfer_proof` holds its
theorems.

**L2capChannel.** Two hosts run the same code on one link with a FIFO in each direction.
An end of a connection is a Channel with the call its task is in (`op`). `Deliver` is the
server's side (`OnConnectionRequest`, `Forward`, `FinalMsg`, with the table of channels);
`Connect`, `Configure`, `Reconfigure`, `Write`, `WriteTimesOut`, `Disconnect`, `Drop` are the
task's calls; `Poll` and `PollClosed` take one event from the channel's queue inside the call
that polls it. `Reaction` is the big match of `poll_events` (next state, replies), `OpAfter`
where the call goes on from there. `L2capChannel_proof` holds its theorems.

**SignalingIds, IdCounter.** `next()` as its atomic load (`ReadCounter`) and its loop
around `compare_exchange_weak` (`Exchange`, `ExchangeFails`), which may fail spuriously;
`IdCounter` is the atomic counter it promises to be, and `Atomic` (INSTANCE with the same
variables) the refinement. `SignalingIds` proves it, in the module itself.

**AvdtpSession.** `Lookup`, `Insert` and `TakeSender` are the critical sections of
`handle()`: the server runs it for the peer's channels one at a time, tasks of `connect()`
run theirs meanwhile. `StartSession`/`StartFails` and `HandOver`/`ConfigureFails` are the
thread of a session and the task of a transport channel. `SetConfiguration`, `Open`, `Start`,
`Suspend`, `CloseStream` and `Abort` are the signals that change a stream; `StreamEnds`,
`Receive`, `Panic` (the `expect` on the oneshot) and `EndLoop` the rest of the session's
loop; `RemoveEntry` and `DropSession` are its end. The peer connects a signaling channel when
it has none, a transport channel for a stream it opened, and hangs up. `want` records what
the peer made a channel for, and `overlapped` whether a session opened a stream while another
opening was incomplete; only properties read them. `AvdtpSession_proof` holds its theorems.

**L2capServer.** The server against links and protocol tasks. The controller brings links
up and down (`LinkUp`, `LinkDown`; a link is a *life* of its connection handle), or fails
to (`LinkStays`), and peers send (`PeerSends`), among the rest the answers to the
DisconnectionRequests of channels that tasks dropped (`Closing`). `phase` is what `poll`
drains: `PacketsDone` and `EventsDone` switch between the queue of packets and the queue of
events. `ConnectionComplete`, `DisconnectionComplete` and `ModeChange` are `handle_event`;
`UnknownConnectionHandle`, `EchoRequest`, `RefuseConnection`, `NoResources`, `NewChannel`,
`ChannelData`, `DisconnectRequest` and `DisconnectResponse` the branches of `handle_data`
and of the signaling handlers. `Configured`, `ConfigureFails` and `SessionEnds` are the
tasks of SDP and AVRCP, whose `existing_connections` is `existing`. `DisconnectResponse`
forgets the channel whose id is the peer's id in the response, whose ever it is (finding
1); `told` is what has ended the queue of a task. Lives, task numbers, what a packet is
meant for, `answered` and `forgotten` (links whose disconnection failed) are history that
the code cannot see. `Host_proof` holds its theorems.

**ConnectionManager.** One task that answers pairing events, and its link keys.
`LinkKeyNotification` changes the table and spawns a save; a save is `SaveOpens` (open and
truncate) and `SaveWrites` (write a snapshot from offset 0), or `SaveFails` part-way, and
several saves may run at once. `Crash` loses the table and leaves any prefix of an open
write; `Start` reads the file, and refuses one that ends within an entry.
`LinkKeyRequest`, `ConnectionRequest` and `PairingRequest` are answered, `Ignored` is not,
`PasskeyPanics` is the `todo!`. `ManagerSpec` is its specification: the names carry the
component so that MCHost can extend it together with the others, and the runs check the
very definitions the theorems of `Host_proof` are about.

**MCHost** puts the two long-lived listeners of a host and the id counter side by side
(`subject` is the one a behaviour is about: they share no state).

**AvrcpSession.** The application, one `State::run` and the peer. `SessionStep` is one turn
of `run`'s loop: a command of the application (`SendCommand`, `NoTransactionId`,
`UpdatedVolume`), a message of the peer (`PassThroughReply`, `PassThroughCommand`,
`VendorReply`, `VendorStart` and `VendorEnd` for the parts of a fragmented answer,
`AnswerQuery`, `RegisterNotification`, `SetAbsoluteVolume` and `OverlongVolume`, whose
volume is set before the command is rejected), or an end (`ChannelClosed`,
`SessionDropped`). The application's actions are `Call`, `Cancel`,
`NotifyLocalVolumeChange`, `NextEvent` and `DropSession`; the peer's `PeerAnswer`,
`PeerStart`, `PeerFinish` (together `PeerWorks`), `PeerChange`, `PeerCommand`, `HangUp` and
`LinkDown`. Both channels are bounded: a full channel of commands makes the caller wait, a
full channel of events drops the event. `stranded`, `taken`, `mixed`, `diverged` and
`uninformed` record the situations in which the code loses track; only properties read
them. `AvrcpSession_proof` holds its theorems.

**The wire modules.** What goes over the wire in other words than it was said:
- `DataElements` (SDP data elements and their lengths), `ConfigOptions` (L2CAP options),
  `AvcFrames` (AV/C subunit addresses), `Capabilities` (AVDTP) are encoders and decoders as
  operators, with the property that they are inverse up to named exceptions. Text and
  payloads are lengths.
- `Reassembly` has the senders and the assemblers of AVDTP, AVCTP and AVRCP packets with
  their packet counts; messages may be abandoned half-way and packets lost.
- `SdpServer` has the three requests and the continuation of long answers, for several
  clients on one channel. What the answers are is a constant of it, since the buffer and the
  continuation are the same for any; `SdpAnswers` computes them from the records
  (patterns, lists of ids, the attributes they pick out), and `ServiceRecords` has the
  records of the example, built as the code builds them.
- `RealtekFirmware` finds the driver row of a chip, the patch in the file and sends it in
  fragments; `memory` is what the chip has received.
- `MCWire` gives them all their instances and puts them, with AclTransfer, side by side;
  `subject` is the part a behaviour is about. As in MCHost the specifications are named
  after their component (`SdpSpec`, `AssemblySpec`, `LoaderSpec`, `TransferSpec`), so that the run checks
  the very definitions the theorems of `Wire_proof` are about.

## 3. Runs

Sizes are distinct states.

| Run | Instance | Shows |
|---|---|---|
| hci_commands (199k) | two plain calls that share an opcode, two shutdowns, one fault, NOPs | `StaleOnlyAfterCancel`: a call gets another's response only after a call with that opcode was cancelled. `NoOrphanedCall`: a waiting call is in the queue or in the slot. `CallsReturn`: every call ends unless the response it waits for was lost (there is no timeout). `ShutdownHonoured`: a shutdown that reports success is followed by the end of the loop, unless the call that took the handle fails. `ImplementsService`: the loop is a `CallService` |
| hci_acl (82k) | three packets, two connections, two buffers, one fault, one handler | `TypeOK`; `CreditsExact`: in_flight is the number of packets whose completion was not read, but for what events about both connections left over; `BuffersKept`: the controller has room for every packet it is sent, unless such events gave credits away; `AclDrains`: queued packets go out unless all credits were lost to flushes, faults and such events; `HandlersMissNothing` |
| hci_two_connections | six packets, two connections, three buffers, no fault | violated: `BuffersRespected` (finding 17) |
| l2cap_channel (50k) | one connection, equal ids, one reconfiguration, two writes | `OpenAgrees`, `NothingLost`, `HandshakeCompletes`, `PeerLearns`, `DisconnectCompletes` |
| l2cap_two_channels (3.3M) | two connections opened from one side; ids 64, 65 at one host and 65, 66 at the other; either closed from one end | `MisdeliveredOnlyOnReuse`: a packet reaches another channel only if an id was handed out again, that of the channel it was written to or that of its writer. `UnregisteredOnlyByCollision`: a server forgets a channel that nobody closed only by taking an id of the peer for its own |
| l2cap_disconnect | as l2cap_channel, other ids | violated: `DisconnectCompletes` (finding 1) |
| acl_shared | two tasks, one connection, no loss | violated: `NeverInterrupted` (finding 2) |
| avdtp_session (1.1M, up to symmetry) | three channels of the peer, one of connect(), two endpoints, one hang-up | `EndpointsLocked`: an endpoint is in use exactly while one stream has it; `ChannelsMatchStates`; `RightChannel`; `EntryMatchesSession`; `PanicsExplained`; `OpeningServable` (all explained at their definitions) |
| avrcp_session (92k) | six calls (pass-throughs, queries, registrations), two labels, queues of one, three commands of the peer, three unasked moves | `RepliesBelong`: a call is given the answers to itself, unless a command of the peer took its label. `TransactionsAccounted`: a label that is not free has somebody who will free it. `VolumeAgrees`: peer and application have the session's volume, but for one that a rejected command has set. `CallsReturn`; `ImplementsService` |
| wire (74k) | two tasks that send, a connection each, PDUs of one to three chunks, two losses; element, option and capability samples at every boundary; two SDP clients, five requests; messages of one to three packets under loss; every driver row, three kinds of file | `NeverInterrupted`; `AssembledWhole`: with one loss at most, push() returns whole PDUs of the task, each once at most and in the order sent; `AllArrive`. `RoundTrips`: what is written is read back, and no part of it is taken for the whole. `AnswersWhole`: a client that continues gets exactly its list. `AssembledIsSent`: what an assembler returns was sent, and what lost nothing is returned (with the exceptions its two parts name). `FirmwareLoads`: one row per chip, fragments of the right patch in order, with indices that count up to the last before the wrap, the last fragment marked |
| firmware_index | the parts of wire | violated: `WrapAddsOne` (finding 6) |
| host (2.4M, up to symmetry) | three devices, three keys, two crashes; three tasks, four signaling ids, eight requests; two handles, two channel ids, queues of two, and five links, failed disconnections and packets together (two links at most, four packets at most) | `KeysSurvive`: after a restart the key is the one last given, unless saves overlapped or were cut short, and never another device's. `DistinctInARound`: four consecutive ids differ; `Atomic`: the counter is an atomic one. `HandlesAccounted`: channel ids and AVRCP handles lead to the task that has them, until the peer disconnects it or a DisconnectionResponse names its id, and come free. `DataReachesConnection`: a packet is handled for the link and by the task it is meant for |

Why the bounds are enough. Two calls with one opcode are what a mismatch takes, two
shutdowns what a race takes, and a fault or NOP can fall at any step. Three packets exceed
two buffers, so the limit is met, and two connections separate a flush from the rest. One
of them has handle 0 and the other handle 2, so an event about both gives credits away or
keeps one back by the order it lists them in; three buffers and six packets are what it
takes for the loop to use those given away. Handles are in no way special: any above 0 will
do. A PDU of three chunks has a first, a middle and a last one; two losses can hit both
sides of a PDU boundary. Overlapping ids are what it takes for an id of the peer to be
taken for an own one, two connections opened by the host with the lower ids what it takes
for one of its ids to be handed out again while the answer to the first request is under
way, and one write of the right end what a misdelivery takes. Eight requests for four ids
are two full rounds. In avdtp_session a connection has a signaling channel and two
transport channels, or two signaling channels in succession, and a session of connect() at
the same time; signals may be sent any number of times (nothing bounds the cycle of
configure, open, abort), only the channels and the hang-ups are counted. Channels of the
peer are interchangeable, as are the endpoints, so the symmetry is sound for its
invariants. In avrcp_session two labels run out with three calls and queues of one fill at
once; three moves let a command, a cancel and a change cross in any order. In wire each
list of samples has the values on both sides of each length prefix and range; the packet
count overflows at 4 where the code's does at 255, and the fragment number starts again at
3 where the code's does at 128. In host two lives of one handle are a reconnection, two ids
run out with three channels, three packets are a request, data and one more behind it, four
packets on one link two channels of which one is closed from here while the other is asked
for; three keys let two saves overlap with a third waiting, and two crashes hit a save and
the start after it.

`CHECK_DEADLOCK FALSE` is set everywhere because every instance may rightly stop: the
calls are used up, the loop has ended, the channels are closed, the bounds of the peer or
the controller are reached.

Several properties hold only with an exception that is part of the statement. The
exceptions are facts about the code, each a counterexample first: a cancelled call, lost
credits, connect(); in HciEventLoop `drift` (finding 17: the exception that the theorem
`OneConnectionExact` shows to be void with one connection); in AvrcpSession `taken`
(finding 8), `stranded` (finding 9, and an answer whose parts another answer interrupted,
which `mixed` records) and `diverged` (a volume change dropped on a full queue or for want
of a label, or two that crossed) and `uninformed` (finding 11); in Reassembly `clean` and
`panicked` (finding 12); in SdpServer `disturbed` (another request came between the pieces
of an answer); in ConnectionManager `overlapped` (saves are not ordered) and `cutShort` (a
crash or a full disk in a save); in L2capServer `leaked` (an AVRCP task that ended before
its session ran), `told` (finding 1) and `forgotten` (a failed disconnection). Where a line
of the repository says that the exception should not be, a violation run or a finding has
it.

## 4. Fairness

Only where liveness is checked. HciEventLoop: weak fairness of each arm of the loop. The
arms of tokio's `select!` are polled in random order, so an arm that stays ready is
taken; the controller answers commands and reports completed packets; nobody has to call,
cancel or register. L2capChannel: the server task delivers, the task that owns a channel
keeps polling inside its call, and `write` times out; nobody has to connect, write, quit
or reconfigure. AclTransfer: the sending tasks and the receiver go on. AvrcpSession: weak
fairness of `SessionStep` (the session's task runs while it has something to do) and of the
peer answering what it was asked; nobody has to call, cancel, change the volume or read
events. Losses, faults and hang-ups are never fair.

## 5. Proofs

All for arbitrary constants, under the named assumptions of the modules (finite sets of
packets, bounds that are naturals, `None` not a call). Those of the wire modules are facts of
the formats: the number of packets of a message fits the byte it is counted in
(`SizesAssumption`), a maximum is a number (`MaximumAssumption`), an answer is a sequence
(`AnswersAssumption`), versions, lengths and ids are naturals and a patch is no shorter than
what is read at its end (`ChipsAssumption`, `FirmwaresAssumption`), fragments and their
numbers are not empty (`FragmentsAssumption`); and a name that stands for "none" is no
other's (`TagsAssumption`, `AnswersAssumption`). Together the theorems state every safety
invariant and action property that a run checks, but for `RoundTrips`.

*HciEventLoop_proof.*
`TypeCorrect` is inductive by itself. It includes `inFlight <= NumBuffers`, which needs
`TakeAcl`'s guard and `maxInFlight \in {0, NumBuffers}`.

`ResponsesMatch` (`StaleOnlyAfterCancel`) needs to know why a response that arrives
belongs to the call in the slot. `CallInv` strengthens it with `OnceInv` (a call is in the
queue or in the slot or with the controller or answered in the pipe at most once, and not
before it is sent) and `OwedInv` (every command that the controller still owes an answer
is in the slot, or a call with its opcode was cancelled). Without `OwedInv` the property is
not inductive: a state with two owed commands of one opcode satisfies it, and the next
response breaks it. The lemmas go by what a step does to the state (append to the queue,
pop an event, take, drop, answer, exit), and `NextCallInv` assembles them, one step per
action.

`CallsKeepTheirSender` (`NoOrphanedCall`) is inductive together with the types.

`CreditsAreExact` and `BuffersSuffice` (`BuffersKept`) rest on `CreditInv` = `CreditsExact`
and `ReportedInv`: the completions in the pipe are disjoint sets of packets that are in the
state "reported", so no packet is counted twice. For an event about one connection `Credited`
is the number of its packets; for any other, and for one that
reports more than is counted by now, `drift` takes the difference, so the balance is kept
whatever the handles are. `OneConnectionExact` needs no balance: if all packets have one
handle, every list has length one, `drift` stays 0, in_flight is the number of packets not
returned, saturating_sub never saturates and `BuffersRespected` holds.

`HandlersGetAll` (`HandlersMissNothing`) rests on `EventInv`: the events for handlers in the
pipe are the latest emitted, in order and without a gap (`PipeInv`), and a listening handler
that got an event is in the table and has got all since, or they are coming or in `missed`
(`HandlerInv`).

`ServiceImplemented` shows that the loop implements `CallService`. A response maps to
`Answer`, a dropped future to `Abandon`, and `Exit` to `Close`; the last one needs
`NoOrphanedCall`, since only callers whose sender is in the queue or in the slot learn of
the end.

*AvrcpSession_proof.* `CallersHeld` proves `CallInv`: the types of what calls touch, and
`WaitersHeld`: while the session runs, a caller that waits has its sender in the queue of
commands or in a transaction. The lemmas go by how a step changes queue and labels (a command
taken, a label filled, a label freed). `ServiceImplemented` follows the pattern of the event
loop: a step that ends the session drops all senders, hence is `Close`.

The other properties rest on `LabelInv`. What carries a label (a command the peer holds, an
answer on its way) is for the call that has the label now, unless a pass-through command of
the peer took it (`taken`); and a label has one such thing, or two that belong together: the
first part of an answer and the request for the rest, or the interim answer to a
registration and the change after it. So no answer meets a later call with its label.
`AnswersBelong` adds `FragmentInv` (one fragmented answer is under way at a time, and the
assembler has nothing of another, unless `mixed`). `TransactionsAreAccounted` takes the
labels from `LabelInv` and adds `AskInv` (a command of the peer that is unanswered is in the
inbox, once). `VolumesAgree` adds `VolumeInv`: changes travel one way at a time, and the last
one under way is the volume of its sender, unless `diverged`; the session's is, and the
application has it when none is under way, unless the application is `uninformed`.

*Host_proof, the server.* It sees connection handles only, and late. `ServerFollowsLinks`
proves `LinkInv`, whose part `LinksFollow` says that the events of a handle still in the
queue, applied in order to the server's connection, lead to the link the controller has. A
failed disconnection breaks that chain at one link only, which is `forgotten` (`Held`): the
server then has no connection where the chain begins with a link, and gets back in step at
the next event that changes the handle. From it follow that a handle is never connected
twice, and what a packet that overtook an event may meet. `TaskInv` adds `HoldersRight`
(the task a channel id leads to has that id) and `MeantRight` (a packet for a channel has
the id of the task it is meant for) to `CidsLead`, which holds only for tasks whose queue
nothing has ended (`told`): neither a DisconnectionRequest nor a DisconnectionResponse that
named their id. It adds `HandlesTaken` (the handle of a live AVRCP task is in the set) to
`HandlesFreed` and `OneSession`, which are not inductive without it. `HandlesAreAccounted`
and `PacketsReachConnections` follow, under the hypothesis that channel ids are numbers
(`Cids \subseteq Nat`), which makes the first free id well defined.

*SignalingIds.* `TypeCorrect`; `ImplementsCounter` (`Spec => Atomic`): a successful
exchange is the abstract step and the rest stutter; `IdsDistinct` from `RoundInv`, which
relates the distance of two equal identifiers, and of the counter from each, to their
positions.

*AvdtpSession_proof.* A channel is handed from task to task, and everything follows from it
being in one place: `PlaceInv` says what each place means for the channel, `OneshotInv` that
a channel in a session's oneshot is in no other and in no stream, `StreamInv` that streams
have endpoints and channels of their own and every endpoint in use has a stream.
`EndpointLocks` and `ChannelsAndStates` are parts of these, but none is inductive alone: a
stream's channel is fresh only because the oneshot's was. `EntryInv` needs that handle() runs
for one channel of the peers at a time, so that nothing comes between its two looks at
`pending_streams` (`Entries`). `SenderInv` follows the sender of the session that listens to
the slot, a task, or whoever lost it (`Panics`), `OpenInv` and `WantInv` follow the channel a
stream waits for, as long as openings do not overlap (`OpeningsServable`), and `QuietInv`
says what connect() and a lost signaling channel are excluded for: a connection then has one
session for good (`RightChannels`).

*Host_proof, the connection manager.* Two arguments. `FileInv` and `GivenInv`: the cells of
the file stay in step, two to an entry, unless a save was cut short, so whatever is in the
table, the file and the saves is a key its device was given. `LastInv`: the notifications
not handled yet, the table, the last save and the file follow each other, each leading to
the keys last given; it needs that saves did not overlap. `LinkKeysSurvive` adds what an
answer was given from, and that a written table is read back as it was.

*AclTransfer_proof.* The chunks of a task are numbered by places (a PDU and a position in
it). `ConnInv` says that those in the queue or on the link run from the place the
assembler waits for to the place the task has come to, with one gap where a packet was lost,
and that behind the gap the assembler either is in step again or holds too little to complete
the PDU. That makes both theorems follow, under `OwnConnections` (a connection for each
task); run acl_shared shows that they fail without it. Two losses on both sides of a PDU
boundary can put the head of one PDU and the tail of another together, hence the hypothesis
`lost <= 1` in `AssembledWhole`. Types and places need no hypothesis.

*L2capChannel_proof.* Ids are handed out again, so what a packet says is true of the channel
that had its id when it was sent. `Invs` states it for each type of packet: an accepted
ConnectionResponse names two channels of one connection (`LinkInv`), data carries the remote
id of its writer, which is then settled, and a disconnection the id of a channel that is
closing. `InboxInv` and `ReceivedInv` carry this to the queues and to what read() returned,
`RemoteInv` says when a channel's remote id is not its peer's, and `LostInv` why a channel
has no entry in the table. Every action is first reduced to one formula, `Step` (which ids
stay, which entries go and why, what is appended to which queue), and each invariant is shown
once for all steps. The second alternative of
`MisdeliveredOnlyOnReuse` came out of the proof: a channel quits while it connects, its id is
handed out again, and the stale ConnectionResponse connects the new channel to the old peer.

`OpenAgrees` and `NothingLost` speak of both ends and of every packet between them, so their
invariant is about the `Stream` of each channel: the packets of its inbox, and behind them
those of the link unless its server has dropped the entry. `CleanInv` says, while `Clean`
holds (no configure() on an open channel and no id handed out twice, the hypothesis of both
properties), that a stream is `Orderly` (the peer's request and its response are in it at most
once and only in states that wait for them, the data that was not read yet is in the order
it was written and, before the channel is open, behind the response), that it is `Whole` (no
data is missing unless the entry is gone), and that the states of the two ends `Agree`: one
that has sent its response is matched by a peer that has it, or still has it in its stream.
`CallInv` adds which call a task can be in for each state of its channel, which is why data
always meets a task that reads. Steps of third parties, and packets that neither configure
nor carry data, are shown once to leave streams as they are (`Quiet`); the lemmas
`OrderlyTakes...` say what each other packet does to the stream of its receiver, and
`OrderlyRequested`, `OrderlyAnswered` and `OrderlyWritten` what sending one does to that of
the peer. The drop of the entry is the one way a response can get lost, and there `LostInv`
leaves only a disconnection or the mixed-up DisconnectionResponse that `OpenAgrees` names.

*Wire_proof, messages.* `MessagesComeWhole` (`AssembledIsSent`) cannot rest on what an
assembler returns, only on what it has of a message half-way, which `AssemblyInv` says by
cases. As long as nothing was lost it has all parts sent so far and, if it counts, has
counted them (`WholeSoFar`); AVDTP's assembler may instead have dropped a message whose
predecessor left the count wrong. After a loss it has counted fewer packets than were sent,
and since sender and assembler advance by one together, the counts cannot be equal at the
end packet (`CountBehind`): that is why AVCTP never returns a message with a hole unless an
earlier message with the tag was broken off, whose count it may go on from. Between two
messages it holds nothing that the next could be added to (`Between`), which is what makes
the induction start again. The three assemblers have a lemma for each of their branches, and
a step each in the proof that `Receive` preserves the invariant. The proof is about any
number of tags, sizes and messages, and any range of the count.

*Wire_proof, the SDP server.* `AnswersWhole` is inductive with the types alone once it
speaks of what is left in the buffer as well as of what a client has: a piece cut off the
buffer and appended to what was there leaves their concatenation (`CutInTwo`), and whoever
else writes the buffer disturbs everyone who is collecting. `AnswersComeWhole` needs
nothing else, so it holds for maxima of 0, for empty answers, and for a client that gives up
halfway.

*Wire_proof, the firmware.* No two rows of the table match one chip (`OneRow`): the LMP and
HCI subversions of a chip on USB leave at most one place in the table (`PlaceFor`), which is
shown row by row; the versions of the chip are arbitrary. `LoaderInv` says that the chip
holds the bytes of as many fragments as it was sent (`Held`), that a fragment was sent only
when the payload was longer than those before it, and that it was marked exactly if it
reaches the end. So the marked one is the last, the payload is complete with it, and
`FirmwareComesWhole` (`FirmwareLoads`) follows for payloads and fragments of any length and
wherever a call of the chip fails.

*Wire_proof, encodings.* What has no nesting is shown to come back for every value: the
addresses of subunits (`AddressesComeBack`: one, two or three bytes, by range of the id),
capabilities with any number of bytes (`CapabilitiesComeBack`), and configuration options one
by one (`OptionsComeBack`). The first two state the parts of `RoundTrips` for them.

Only model-checked, and why:
- `RoundTrips` as a whole: data elements contain data elements, and a list of options is
  written by a fold. What such a definition computes takes induction over data, which
  the prover cannot do; so does `ByteSize`, on which the lengths depend. For the same
  reason `SdpAnswers` has no theorem: that a pattern picks out the right records is
  part of the run.
- Liveness (`CallsReturn`, `ShutdownHonoured`, `AclDrains`, `HandshakeCompletes`,
  `PeerLearns`, `DisconnectCompletes`, `AllArrive`): fairness and ENABLED are outside the
  prover's reach. `AclDrains` and its like also need that a queue gets shorter with every
  step, which is again induction.

## 6. Findings

In the order of `PROJECT.json`, which quotes the lines that say otherwise.

1. `l2cap/signaling.rs:193` looks a DisconnectionResponse up by the DCID, which is the
   peer's id. With different ids at the two ends `disconnect()` never returns (run
   l2cap_disconnect), and the id may be that of another channel, which is then forgotten by
   the server (`UnregisteredOnlyByCollision`, and `told` in run host).
2. `hci/mod.rs:188` queues the chunks of a PDU one by one on a shared channel; two tasks on
   one connection mix theirs, against the assertion in `hci/acl.rs:19` (run acl_shared).
3. `avdtp/mod.rs:97`: when configure() fails, or the loop panics, the entry in
   `pending_streams` stays and the connection handle can have no AVDTP session any more
   (the exception in `EntryMatchesSession`).
4. `avdtp/mod.rs:123`: the task of a transport channel drops the sender when configure()
   fails, so `expect("Channel receiver closed")` panics (the exceptions in
   `PanicsExplained`).
5. `avdtp/mod.rs:303` and 325: `data.finish()?` inside the loop over SEIDs rejects every
   START or SUSPEND for more than one stream. Found by reading.
6. `firmware/realtek/mod.rs:118`: the index is masked before it is compared, so the
   skip at the wrap that the comment describes never happens (run firmware_index).
7. `l2cap/mod.rs:172`: DisconnectionComplete removes the connection but not its channels, so
   their tasks never learn that the link is gone; after a reconnection with the same handle
   the peer's AVCTP channel is rejected. It does so whatever the status: after a disconnection
   that failed the data of the link is dropped (`forgotten` in `DataReachesConnection`).
8. `avrcp/mod.rs:377`: a pass-through *command* of the peer whose label is one of ours ends
   our call (`taken`).
9. `avrcp/mod.rs:118`: a registration that is rejected keeps its label for ever
   (`stranded`).
10. `avrcp/mod.rs:460`: the count in the answer to GetCapabilities(CompanyID) is four bytes.
    Found by reading.
11. `avrcp/mod.rs:510`: SetAbsoluteVolume stores the volume before it has accepted the
    command; when it then rejects it, nobody is told (`OverlongVolume`, the exception
   `uninformed` in `VolumeAgrees`).
12. `avdtp/packets.rs:175`: the packet count is wrong after an interrupted message, and
    counts single packets too, up to an overflow (`clean`, `panicked`).
13. `avdtp/capabilities.rs:86`: video codecs are read as audio codecs, multimedia codecs
    are written as audio.
14. `sdp/data_element/mod.rs:309`: a URL is read back as text.
15. `firmware/realtek/mod.rs:87`: an optional config file that is missing is an error.
16. `avrcp/packets.rs:209`: a full fragment is one byte larger than the 512 it is computed
    from. Found by reading.
17. `hci/event_loop.rs:203`: a NumberOfCompletedPackets event is read as all handles and then
    all counts, where it has a handle and a count for each connection. With two connections in
    one event a handle is subtracted as a count: the controller is sent more packets than it
    has buffers for (run hci_two_connections), or, with handle 0, a credit is kept back for
    good (`drift`).

Observations that no line of the repository contradicts: the continuation state of SDP does
not say of which answer (`sdp/mod.rs:331`), so a request of another client on the channel
changes what a continuation yields; saves of link keys are not ordered
(`hci/connection.rs`), so an older table may overwrite a newer one; AVDTP's `send_signal`
allows a first packet one byte over the MTU; a Connection Complete for a
synchronous link would meet the assertion at `l2cap/mod.rs:144`.

## 7. Abstractions and what is left out

- HciEventLoop: `control_out` is awaited inside its arm, so taking a command is one step, and
  a failed transfer means the controller did not get it. The queue of ACL packets is a set
  (`TakeAcl` may take any), which only adds behaviours; order is AclTransfer's subject. A
  reset() does not clear the controller's state. Incoming ACL data, the sniffer log and the
  parsing of headers are left out.
- AclTransfer: sizes are in units of which one holds the L2CAP header, so a first packet
  too short for the length field is not reached.
- L2capChannel: signaling ids and CommandRejects are left out (a host only logs a reject); a
  ConfigureRequest carries the MTU, as `configure()` sends it, and is accepted; accept and
  reject run inside the protocol handler, as all handlers of the crate have it; the event
  loop does not end; dropping a channel in WaitDisconnect repeats the transition, as a
  release build does (a debug build asserts).
- AvdtpSession: media data, capabilities and the replies are left out, as are signals that
  are rejected or change nothing here (Discover, the Get signals, Reconfigure). Of the
  oneshots of a session only that of the latest Open matters: a sender of an earlier one is
  "stale", since its receiver is gone.
- AvrcpSession: commands with malformed parameters are answered with an error and change
  nothing, as `AnswerQuery`; the one that changes something is `OverlongVolume`. Left out
  is the arm for answers to vendor dependent Control
  commands, of which the crate sends only the request for the rest of an answer, without a
  transaction. AVCTP's profile check and the queue before the session have no state
  that lasts.
- L2capServer: events and packets that change nothing come to empty queues only, and so
  does a failed disconnection, of a link the host knows (it is the host that asked for it);
  malformed packets are rejected before any state changes. A peer answers the
  DisconnectionRequest of each dropped channel at most once, with any channel id for its own;
  that a task drops a channel by itself is `ConfigureFails` or `SessionEnds`. The host opens no
  channels in this model, so ConnectionResponse and the configuration signals, which only go
  to the queue of a channel, are L2capChannel's subject. Configuration is one step of a
  task: its messages are L2capChannel's subject.
- ConnectionManager: link keys are numbered in the order of their creation; a cell of the file
  is half an entry, so a cut falls between entries or inside one;
  the single call of `set_simple_pairing_support` is left out.
- Reassembly: data is a list of (message, packet) marks; the peer is the crate's own
  sender, and may begin a message before the last one is complete.
- SdpServer: malformed requests, which are answered with an error or skipped, are left out.
- RealtekFirmware: bytes are lengths and positions; the registered loaders are tried in
  order, which is left out.
- `TypeOK` of L2capChannel, AvdtpSession and AvrcpSession documents the variables and is in
  no run; the types that the theorems need are proved with them.
- Liveness of AvdtpSession is not stated: a session waits for its peer wherever it waits.
- Not modelled: the HCI command builders and the tables of numbers (parameters packed
  around `Hci::call`, which HciEventLoop has), the sniffer log and the USB host (I/O), media
  packets and the A2DP codec tables (data handed on), the helpers in `utils` beyond those that
  are part of an action. They keep no state that a sequence of steps could corrupt.

## 8. What is left

All parts with state of their own are modelled. In the order of their importance:

1. Composition: L2capServer has tasks and L2capChannel messages; a module with both would
   show what a lost link does to a channel half-way through its configuration.
2. The media path of AVDTP (packets shorter than their header end the session's thread).
