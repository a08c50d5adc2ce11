----------------------------- MODULE L2capServer -----------------------------
(***************************************************************************)
(* The L2CAP server (l2cap/mod.rs, l2cap/signaling.rs): one future that    *)
(* polls two queues filled by the HCI event loop, packets and events, and  *)
(* keeps the connections and the channels.  A channel belongs to a task of *)
(* its protocol: SDP takes every channel, AVRCP (avrcp/mod.rs) one for a   *)
(* connection handle, remembered in a set the tasks share.                 *)
(*                                                                         *)
(* The order of a packet and an event is lost between the two queues: all  *)
(* packets are handled before the first event.  A connection handle names  *)
(* one link after another, its lives; a channel id one channel after       *)
(* another.  Nothing tells the tasks that a link is down.                  *)
(*                                                                         *)
(* A task that ends drops its channel, which asks the peer to disconnect;  *)
(* the peer's response is looked up by its own id of the channel.          *)
(*                                                                         *)
(* Lives, task numbers and what a packet is meant for are history: the     *)
(* code sees the handle and the channel id only.                           *)
(***************************************************************************)
EXTENDS Naturals, Sequences

CONSTANTS
    Handles,        \* connection handles
    Cids,           \* CID_RANGE_DYNAMIC, numbers
    MaxLives,       \* bound: links in all
    MaxPackets,     \* bound: packets the peers send
    MaxQueued       \* bound: packets, and events, in their queues

VARIABLES
    lives,          \* links so far
    link,           \* handle -> the life of the link the controller has, or 0
    events,         \* queue of Connection and Disconnection Complete
    data,           \* queue of packets
    phase,          \* what poll is at: "data" or "events"
    connections,    \* handle -> the life of the connection in the server, or 0
    channels,       \* cid -> the task that reads it, or 0
    tasks,          \* all protocol tasks: psm, handle, life, cid, state, and
                    \* what has ended the queue of the channel: told
    existing,       \* existing_connections of AVRCP
    leaked,         \* history: handles whose AVRCP task never ran
    answered,       \* history: tasks whose DisconnectionRequest was answered
    forgotten,      \* history: lives whose disconnection failed
    outcome,        \* what became of the last packet
    packets         \* history: packets sent

history == <<leaked, answered, forgotten>>
vars == <<lives, link, events, data, phase, connections, channels, tasks,
          existing, history, outcome, packets>>

Psms == {"SDP", "AVCTP"}
Nothing == [what |-> "nothing"]

Live(n) == n # 0 /\ tasks[n].state \in {"configuring", "session"}
Holder(cid) == channels[cid]

-----------------------------------------------------------------------------
(* The controller and the peers.                                           *)

\* A link comes up: the manager accepts what asks for one.
LinkUp ==
    /\ lives < MaxLives
    /\ Len(events) < MaxQueued
    /\ \E h \in Handles :
        /\ link[h] = 0
        /\ lives' = lives + 1
        /\ link' = [link EXCEPT ![h] = lives']
        /\ events' = Append(events, [kind |-> "ConnectionComplete", status |-> "Success",
                                     handle |-> h, life |-> lives'])
    /\ outcome' = Nothing
    /\ UNCHANGED <<data, phase, connections, channels, tasks, existing, history, packets>>

LinkDown ==
    \E h \in Handles :
        /\ link[h] # 0
        /\ Len(events) < MaxQueued
        /\ link' = [link EXCEPT ![h] = 0]
        /\ events' = Append(events, [kind |-> "DisconnectionComplete", status |-> "Success",
                                     handle |-> h, life |-> link[h]])
        /\ outcome' = Nothing
        /\ UNCHANGED <<lives, data, phase, connections, channels, tasks, existing, history, packets>>

\* A disconnection that fails, of a link that the host knows: the link stays up.
LinkStays ==
    \E h \in Handles :
        /\ link[h] # 0 /\ connections[h] = link[h]
        /\ events = <<>>
        /\ events' = <<[kind |-> "DisconnectionComplete", status |-> "Failed",
                        handle |-> h, life |-> link[h]]>>
        /\ outcome' = Nothing
        /\ UNCHANGED <<lives, link, data, phase, connections, channels, tasks, existing, history,
                       packets>>

\* Events that change nothing come to an empty queue only: a link that failed, and
\* MaxSlotsChange and ModeChange, which set a field that nothing reads.
OddEvents(h) ==
    IF link[h] = 0
    THEN {[kind |-> "ConnectionComplete", status |-> "Failed", handle |-> h, life |-> 0]}
    ELSE {[kind |-> "ModeChange", handle |-> h, life |-> link[h]]}

OddEvent ==
    /\ events = <<>>
    /\ \E h \in Handles : \E e \in OddEvents(h) : events' = <<e>>
    /\ outcome' = Nothing
    /\ UNCHANGED <<lives, link, data, phase, connections, channels, tasks, existing, history,
                   packets>>

Tasks(h) == {n \in DOMAIN tasks : /\ tasks[n].handle = h /\ tasks[n].life = link[h]
                                   /\ tasks[n].state # "rejected"}

\* Over a link a peer asks for channels, and uses those it was given on it.  It
\* answers the DisconnectionRequest of a channel that was dropped, once, and names
\* its own id of that channel: any, as far as this host knows (one that no channel
\* has here is as good as a free one).
Closing(h) == {n \in Tasks(h) : tasks[n].state = "ended" /\ n \notin answered}

Uses(h) ==
    [kind : {"ConnectionRequest"}, psm : Psms, valid : {TRUE}]
      \union (UNION {[kind : {"Data", "DisconnectionRequest"}, cid : {tasks[n].cid}, task : {n}] :
                        n \in Tasks(h)})
      \union [kind : {"DisconnectionResponse"}, cid : Cids, task : Closing(h)]

\* An unknown PSM, a source cid out of range, an echo request.
Odd ==
    {[kind |-> "ConnectionRequest", psm |-> "other", valid |-> TRUE],
     [kind |-> "ConnectionRequest", psm |-> "SDP", valid |-> FALSE],
     [kind |-> "EchoRequest"]}

Contents(h) == IF data = <<>> THEN Uses(h) \union Odd ELSE Uses(h)

PeerSends ==
    /\ packets < MaxPackets
    /\ Len(data) < MaxQueued
    /\ \E h \in Handles :
        /\ link[h] # 0
        /\ \E c \in Contents(h) :
            /\ data' = Append(data, [handle |-> h, life |-> link[h], content |-> c])
            /\ answered' = IF c.kind = "DisconnectionResponse" THEN answered \union {c.task}
                                                               ELSE answered
    /\ packets' = packets + 1
    /\ outcome' = Nothing
    /\ UNCHANGED <<lives, link, events, phase, connections, channels, tasks, existing, leaked,
                   forgotten>>

-----------------------------------------------------------------------------
(* poll: packets, then events, until both queues are empty.  Another poll  *)
(* begins when something arrives.                                          *)

NextPacket ==
    /\ phase = "data"
    /\ data # <<>>
    /\ data' = Tail(data)

PacketsDone ==
    /\ phase = "data"
    /\ data = <<>>
    /\ events # <<>>
    /\ phase' = "events"
    /\ outcome' = Nothing
    /\ UNCHANGED <<lives, link, events, data, connections, channels, tasks, existing, history,
                   packets>>

EventsDone ==
    /\ phase = "events"
    /\ events = <<>>
    /\ phase' = "data"
    /\ outcome' = Nothing
    /\ UNCHANGED <<lives, link, events, data, connections, channels, tasks, existing, history, packets>>

NextEvent ==
    /\ phase = "events"
    /\ events # <<>>
    /\ events' = Tail(events)

\* handle_event asserts that the handle was not connected: see HandlesAccounted.
ConnectionComplete ==
    /\ NextEvent
    /\ LET e == Head(events) IN
        /\ e.kind = "ConnectionComplete"
        /\ connections' = IF e.status = "Success" THEN [connections EXCEPT ![e.handle] = e.life]
                                                  ELSE connections
    /\ outcome' = Nothing
    /\ UNCHANGED <<lives, link, data, phase, channels, tasks, existing, history, packets>>

\* The connection is removed whatever the status; its channels stay.
DisconnectionComplete ==
    /\ NextEvent
    /\ Head(events).kind = "DisconnectionComplete"
    /\ connections' = [connections EXCEPT ![Head(events).handle] = 0]
    /\ forgotten' = IF Head(events).status = "Failed" THEN forgotten \union {Head(events).life}
                                                      ELSE forgotten
    /\ outcome' = Nothing
    /\ UNCHANGED <<lives, link, data, phase, channels, tasks, existing, leaked, answered, packets>>

ModeChange ==
    /\ NextEvent
    /\ Head(events).kind = "ModeChange"
    /\ outcome' = Nothing
    /\ UNCHANGED <<lives, link, data, phase, connections, channels, tasks, existing, history, packets>>

-----------------------------------------------------------------------------
(* handle_data and handle_l2cap_packet.                                    *)

Packet == Head(data)
Content == Packet.content

Became(what) == outcome' = [what |-> what]
Delivered(n) == outcome' = [what |-> "delivered", to |-> n]

\* get_connection: a packet of a handle that is not connected is dropped.
UnknownConnectionHandle ==
    /\ NextPacket
    /\ connections[Packet.handle] = 0
    /\ Became("dropped")
    /\ UNCHANGED <<lives, link, events, phase, connections, channels, tasks, existing, history,
                   packets>>

Signal(kind) ==
    /\ NextPacket
    /\ connections[Packet.handle] # 0
    /\ Content.kind = kind

\* Requests that are answered and change nothing: information requests as well.
EchoRequest ==
    /\ Signal("EchoRequest")
    /\ Became("answered")
    /\ UNCHANGED <<lives, link, events, phase, connections, channels, tasks, existing, history,
                   packets>>

Refusal(c) ==
    IF c.psm \notin Psms THEN "RefusedPsmNotSupported" ELSE "RefusedInvalidSourceCid"

RefuseConnection ==
    /\ Signal("ConnectionRequest")
    /\ Content.psm \notin Psms \/ ~Content.valid
    /\ Became(Refusal(Content))
    /\ UNCHANGED <<lives, link, events, phase, connections, channels, tasks, existing, history,
                   packets>>

\* new_channel: the channels nobody reads are forgotten, then the first free
\* id is taken.
Retained == [c \in Cids |-> IF Live(channels[c]) THEN channels[c] ELSE 0]

\* Mutant: channel ids are told apart by connection only.
FreeCids_OfHandle(h) ==
    {c \in Cids : Retained[c] = 0 \/ tasks[Retained[c]].handle # h}
FreeCids(h) == {c \in Cids : Retained[c] = 0}
Lowest(S) == CHOOSE c \in S : \A d \in S : c <= d

NoResources ==
    /\ Signal("ConnectionRequest")
    /\ Content.psm \in Psms /\ Content.valid
    /\ channels' = Retained
    /\ FreeCids(Packet.handle) = {}
    /\ Became("RefusedNoResources")
    /\ UNCHANGED <<lives, link, events, phase, connections, tasks, existing, history, packets>>

\* handle_control: a second channel for a handle is rejected and dropped.
Admitted(psm, h) == psm = "AVCTP" => h \notin existing

NewChannel ==
    /\ Signal("ConnectionRequest")
    /\ Content.psm \in Psms /\ Content.valid
    /\ FreeCids(Packet.handle) # {}
    /\ LET cid == Lowest(FreeCids(Packet.handle))
           h == Packet.handle
           admitted == Admitted(Content.psm, h)
       IN  /\ channels' = [Retained EXCEPT ![cid] = Len(tasks) + 1]
           /\ tasks' = Append(tasks,
                  [psm |-> Content.psm, handle |-> h, life |-> Packet.life, cid |-> cid,
                   state |-> IF admitted THEN "configuring" ELSE "rejected", told |-> "no"])
           /\ existing' = IF Content.psm = "AVCTP" THEN existing \union {h} ELSE existing
           /\ Became(IF admitted THEN "accepted" ELSE "rejected")
    /\ UNCHANGED <<lives, link, events, phase, connections, history, packets>>

\* send_channel_msg: the channel of a task that is gone is forgotten.
ChannelData ==
    /\ Signal("Data")
    /\ LET n == Holder(Content.cid) IN
        \/ /\ Live(n)
           /\ Delivered(n)
           /\ channels' = channels
        \/ /\ ~Live(n)
           /\ Became("unread")
           /\ channels' = [channels EXCEPT ![Content.cid] = 0]
    /\ UNCHANGED <<lives, link, events, phase, connections, tasks, existing, history, packets>>

\* The channel is forgotten at once, and its task told so.
DisconnectRequest ==
    /\ Signal("DisconnectionRequest")
    /\ LET n == Holder(Content.cid) IN
        /\ tasks' = IF Live(n) THEN [tasks EXCEPT ![n].told = "request"] ELSE tasks
        /\ channels' = [channels EXCEPT ![Content.cid] = 0]
        /\ IF n = 0 THEN Became("InvalidCid")
                    ELSE Delivered(n)
    /\ UNCHANGED <<lives, link, events, phase, connections, existing, history, packets>>

\* The channel that has the peer's id is forgotten, whose ever it is.  Its task
\* ignores the response, and its queue ends with the sender that the table held.
DisconnectResponse ==
    /\ Signal("DisconnectionResponse")
    /\ LET n == Holder(Content.cid) IN
        /\ tasks' = IF Live(n) THEN [tasks EXCEPT ![n].told = "response"] ELSE tasks
        /\ channels' = [channels EXCEPT ![Content.cid] = 0]
        /\ Became("forgotten")
    /\ UNCHANGED <<lives, link, events, phase, connections, existing, history, packets>>

-----------------------------------------------------------------------------
(* The protocol tasks: Sdp::handle and Avrcp::handle_control.              *)

End(n) == tasks' = [tasks EXCEPT ![n].state = "ended"]

\* Mutant: a session that ends leaves its handle behind.
Forget_Keeps(n) == existing
Forget(n) == IF tasks[n].psm = "AVCTP" THEN existing \ {tasks[n].handle} ELSE existing

\* What completes the configuration may be queued before what ends the queue.
Configured ==
    \E n \in DOMAIN tasks :
        /\ tasks[n].state = "configuring"
        /\ tasks' = [tasks EXCEPT ![n].state = "session"]
        /\ outcome' = Nothing
        /\ UNCHANGED <<lives, link, events, data, phase, connections, channels, existing, history, packets>>

\* The peer refuses, disconnects or does not answer: the task returns, and an
\* AVRCP task leaves its handle behind.
ConfigureFails ==
    \E n \in DOMAIN tasks :
        /\ tasks[n].state = "configuring"
        /\ End(n)
        /\ leaked' = IF tasks[n].psm = "AVCTP" THEN leaked \union {tasks[n].handle} ELSE leaked
        /\ outcome' = Nothing
        /\ UNCHANGED <<lives, link, events, data, phase, connections, channels, existing,
                       answered, forgotten, packets>>

\* The peer hung up, or the channel is closed here: by the application that
\* drops its AvrcpSession, or after an error.
SessionEnds ==
    \E n \in DOMAIN tasks :
        /\ tasks[n].state = "session"
        /\ End(n)
        /\ existing' = Forget(n)
        /\ outcome' = Nothing
        /\ UNCHANGED <<lives, link, events, data, phase, connections, channels, history,
                       packets>>

-----------------------------------------------------------------------------
Init ==
    /\ lives = 0
    /\ link = [h \in Handles |-> 0]
    /\ events = <<>> /\ data = <<>>
    /\ phase = "data"
    /\ connections = [h \in Handles |-> 0]
    /\ channels = [c \in Cids |-> 0]
    /\ tasks = <<>>
    /\ existing = {} /\ leaked = {} /\ answered = {} /\ forgotten = {}
    /\ outcome = Nothing
    /\ packets = 0

Next ==
    \/ LinkUp \/ LinkDown \/ LinkStays \/ OddEvent \/ PeerSends
    \/ PacketsDone \/ EventsDone
    \/ ConnectionComplete \/ DisconnectionComplete \/ ModeChange
    \/ UnknownConnectionHandle \/ EchoRequest
    \/ RefuseConnection \/ NoResources \/ NewChannel
    \/ ChannelData \/ DisconnectRequest \/ DisconnectResponse
    \/ Configured \/ ConfigureFails \/ SessionEnds

Spec == Init /\ [][Next]_vars

-----------------------------------------------------------------------------
\* An AVRCP handle is taken only while a task that can still run has it, or by
\* one that never ran its session, and no handle has two.
HandlesFreed ==
    \A h \in existing :
        h \in leaked \/ \E n \in DOMAIN tasks :
                           Live(n) /\ tasks[n].psm = "AVCTP" /\ tasks[n].handle = h

OneSession ==
    \A n, m \in DOMAIN tasks :
        /\ n # m /\ Live(n) /\ Live(m)
        /\ tasks[n].psm = "AVCTP" /\ tasks[m].psm = "AVCTP"
        => tasks[n].handle # tasks[m].handle

\* The channel id of a task leads to that task, until the peer disconnects it or
\* answers the DisconnectionRequest of another channel whose id there is this one's.
CidsLead == \A n \in DOMAIN tasks : Live(n) /\ tasks[n].told = "no" => channels[tasks[n].cid] = n

\* What handle_event asserts: a handle is not connected twice (l2cap/mod.rs:146).
NotConnectedTwice ==
    events # <<>> /\ Head(events).kind = "ConnectionComplete"
       /\ Head(events).status = "Success" => connections[Head(events).handle] = 0

\* AVRCP knows its sessions by connection handle, the server its channels by id:
\* both lead to the task that has them and to no other, whatever ends, fails or
\* overtakes what (avrcp/mod.rs:55-94, l2cap/mod.rs:232-248).
HandlesAccounted == HandlesFreed /\ OneSession /\ CidsLead /\ NotConnectedTwice

Awaited(kind, life) ==
    \E i \in DOMAIN events : events[i].kind = kind /\ events[i].life = life

\* Where the step that takes a packet brings it.
PacketReaches ==
    data # <<>> /\ data' = Tail(data) =>
        LET h == Packet.handle
            n == Content.task
            meant == Content.kind \in {"Data", "DisconnectionRequest"}
        IN  /\ connections[h] = Packet.life
               \/ link[h] # Packet.life
               \/ Packet.life \in forgotten
               \/ Awaited("ConnectionComplete", Packet.life)
            /\ connections[h] \notin {0, Packet.life} /\ link[h] = Packet.life =>
                  Awaited("DisconnectionComplete", connections[h])
            /\ outcome'.what = "dropped" => connections[h] = 0
            /\ outcome'.what = "delivered" =>
                  outcome'.to = n \/ ~Live(n) \/ tasks[n].told # "no"
            /\ meant /\ outcome'.what \in {"unread", "InvalidCid"} =>
                  ~Live(n) \/ tasks[n].told # "no"
            /\ outcome'.what = "RefusedNoResources" =>
                  \A c \in Cids : \E m \in DOMAIN tasks : Live(m) /\ tasks[m].cid = c

\* A packet is handled for the link it came over, unless it has overtaken the
\* event that opens that link or the one that closes the link before it, or its
\* link is down or could not be disconnected; it reaches the task it is meant for,
\* unless that one has ended, was told to disconnect, or has the id at the peer of
\* another channel that was closed from here.  Channel ids run out only when live
\* tasks hold them all (l2cap/mod.rs:96-131, 165-178, 202-249, signaling.rs:98-124,
\* 173-203).
DataReachesConnection == [][PacketReaches]_vars
=============================================================================
