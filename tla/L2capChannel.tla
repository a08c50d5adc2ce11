---------------------------- MODULE L2capChannel ----------------------------
(***************************************************************************)
(* L2CAP channels between two hosts that both run this code: the state     *)
(* machine of a Channel (l2cap/channel.rs), the table of channels and the  *)
(* signaling handlers of each host's L2capServer (l2cap/mod.rs,            *)
(* l2cap/signaling.rs), and the tasks that own the channels.               *)
(*                                                                         *)
(* A connection k has one end <<k, s>> on each host s: a Channel, the      *)
(* receiver of its events (inbox) and the call its task is in (op).  The   *)
(* link delivers to each host, in order, what the other one sent.          *)
(*                                                                         *)
(* Signaling ids are left out (no handler looks at them), and so are       *)
(* CommandRejects, which a host only logs.  A ConfigureRequest carries an  *)
(* MTU and nothing else, as configure() sends it, and is always accepted.  *)
(***************************************************************************)
EXTENDS Naturals, Sequences

CONSTANTS
  Connections,     (* the connections made                                  *)
  Hosts,           (* the two hosts                                         *)
  Opener,          (* the host that opens each connection                   *)
  Cids,            (* the dynamic channel ids each host has left            *)
  MaxWrites,       (* bound: packets each end writes                        *)
  Quitters,        (* bound: the ends that may quit at any time             *)
  MaxReconfigures, (* bound: calls of configure() on an open channel        *)
  None

NoCid == 0  (* CID_ID_NONE *)

ASSUME HostsAssumption == /\ \E s, t \in Hosts : s # t /\ Hosts = {s, t}
                          /\ Opener \in [Connections -> Hosts]
                          /\ None \notin Connections \X Hosts
ASSUME CidsAssumption == Cids \in [Hosts -> SUBSET (Nat \ {NoCid})]
ASSUME BoundsAssumption == /\ MaxWrites \in [Connections \X Hosts -> Nat]
                           /\ Quitters \subseteq Connections \X Hosts
                           /\ MaxReconfigures \in Nat

VARIABLES
  state,        (* Channel::state of each end                               *)
  local,        (* Channel::local_cid                                       *)
  remote,       (* Channel::remote_cid                                      *)
  inbox,        (* Channel::receiver                                        *)
  op,           (* what the task that owns the Channel is doing             *)
  table,        (* L2capServer::channels of each host                       *)
  link,         (* packets on their way to each host                        *)
  written,      (* packets each end has written                             *)
  received,     (* history: the packets read() returned                     *)
  reconfigures  (* calls of configure() on an open channel so far           *)

channel == <<state, local, remote, inbox, op>>
vars == <<channel, table, link, written, received, reconfigures>>

Ends == Connections \X Hosts
Conn(e) == e[1]
Host(e) == e[2]
Other(s) == CHOOSE t \in Hosts : t # s
Peer(e) == <<Conn(e), Other(Host(e))>>

Configuring == {"config", "sendConfig", "configReqRsp", "configRsp", "configReq"}
Closed == {"idle", "disconnected"}
Connected == Configuring \cup {"open"}
States == Connected \cup {"none", "idle", "waitConnectRsp", "waitDisconnect", "disconnected"}

(* The calls in which a task polls its channel's events; serving is the    *)
(* loop around read().  A task in setup has yet to call configure().       *)
Polling == {"connecting", "serving", "writing", "disconnecting"}
Ops == Polling \cup {"none", "created", "setup", "ended", "dropped"}

-----------------------------------------------------------------------------
(* Packets: signaling commands, and data on a dynamic channel id.          *)

ConnectionRequest(k, scid) == [type |-> "connReq", conn |-> k, scid |-> scid]
ConnectionResponse(dcid, scid, ok) ==
  [type |-> "connRsp", dcid |-> dcid, scid |-> scid, success |-> ok]
ConfigureRequest(dcid) == [type |-> "configReq", dcid |-> dcid]
ConfigureResponse(scid) == [type |-> "configRsp", scid |-> scid]
DisconnectionRequest(dcid, scid) == [type |-> "discReq", dcid |-> dcid, scid |-> scid]
DisconnectionResponse(dcid, scid) == [type |-> "discRsp", dcid |-> dcid, scid |-> scid]
Data(cid, e, n) == [type |-> "data", dcid |-> cid, from |-> e, seq |-> n]

AllCids == (UNION {Cids[s] : s \in Hosts}) \cup {NoCid}

Packet ==
  {ConnectionRequest(k, c) : k \in Connections, c \in AllCids}
    \cup {ConnectionResponse(c, d, ok) : c \in AllCids, d \in AllCids, ok \in BOOLEAN}
    \cup {ConfigureRequest(c) : c \in AllCids}
    \cup {ConfigureResponse(c) : c \in AllCids}
    \cup {DisconnectionRequest(c, d) : c \in AllCids, d \in AllCids}
    \cup {DisconnectionResponse(c, d) : c \in AllCids, d \in AllCids}
    \cup UNION {{Data(c, e, n) : c \in AllCids, n \in 1..MaxWrites[e]} : e \in Ends}

Init ==
  /\ state = [e \in Ends |-> "none"]
  /\ local = [e \in Ends |-> NoCid]
  /\ remote = [e \in Ends |-> NoCid]
  /\ inbox = [e \in Ends |-> <<>>]
  /\ op = [e \in Ends |-> "none"]
  /\ table = [s \in Hosts |-> [c \in Cids[s] |-> None]]
  /\ link = [s \in Hosts |-> <<>>]
  /\ written = [e \in Ends |-> 0]
  /\ received = [e \in Ends |-> <<>>]
  /\ reconfigures = 0

(* Host s sends the packets of msgs. *)
Send(s, msgs) == link' = [link EXCEPT ![Other(s)] = @ \o msgs]

(* Mutant: retain() keeps the entries it should remove. *)
Retained_Inverted(s) ==
  [c \in Cids[s] |-> IF table[s][c] \in Ends /\ op[table[s][c]] # "dropped"
                     THEN None ELSE table[s][c]]

(* The table after new_channel's retain: entries of dropped channels go. *)
Retained(s) ==
  [c \in Cids[s] |-> IF table[s][c] \in Ends /\ op[table[s][c]] = "dropped"
                     THEN None ELSE table[s][c]]

Free(s) == {c \in Cids[s] : Retained(s)[c] = None}

(* Mutant: the table is not looked at. *)
NewCid_First(s) == CHOOSE c \in Cids[s] : \A d \in Cids[s] : c <= d

(* The id new_channel picks: the lowest that is free. *)
NewCid(s) == CHOOSE c \in Free(s) : \A d \in Free(s) : c <= d

Register(e) ==
  LET s == Host(e) IN
  /\ table' = [table EXCEPT ![s] = [Retained(s) EXCEPT ![NewCid(s)] = e]]
  /\ local' = [local EXCEPT ![e] = NewCid(s)]

-----------------------------------------------------------------------------
(* Calls of a Channel by the task that owns it.                            *)

(* new_channel, by the server; the new task has yet to call connect(). *)
NewChannel(e) ==
  /\ Host(e) = Opener[Conn(e)]
  /\ op[e] = "none"
  /\ Free(Host(e)) # {}
  /\ Register(e)
  /\ state' = [state EXCEPT ![e] = "idle"]
  /\ op' = [op EXCEPT ![e] = "created"]
  /\ UNCHANGED <<remote, inbox, link, written, received, reconfigures>>

Connect(e) ==
  /\ op[e] = "created"
  /\ Send(Host(e), <<ConnectionRequest(Conn(e), local[e])>>)
  /\ state' = [state EXCEPT ![e] = "waitConnectRsp"]
  /\ op' = [op EXCEPT ![e] = "connecting"]
  /\ UNCHANGED <<local, remote, inbox, table, written, received, reconfigures>>

(* The states in which configure() may be called, and where it leads. *)
AfterConfigure == [config |-> "configReqRsp", sendConfig |-> "configRsp", open |-> "configReqRsp"]

SendConfigure(e) ==
  /\ state[e] \in DOMAIN AfterConfigure
  /\ state' = [state EXCEPT ![e] = AfterConfigure[@]]
  /\ Send(Host(e), <<ConfigureRequest(remote[e])>>)

(* configure() on a new channel, before its task serves it. *)
Configure(e) ==
  /\ op[e] = "setup"
  /\ SendConfigure(e)
  /\ op' = [op EXCEPT ![e] = "serving"]
  /\ UNCHANGED <<local, remote, inbox, table, written, received, reconfigures>>

(* configure() on a channel in use, or to answer a peer that did so. *)
Reconfigure(e) ==
  /\ op[e] = "serving"
  /\ reconfigures < MaxReconfigures
  /\ SendConfigure(e)
  /\ reconfigures' = reconfigures + 1
  /\ UNCHANGED <<local, remote, inbox, op, table, written, received>>

NextData(e) == Data(remote[e], e, written[e] + 1)

(* Mutant: a channel that has not taken over the peer's MTU sends too. *)
MaySend_Unconfigured(e) == state[e] \in {"open", "configReqRsp"}

MaySend(e) == state[e] = "open"

(* write() on an open channel sends; on another it waits to be configured. *)
Write(e) ==
  /\ op[e] = "serving"
  /\ written[e] < MaxWrites[e]
  /\ IF MaySend(e)
     THEN /\ Send(Host(e), <<NextData(e)>>)
          /\ written' = [written EXCEPT ![e] = @ + 1]
          /\ op' = op
     ELSE /\ op' = [op EXCEPT ![e] = "writing"]
          /\ UNCHANGED <<link, written>>
  /\ UNCHANGED <<state, local, remote, inbox, table, received, reconfigures>>

(* Two seconds passed: the error ends the task. *)
WriteTimesOut(e) ==
  /\ op[e] = "writing"
  /\ op' = [op EXCEPT ![e] = "ended"]
  /\ UNCHANGED <<state, local, remote, inbox, table, link, written, received, reconfigures>>

Disconnect(e) ==
  /\ e \in Quitters
  /\ op[e] \in {"setup", "serving"}
  /\ state[e] \in Connected
  /\ Send(Host(e), <<DisconnectionRequest(remote[e], local[e])>>)
  /\ state' = [state EXCEPT ![e] = "waitDisconnect"]
  /\ op' = [op EXCEPT ![e] = "disconnecting"]
  /\ UNCHANGED <<local, remote, inbox, table, written, received, reconfigures>>

EventTypes(e) == {inbox[e][i].type : i \in 1..Len(inbox[e])}

(* Mutant: the channel goes without telling the peer. *)
DropReplies_Silent(e) == <<>>

(* What drop() sends: a DisconnectionRequest unless the channel is closed, *)
(* and what one poll of wait_for_disconnect answers to the events queued.  *)
DropReplies(e) ==
  IF state[e] \in Closed THEN <<>>
  ELSE <<DisconnectionRequest(remote[e], local[e])>>
         \o IF "discReq" \in EventTypes(e)
            THEN <<DisconnectionResponse(local[e], remote[e])>> ELSE <<>>

(* The task ends or drops whatever call it was in, and its Channel.  (When *)
(* that was disconnect(), set_state meets the state it is asked for; that  *)
(* only fails a debug assertion.)                                          *)
Drop(e) ==
  /\ op[e] \in IF e \in Quitters THEN Polling \cup {"created", "setup", "ended"} ELSE {"ended"}
  /\ Send(Host(e), DropReplies(e))
  /\ state' = [state EXCEPT ![e] =
                 IF @ \in Closed THEN @
                 ELSE IF EventTypes(e) \cap {"discReq", "discRsp"} # {}
                 THEN "disconnected" ELSE "waitDisconnect"]
  /\ op' = [op EXCEPT ![e] = "dropped"]
  /\ inbox' = [inbox EXCEPT ![e] = <<>>]
  /\ UNCHANGED <<local, remote, table, written, received, reconfigures>>

-----------------------------------------------------------------------------
(* poll_events, and what the call that polls makes of the outcome.         *)

(* Mutant: in ConfigReqRsp the peer's request alone opens the channel. *)
AfterConfigReq_OpensEarly ==
  [config |-> "sendConfig", configReqRsp |-> "open", configReq |-> "open", open |-> "sendConfig"]

AfterConfigReq ==
  [config |-> "sendConfig", configReqRsp |-> "configRsp", configReq |-> "open", open |-> "sendConfig"]

(* Mutant: in ConfigRsp the response is ignored. *)
AfterConfigRsp_Ignored == [configReqRsp |-> "configReq"]

AfterConfigRsp == [configReqRsp |-> "configReq", configRsp |-> "open"]

(* The state an event takes the channel to; an event it ignores, the same. *)
Reaction(st, ev) ==
  CASE ev.type = "connRsp" /\ st = "waitConnectRsp" ->
         IF ev.success THEN "config" ELSE "disconnected"
    [] ev.type = "configReq" /\ st \in DOMAIN AfterConfigReq -> AfterConfigReq[st]
    [] ev.type = "configRsp" /\ st \in DOMAIN AfterConfigRsp -> AfterConfigRsp[st]
    [] ev.type = "discReq" /\ st # "waitConnectRsp" -> "disconnected"
    [] ev.type = "discRsp" /\ st = "waitDisconnect" -> "disconnected"
    [] OTHER -> st

(* Mutant: a DisconnectionRequest closes the channel without an answer. *)
Replies_NoDisconnectionResponse(e, ev) ==
  IF ev.type = "configReq" /\ state[e] \in DOMAIN AfterConfigReq
  THEN <<ConfigureResponse(remote[e])>> ELSE <<>>

Replies(e, ev) ==
  CASE ev.type = "configReq" /\ state[e] \in DOMAIN AfterConfigReq ->
         <<ConfigureResponse(remote[e])>>
    [] ev.type = "discReq" /\ state[e] # "waitConnectRsp" ->
         <<DisconnectionResponse(local[e], remote[e])>>
    [] OTHER -> <<>>

(* The call after the channel's state became st. *)
OpAfter(e, st) ==
  IF st = state[e] THEN op[e]
  ELSE IF st = "disconnected" THEN "ended"
  ELSE CASE op[e] = "connecting" -> "setup"
         [] op[e] = "writing" /\ st = "open" -> "serving"
         [] OTHER -> op[e]

Poll(e) ==
  /\ op[e] \in Polling
  /\ inbox[e] # <<>>
  /\ LET ev == Head(inbox[e])
         st == Reaction(state[e], ev)
         sends == op[e] = "writing" /\ st = "open"  (* write() goes on *)
     IN /\ state' = [state EXCEPT ![e] = st]
        /\ remote' = [remote EXCEPT ![e] =
                        IF st = "config" /\ state[e] = "waitConnectRsp" THEN ev.dcid ELSE @]
        /\ op' = [op EXCEPT ![e] = OpAfter(e, st)]
        /\ Send(Host(e), Replies(e, ev) \o IF sends THEN <<NextData(e)>> ELSE <<>>)
        /\ written' = [written EXCEPT ![e] = IF sends THEN @ + 1 ELSE @]
        /\ received' = [received EXCEPT ![e] =
                          IF ev.type = "data" /\ state[e] \in Connected /\ op[e] = "serving"
                          THEN Append(@, ev) ELSE @]
  /\ inbox' = [inbox EXCEPT ![e] = Tail(@)]
  /\ UNCHANGED <<local, table, reconfigures>>

(* The server no longer has the sender of a channel's events. *)
Unregistered(e) == table[Host(e)][local[e]] # e

(* recv() yields None: read() returns None, the other calls ChannelClosed. *)
PollClosed(e) ==
  /\ op[e] \in Polling
  /\ inbox[e] = <<>>
  /\ Unregistered(e)
  /\ op' = [op EXCEPT ![e] = "ended"]
  /\ UNCHANGED <<state, local, remote, inbox, table, link, written, received, reconfigures>>

-----------------------------------------------------------------------------
(* L2capServer: packets from the link, in order.                           *)

(* new_channel, connection_request_received, and the protocol's handle(),  *)
(* which accepts the connection or rejects it and drops the channel.       *)
OnConnectionRequest(s, m) ==
  LET e == <<m.conn, s>>
      respond(dcid, ok) ==
        link' = [o \in Hosts |-> IF o = s THEN Tail(link[o])
                                 ELSE Append(link[o], ConnectionResponse(dcid, m.scid, ok))]
  IN \/ /\ respond(NoCid, FALSE)  (* RefusedPsmNotSupported *)
        /\ UNCHANGED <<channel, table>>
     \/ /\ Free(s) = {}           (* RefusedNoResources *)
        /\ respond(NoCid, FALSE)
        /\ table' = [table EXCEPT ![s] = Retained(s)]
        /\ UNCHANGED channel
     \/ /\ Free(s) # {}
        /\ Register(e)
        /\ remote' = [remote EXCEPT ![e] = m.scid]
        /\ \E accept \in BOOLEAN :
             /\ respond(NewCid(s), accept)
             /\ state' = [state EXCEPT ![e] = IF accept THEN "config" ELSE "disconnected"]
             /\ op' = [op EXCEPT ![e] = IF accept THEN "setup" ELSE "dropped"]
        /\ inbox' = inbox

Registered(s, cid) == cid \in Cids[s] /\ table[s][cid] # None

(* The event reaches the Channel if its receiver still exists. *)
Post(e, m) ==
  inbox' = IF op[e] = "dropped" THEN inbox ELSE [inbox EXCEPT ![e] = Append(@, m)]

(* send_channel_msg: a failed send unregisters the channel. *)
ChannelMsg(s, cid, m) ==
  IF Registered(s, cid)
  THEN LET e == table[s][cid] IN
       /\ Post(e, m)
       /\ table' = IF op[e] = "dropped" THEN [table EXCEPT ![s][cid] = None] ELSE table
  ELSE UNCHANGED <<inbox, table>>

(* handle_disconnect_request and handle_disconnect_response both look the  *)
(* channel up by the packet's DCID, unregister it, and tell it.            *)
FinalMsg(s, cid, m) ==
  IF Registered(s, cid)
  THEN /\ Post(table[s][cid], m)
       /\ table' = [table EXCEPT ![s][cid] = None]
  ELSE UNCHANGED <<inbox, table>>

Forward(s, m) ==
  /\ link' = [link EXCEPT ![s] = Tail(@)]
  /\ CASE m.type \in {"discReq", "discRsp"} -> FinalMsg(s, m.dcid, m)
       [] m.type \in {"connRsp", "configRsp"} -> ChannelMsg(s, m.scid, m)
       [] m.type \in {"configReq", "data"} -> ChannelMsg(s, m.dcid, m)
  /\ UNCHANGED <<state, local, remote, op>>

Deliver(s) ==
  /\ link[s] # <<>>
  /\ LET m == Head(link[s]) IN
     IF m.type = "connReq" THEN OnConnectionRequest(s, m) ELSE Forward(s, m)
  /\ UNCHANGED <<written, received, reconfigures>>

-----------------------------------------------------------------------------
TaskStep(e) == \/ NewChannel(e) \/ Connect(e) \/ Configure(e) \/ Reconfigure(e) \/ Write(e)
               \/ WriteTimesOut(e) \/ Disconnect(e) \/ Drop(e) \/ Poll(e) \/ PollClosed(e)

Next == (\E e \in Ends : TaskStep(e)) \/ (\E s \in Hosts : Deliver(s))

Spec == Init /\ [][Next]_vars

(***************************************************************************)
(* The link delivers, a server handles what it is given, and a task whose  *)
(* future is ready is polled; it configures a new channel before anything  *)
(* else and drops its channel when it ends.  Nobody has to connect, write, *)
(* reconfigure or disconnect.                                              *)
(***************************************************************************)
Fairness ==
  /\ \A s \in Hosts : WF_vars(Deliver(s))
  /\ \A e \in Ends : /\ WF_vars(Connect(e))
                     /\ WF_vars(Configure(e))
                     /\ WF_vars(Poll(e))
                     /\ WF_vars(PollClosed(e))
                     /\ WF_vars(WriteTimesOut(e))
                     /\ WF_vars(op[e] = "ended" /\ Drop(e))

FairSpec == Spec /\ Fairness

-----------------------------------------------------------------------------
(* The type of every variable. *)
TypeOK ==
  /\ state \in [Ends -> States]
  /\ local \in [Ends -> AllCids]
  /\ \A e \in Ends : local[e] \in Cids[Host(e)] \cup {NoCid}
  /\ remote \in [Ends -> AllCids]
  /\ inbox \in [Ends -> Seq(Packet)]
  /\ op \in [Ends -> Ops]
  /\ DOMAIN table = Hosts
  /\ \A s \in Hosts : table[s] \in [Cids[s] -> Ends \cup {None}]
  /\ link \in [Hosts -> Seq(Packet)]
  /\ written \in [Ends -> Nat]
  /\ \A e \in Ends : written[e] <= MaxWrites[e]
  /\ received \in [Ends -> Seq(Packet)]
  /\ reconfigures \in 0..MaxReconfigures

Quit(e) == op[e] \in {"disconnecting", "ended", "dropped"}

(***************************************************************************)
(* A connection that is asked for is open at both ends, whatever the order *)
(* in which the ends configure it, unless one of them quits.               *)
(***************************************************************************)
HandshakeCompletes ==
  \A e \in Ends :
    op[e] = "created"
      ~> \/ state[e] = "open" /\ state[Peer(e)] = "open"
         \/ Quit(e) \/ Quit(Peer(e)) \/ reconfigures > 0

Closing == {"waitDisconnect", "disconnected"}

(* No server has handed out an id twice. *)
IdsOnce ==
  \A e, f \in Ends : Host(e) = Host(f) /\ local[e] = local[f] => e = f \/ local[e] = NoCid

(* The peer's id of another channel, closed or closing, is e's own id: the *)
(* DisconnectionResponse for that channel is taken for one to e.           *)
MixedUp(e) ==
  \E f \in Ends : Host(f) = Host(e) /\ f # e /\ remote[f] = local[e] /\ state[f] \in Closing

(***************************************************************************)
(* An end is open only when its peer has sent its own configuration and    *)
(* taken over this one: the peer is open too, or waits for a response that *)
(* is on its way (or will, if it was mixed up with another), or is closing. *)
(***************************************************************************)
OnItsWay(e, type) ==
  \/ type \in EventTypes(e)
  \/ \E i \in 1..Len(link[Host(e)]) : link[Host(e)][i].type = type

OpenAgrees ==
  reconfigures = 0 /\ IdsOnce =>
    \A e \in Ends : state[e] = "open" =>
      \/ state[Peer(e)] \in {"open"} \cup Closing
      \/ state[Peer(e)] = "configRsp" /\ (OnItsWay(Peer(e), "configRsp") \/ MixedUp(Peer(e)))

(***************************************************************************)
(* What read() returns is what the peer wrote, in order and without a gap: *)
(* no packet reaches an end that is not open yet, or one whose write()     *)
(* waits for the configuration and throws data away.  A reconfiguration of *)
(* an open channel breaks this, and so does an id that is handed out again. *)
(***************************************************************************)
NothingLost ==
  reconfigures = 0 /\ IdsOnce =>
    \A e \in Ends : \A i \in 1..Len(received[e]) :
      received[e][i].from = Peer(e) /\ received[e][i].seq = i

(* Why a server stops delivering to e: the Channel or its connection ended, *)
(* or will by an event in the inbox or ignored, or it was mixed up.         *)
Released(e) ==
  \/ op[e] = "dropped"
  \/ state[e] \in Closing
  \/ "discReq" \in EventTypes(e)
  \/ state[e] = "waitConnectRsp" /\ inbox[e] = <<>>
  \/ MixedUp(e)

(***************************************************************************)
(* A packet is returned by another channel than the one it was written to  *)
(* only if an id was handed out again: that of the channel it was written  *)
(* to, which was released, or that of the writer, which then took over the *)
(* ConnectionResponse to the channel that had the id before.  Nothing      *)
(* waits for the DisconnectionResponse before reusing an id, and connect() *)
(* takes any ConnectionResponse for the answer to its request.             *)
(***************************************************************************)
MisdeliveredOnlyOnReuse ==
  \A e \in Ends : \A i \in 1..Len(received[e]) :
    LET from == received[e][i].from
        target == Peer(from)
    IN target # e =>
         \/ local[target] = local[e] /\ Released(target)
         \/ /\ remote[from] # local[target]
            /\ \E f \in Ends : f # from /\ Host(f) = Host(from) /\ local[f] = local[from]

(***************************************************************************)
(* A server stops delivering to a channel nobody asked to disconnect only  *)
(* when it takes a DisconnectionResponse's DCID, the peer's id of another  *)
(* channel, for its own id of this one.                                    *)
(***************************************************************************)
UnregisteredOnlyByCollision ==
  \A e \in Ends :
    state[e] \in Connected /\ "discReq" \notin EventTypes(e) /\ Unregistered(e) => MixedUp(e)

(* An end that was dropped before it knew its peer's channel id: its      *)
(* DisconnectionRequest names no channel, so the peer is left behind.      *)
Abandoned(e) == op[e] = "dropped" /\ remote[e] = NoCid

(***************************************************************************)
(* When an end drops its channel the peer's task ends too, unless the peer *)
(* is left behind.                                                         *)
(***************************************************************************)
PeerLearns ==
  \A e \in Ends :
    op[e] = "dropped" ~> Abandoned(e) \/ op[Peer(e)] \in {"none", "ended", "dropped"}

(***************************************************************************)
(* disconnect() returns: the DisconnectionResponse closes the channel that *)
(* waits for it (WAIT_DISCONNECT, [Vol 3] Part A, Section 6.1.6).  An end  *)
(* left behind is answered with a CommandReject, and waits forever.        *)
(***************************************************************************)
DisconnectCompletes ==
  \A e \in Ends :
    op[e] = "disconnecting" ~> op[e] \in {"ended", "dropped"} \/ Abandoned(Peer(e))

=============================================================================
