---------------------------- MODULE AvdtpSession ----------------------------
(***************************************************************************)
(* AVDTP (avdtp/mod.rs, avdtp/endpoint.rs): the signaling session a peer   *)
(* has on a connection, its streams, and the hand-over of a stream's       *)
(* transport channel to the session.                                       *)
(*                                                                         *)
(* handle() is given every channel on the AVDTP PSM: by the L2capServer    *)
(* for those peers ask for, one at a time, and by the task of a connect()  *)
(* for its own.  The first channel of a connection becomes the signaling   *)
(* channel of a session that runs in a thread; the session of a connection *)
(* is known by the slot in pending_streams, which the session fills with   *)
(* the sender of a oneshot when a stream is opened.  A later channel takes *)
(* that sender, and a task sends the channel through it.                   *)
(*                                                                         *)
(* A session is named by its signaling channel.  Of its oneshots only the  *)
(* last matters, that of the latest Open: a sender of an earlier one is    *)
(* stale.  Data, capabilities and signals that change nothing here (or are *)
(* rejected) are left out.                                                 *)
(***************************************************************************)
EXTENDS Naturals, Sequences, FiniteSets

CONSTANTS
  Connections,  (* the ACL connections                                      *)
  Channels,     (* the channels made on the AVDTP PSM                       *)
  ConnectionOf, (* the connection of each                                   *)
  Local,        (* those made by connect(), the others by the peer          *)
  Endpoints,    (* the local endpoints, shared by all sessions              *)
  MaxHangUps,   (* bound: channels the peers disconnect                     *)
  None

ASSUME ChannelsAssumption == /\ ConnectionOf \in [Channels -> Connections]
                             /\ Local \subseteq Channels
                             /\ None \notin Channels \cup Endpoints
                             /\ MaxHangUps \in Nat

VARIABLES
  place,      (* where each channel is                                      *)
  want,       (* what the peer made it for: an endpoint, None for signaling *)
  failed,     (* channels whose connect() or configure() failed             *)
  hungUp,     (* channels the peer has disconnected                         *)
  pending,    (* Avdtp::pending_streams: whose slot a connection has        *)
  found,      (* the session whose slot handle() has found                  *)
  slot,       (* AvdtpSession::channel_sender holds a sender               *)
  receiver,   (* AvdtpSession::channel_receiver is On                       *)
  sender,     (* the sender the task of a transport channel has taken       *)
  delivered,  (* the channel in the session's oneshot                       *)
  streams,    (* AvdtpSession::streams                                      *)
  inUse,      (* LocalEndpoint::in_use                                      *)
  panicked,   (* history: sessions that ended in a panic                    *)
  overlapped  (* history: sessions whose openings were not one by one       *)

handling == <<pending, found>>
oneshot == <<slot, receiver, sender, delivered>>
session == <<streams, inUse>>
history == <<panicked, overlapped>>
vars == <<place, want, failed, hungUp, handling, oneshot, session, history>>

Places == {"unused", "connecting", "arrived", "new", "found", "setup", "session", "ending",
           "removed", "handing", "delivered", "stream", "closed"}

Senders == {"none", "latest", "stale"}

(* A session that reads signals, or is about to. *)
Live(s) == place[s] \in {"setup", "session"}

StreamStates == {"configured", "opening", "open", "streaming", "closing"}
Stream == [endpoint : Endpoints, state : StreamStates, channel : Channels \cup {None}]

Init ==
  /\ place = [c \in Channels |-> "unused"]
  /\ want = [c \in Channels |-> None]
  /\ failed = {}
  /\ hungUp = {}
  /\ pending = [h \in Connections |-> None]
  /\ found = [c \in Channels |-> None]
  /\ slot = [c \in Channels |-> FALSE]
  /\ receiver = [c \in Channels |-> FALSE]
  /\ sender = [c \in Channels |-> "none"]
  /\ delivered = [c \in Channels |-> None]
  /\ streams = [c \in Channels |-> <<>>]
  /\ inUse = {}
  /\ panicked = {}
  /\ overlapped = {}

Move(c, to) == place' = [place EXCEPT ![c] = to]

(* The streams of session s with endpoint e. *)
At(s, e) == {i \in 1..Len(streams[s]) : streams[s][i].endpoint = e}

Opening(s) == {i \in 1..Len(streams[s]) : streams[s][i].state = "opening"}

First(S) == CHOOSE i \in S : \A j \in S : i <= j

-----------------------------------------------------------------------------
(* The peer, and the application's connect().                              *)

(* The peer's channels on a connection that are still of use to it. *)
Wanted(h, e) == {c \in Channels \ Local : /\ ConnectionOf[c] = h
                                          /\ place[c] \notin {"unused", "closed"}
                                          /\ c \notin hungUp
                                          /\ want[c] = e}

(* The peer connects a signaling channel when it has none. *)
PeerSignals(c) ==
  /\ c \notin Local
  /\ place[c] = "unused"
  /\ Wanted(ConnectionOf[c], None) = {}
  /\ \A s \in Local : ConnectionOf[s] = ConnectionOf[c] => place[s] # "session" \/ s \in hungUp
  /\ Move(c, "arrived")
  /\ UNCHANGED <<want, failed, hungUp, handling, oneshot, session, history>>

(* The peer connects a transport channel for a stream it has opened. *)
PeerTransports(c, s, e) ==
  /\ c \notin Local
  /\ place[c] = "unused"
  /\ place[s] = "session"
  /\ ConnectionOf[s] = ConnectionOf[c]
  /\ \E i \in At(s, e) : streams[s][i].state = "opening"
  /\ Wanted(ConnectionOf[c], e) = {}
  /\ Move(c, "arrived")
  /\ want' = [want EXCEPT ![c] = e]
  /\ UNCHANGED <<failed, hungUp, handling, oneshot, session, history>>

HangUp(c) ==
  /\ place[c] \in {"setup", "session", "handing", "delivered", "stream"}
  /\ c \notin hungUp
  /\ Cardinality(hungUp) < MaxHangUps
  /\ hungUp' = hungUp \cup {c}
  /\ UNCHANGED <<place, want, failed, handling, oneshot, session, history>>

Connect(c) ==
  /\ c \in Local
  /\ place[c] = "unused"
  /\ Move(c, "connecting")
  /\ UNCHANGED <<want, failed, hungUp, handling, oneshot, session, history>>

(* connect() ignores the outcome and goes on to handle(). *)
Connected(c) ==
  /\ place[c] = "connecting"
  /\ Move(c, "arrived")
  /\ failed' \in {failed, failed \cup {c}}
  /\ UNCHANGED <<want, hungUp, handling, oneshot, session, history>>

-----------------------------------------------------------------------------
(* handle(): looks the connection up, and lets the lock go.                *)

Lookup(c) ==
  /\ place[c] = "arrived"
  /\ c \notin Local => \A d \in Channels \ Local : place[d] \notin {"new", "found"}
  /\ found' = [found EXCEPT ![c] = pending[ConnectionOf[c]]]
  /\ Move(c, IF pending[ConnectionOf[c]] = None THEN "new" ELSE "found")
  /\ UNCHANGED <<want, failed, hungUp, pending, oneshot, session, history>>

(* Unknown: a session of its own, in a new thread. *)
Insert(c) ==
  /\ place[c] = "new"
  /\ pending' = [pending EXCEPT ![ConnectionOf[c]] = c]
  /\ Move(c, "setup")
  /\ UNCHANGED <<want, failed, hungUp, found, oneshot, session, history>>

(* The thread's configure() succeeds ... *)
StartSession(c) ==
  /\ place[c] = "setup"
  /\ c \notin failed
  /\ Move(c, "session")
  /\ UNCHANGED <<want, failed, hungUp, handling, oneshot, session, history>>

(* ... or fails, on a channel that never was connected or that the peer    *)
(* has disconnected: the thread returns, and leaves its entry behind.      *)
StartFails(c) ==
  /\ place[c] = "setup"
  /\ c \in failed \cup hungUp
  /\ failed' = failed \cup {c}
  /\ Move(c, "closed")
  /\ UNCHANGED <<want, hungUp, handling, oneshot, session, history>>

(* Known: take the sender, and accept; without one, reject.  A channel of  *)
(* connect() has no request to accept: it is dropped with the sender.      *)
TakeSender(c) ==
  /\ place[c] = "found"
  /\ slot' = [slot EXCEPT ![found[c]] = FALSE]
  /\ IF slot[found[c]] /\ c \notin Local
     THEN /\ Move(c, "handing")
          /\ sender' = [sender EXCEPT ![c] = "latest"]
          /\ found' = found
     ELSE /\ Move(c, "closed")
          /\ sender' = sender
          /\ found' = [found EXCEPT ![c] = None]
  /\ UNCHANGED <<want, failed, hungUp, pending, receiver, delivered, session, history>>

(* The task of a transport channel configures it and sends it, if the      *)
(* oneshot still has its receiver.                                         *)
HandOver(c) ==
  /\ place[c] = "handing"
  /\ LET s == found[c] IN
     IF receiver[s] /\ sender[c] = "latest"
     THEN /\ delivered' = [delivered EXCEPT ![s] = c]
          /\ Move(c, "delivered")
     ELSE /\ delivered' = delivered
          /\ Move(c, "closed")
  /\ sender' = [sender EXCEPT ![c] = "none"]
  /\ found' = [found EXCEPT ![c] = None]
  /\ UNCHANGED <<want, failed, hungUp, pending, slot, receiver, session, history>>

(* configure() fails: the sender is dropped with the channel. *)
ConfigureFails(c) ==
  /\ place[c] = "handing"
  /\ c \in hungUp
  /\ failed' = failed \cup {c}
  /\ sender' = [sender EXCEPT ![c] = "none"]
  /\ Move(c, "closed")
  /\ UNCHANGED <<want, hungUp, handling, slot, receiver, delivered, session, history>>

-----------------------------------------------------------------------------
(* The session's loop.                                                     *)

(* Channels dropped by a step. *)
Close(C) == place' = [c \in Channels |-> IF c \in C THEN "closed" ELSE place[c]]

SetStream(s, i, st, c) ==
  streams' = [streams EXCEPT ![s][i] = [endpoint |-> @.endpoint, state |-> st, channel |-> c]]

(* Vec::swap_remove *)
SwapRemove(q, i) == SubSeq([q EXCEPT ![i] = q[Len(q)]], 1, Len(q) - 1)

(* The stream is dropped, with its channel and its lock. *)
RemoveStream(s, i) ==
  /\ Close({streams[s][i].channel})
  /\ streams' = [streams EXCEPT ![s] = SwapRemove(@, i)]
  /\ inUse' = inUse \ {streams[s][i].endpoint}

(* Session s is in handle_control_channel. *)
InLoop(s) == place[s] = "session"

(* Mutant: an endpoint is not locked against other sessions. *)
SetConfiguration_Shared(s, e) ==
  /\ InLoop(s)
  /\ At(s, e) = {}
  /\ inUse' = inUse \cup {e}
  /\ streams' = [streams EXCEPT ![s] =
                   Append(@, [endpoint |-> e, state |-> "configured", channel |-> None])]
  /\ UNCHANGED <<place, want, failed, hungUp, handling, oneshot, history>>

SetConfiguration(s, e) ==
  /\ InLoop(s)
  /\ At(s, e) = {}
  /\ e \notin inUse
  /\ inUse' = inUse \cup {e}
  /\ streams' = [streams EXCEPT ![s] =
                   Append(@, [endpoint |-> e, state |-> "configured", channel |-> None])]
  /\ UNCHANGED <<place, want, failed, hungUp, handling, oneshot, history>>

(* The channels made for streams of s that have not taken a sender yet. *)
Unclaimed(s) == {c \in Channels : /\ ConnectionOf[c] = ConnectionOf[s]
                                  /\ want[c] # None
                                  /\ place[c] \in {"arrived", "found"}}

(* The tasks whose senders are for session s. *)
Handing(s) == {c \in Channels : place[c] = "handing" /\ found[c] = s}

(* Mutant: a receiver that is On is kept, with its sender. *)
Open_KeepsReceiver(s, e) ==
  /\ InLoop(s)
  /\ \E i \in At(s, e) :
       /\ streams[s][i].state = "configured"
       /\ SetStream(s, i, "opening", None)
  /\ slot' = [slot EXCEPT ![s] = @ \/ ~receiver[s]]
  /\ receiver' = [receiver EXCEPT ![s] = TRUE]
  /\ overlapped' = IF Opening(s) # {} \/ Unclaimed(s) # {} THEN overlapped \cup {s} ELSE overlapped
  /\ UNCHANGED <<place, want, failed, hungUp, handling, sender, delivered, inUse, panicked>>

(* Mutant: the session goes on listening to the earlier receiver. *)
Open_KeepsOldReceiver(s, e) ==
  /\ InLoop(s)
  /\ \E i \in At(s, e) :
       /\ streams[s][i].state = "configured"
       /\ SetStream(s, i, "opening", None)
  /\ slot' = [slot EXCEPT ![s] = ~receiver[s]]
  /\ receiver' = [receiver EXCEPT ![s] = TRUE]
  /\ overlapped' = IF Opening(s) # {} \/ Unclaimed(s) # {} THEN overlapped \cup {s} ELSE overlapped
  /\ UNCHANGED <<place, want, failed, hungUp, handling, sender, delivered, inUse, panicked>>

(* A new oneshot: the earlier one goes, with what is in it. *)
Open(s, e) ==
  /\ InLoop(s)
  /\ \E i \in At(s, e) :
       /\ streams[s][i].state = "configured"
       /\ SetStream(s, i, "opening", None)
  /\ slot' = [slot EXCEPT ![s] = TRUE]
  /\ receiver' = [receiver EXCEPT ![s] = TRUE]
  /\ sender' = [c \in Channels |-> IF c \in Handing(s) THEN "stale" ELSE sender[c]]
  /\ delivered' = [delivered EXCEPT ![s] = None]
  /\ Close({delivered[s]})
  /\ overlapped' = IF Opening(s) # {} \/ Unclaimed(s) # {} THEN overlapped \cup {s} ELSE overlapped
  /\ UNCHANGED <<want, failed, hungUp, handling, inUse, panicked>>

Start(s, e) ==
  /\ InLoop(s)
  /\ \E i \in At(s, e) : /\ streams[s][i].state = "open"
                         /\ SetStream(s, i, "streaming", streams[s][i].channel)
  /\ UNCHANGED <<place, want, failed, hungUp, handling, oneshot, inUse, history>>

Suspend(s, e) ==
  /\ InLoop(s)
  /\ \E i \in At(s, e) : /\ streams[s][i].state = "streaming"
                         /\ SetStream(s, i, "open", streams[s][i].channel)
  /\ UNCHANGED <<place, want, failed, hungUp, handling, oneshot, inUse, history>>

(* Mutant: the transport channel stays with the stream. *)
CloseStream_KeepsChannel(s, e) ==
  /\ InLoop(s)
  /\ \E i \in At(s, e) : /\ streams[s][i].state \in {"open", "streaming"}
                         /\ SetStream(s, i, "closing", streams[s][i].channel)
  /\ UNCHANGED <<place, want, failed, hungUp, handling, oneshot, inUse, history>>

CloseStream(s, e) ==
  /\ InLoop(s)
  /\ \E i \in At(s, e) : /\ streams[s][i].state \in {"open", "streaming"}
                         /\ SetStream(s, i, "closing", None)
                         /\ Close({streams[s][i].channel})
  /\ UNCHANGED <<want, failed, hungUp, handling, oneshot, inUse, history>>

(* Mutant: whichever stream is aborted, the session stops listening. *)
Abort_ClearsReceiver(s, e) ==
  /\ InLoop(s)
  /\ \E i \in At(s, e) : RemoveStream(s, i)
  /\ receiver' = [receiver EXCEPT ![s] = FALSE]
  /\ UNCHANGED <<want, failed, hungUp, handling, slot, sender, delivered, history>>

Abort(s, e) ==
  /\ InLoop(s)
  /\ \E i \in At(s, e) : RemoveStream(s, i)
  /\ UNCHANGED <<want, failed, hungUp, handling, oneshot, history>>

Ended(s) == {i \in 1..Len(streams[s]) : \/ streams[s][i].state = "closing"
                                        \/ streams[s][i].channel \in hungUp}

(* select_all: the first stream that has ended is removed. *)
StreamEnds(s) ==
  /\ InLoop(s)
  /\ Ended(s) # {}
  /\ RemoveStream(s, First(Ended(s)))
  /\ UNCHANGED <<want, failed, hungUp, handling, oneshot, history>>

(* The oneshot's channel goes to the first stream that is opening. *)
Receive(s) ==
  /\ InLoop(s)
  /\ delivered[s] # None
  /\ receiver' = [receiver EXCEPT ![s] = FALSE]
  /\ delivered' = [delivered EXCEPT ![s] = None]
  /\ IF Opening(s) = {}
     THEN streams' = streams /\ Close({delivered[s]})
     ELSE /\ SetStream(s, First(Opening(s)), "open", delivered[s])
          /\ Move(delivered[s], "stream")
  /\ UNCHANGED <<want, failed, hungUp, handling, slot, sender, inUse, history>>

(* Everything a session owns is dropped, and it is at place p. *)
DropAll(s) ==
  /\ Close({s, delivered[s]} \cup {streams[s][i].channel : i \in 1..Len(streams[s])})
  /\ inUse' = inUse \ {streams[s][i].endpoint : i \in 1..Len(streams[s])}
  /\ streams' = [streams EXCEPT ![s] = <<>>]
  /\ receiver' = [receiver EXCEPT ![s] = FALSE]
  /\ delivered' = [delivered EXCEPT ![s] = None]

(* The oneshot's sender is gone without a channel: expect() panics, and    *)
(* the thread ends before it removes its entry.                            *)
SenderLost(s) ==
  /\ receiver[s]
  /\ ~slot[s]
  /\ delivered[s] = None
  /\ \A c \in Handing(s) : sender[c] = "stale"

Panic(s) ==
  /\ InLoop(s)
  /\ SenderLost(s)
  /\ DropAll(s)
  /\ panicked' = panicked \cup {s}
  /\ UNCHANGED <<want, failed, hungUp, handling, slot, sender, overlapped>>

(* The peer disconnected the signaling channel: read() returns None. *)
EndLoop(s) ==
  /\ InLoop(s)
  /\ s \in hungUp
  /\ Move(s, "ending")
  /\ UNCHANGED <<want, failed, hungUp, handling, oneshot, session, history>>

(* Mutant: the entry stays. *)
RemoveEntry_Forgotten(s) ==
  /\ place[s] = "ending"
  /\ Move(s, "removed")
  /\ UNCHANGED <<want, failed, hungUp, handling, oneshot, session, history>>

(* Whichever entry the connection has. *)
RemoveEntry(s) ==
  /\ place[s] = "ending"
  /\ pending' = [pending EXCEPT ![ConnectionOf[s]] = None]
  /\ Move(s, "removed")
  /\ UNCHANGED <<want, failed, hungUp, found, oneshot, session, history>>

DropSession(s) ==
  /\ place[s] = "removed"
  /\ DropAll(s)
  /\ UNCHANGED <<want, failed, hungUp, handling, slot, sender, history>>

-----------------------------------------------------------------------------
Arrive(c) == \/ PeerSignals(c) \/ HangUp(c) \/ Connect(c) \/ Connected(c)
             \/ \E s \in Channels, e \in Endpoints : PeerTransports(c, s, e)

Handle(c) == \/ Lookup(c) \/ Insert(c) \/ StartSession(c) \/ StartFails(c)
             \/ TakeSender(c) \/ HandOver(c) \/ ConfigureFails(c)

Signal(s, e) == \/ SetConfiguration(s, e) \/ Open(s, e) \/ Start(s, e) \/ Suspend(s, e)
                \/ CloseStream(s, e) \/ Abort(s, e)

Loop(s) == \/ StreamEnds(s) \/ Receive(s) \/ Panic(s) \/ EndLoop(s) \/ RemoveEntry(s)
           \/ DropSession(s)

Next == \E c \in Channels : \/ Arrive(c) \/ Handle(c) \/ Loop(c)
                            \/ \E e \in Endpoints : Signal(c, e)

Spec == Init /\ [][Next]_vars

-----------------------------------------------------------------------------
(* The type of every variable. *)
TypeOK ==
  /\ place \in [Channels -> Places]
  /\ want \in [Channels -> Endpoints \cup {None}]
  /\ failed \subseteq Channels
  /\ hungUp \subseteq Channels
  /\ pending \in [Connections -> Channels \cup {None}]
  /\ found \in [Channels -> Channels \cup {None}]
  /\ slot \in [Channels -> BOOLEAN]
  /\ receiver \in [Channels -> BOOLEAN]
  /\ sender \in [Channels -> Senders]
  /\ delivered \in [Channels -> Channels \cup {None}]
  /\ streams \in [Channels -> Seq(Stream)]
  /\ inUse \subseteq Endpoints
  /\ panicked \subseteq Channels
  /\ overlapped \subseteq Channels

AllStreams == UNION {{s} \X (1..Len(streams[s])) : s \in Channels}
StreamAt(x) == streams[x[1]][x[2]]

(***************************************************************************)
(* An endpoint is marked in use exactly while one stream, of whichever     *)
(* session, has it: aborts, closes, lost channels, panics and the end of a *)
(* session all give it back, once.                                         *)
(***************************************************************************)
EndpointsLocked ==
  /\ inUse = {StreamAt(x).endpoint : x \in AllStreams}
  /\ \A x, y \in AllStreams : StreamAt(x).endpoint = StreamAt(y).endpoint => x = y

(***************************************************************************)
(* A stream has a transport channel exactly while it is open or streaming, *)
(* and shares it with no other: what set_channel() asserts, and what Close *)
(* and the loss of the channel must undo.                                  *)
(***************************************************************************)
ChannelsMatchStates ==
  \A x \in AllStreams :
    /\ StreamAt(x).channel # None <=> StreamAt(x).state \in {"open", "streaming"}
    /\ StreamAt(x).channel # None =>
         /\ place[StreamAt(x).channel] = "stream"
         /\ \A y \in AllStreams : StreamAt(y).channel = StreamAt(x).channel => x = y

(* connect() has been called on connection h. *)
ConnectedBySelf(h) == \E c \in Local : ConnectionOf[c] = h /\ place[c] # "unused"

(* The peer has hung up a signaling channel of connection h. *)
SignalingLost(h) == \E s \in hungUp : ConnectionOf[s] = h /\ want[s] = None

(***************************************************************************)
(* A stream has the channel the peer made for it, unless it was opened     *)
(* while another was opening or a channel for another had yet to take its  *)
(* sender: a channel that took the sender of an earlier Open is never      *)
(* given to a later stream.  It takes a peer that keeps its signaling      *)
(* channel, and no connect(): otherwise the signaling and the transport    *)
(* channels of the connection can be mixed up.                             *)
(***************************************************************************)
RightChannel ==
  \A x \in AllStreams :
    LET c == StreamAt(x).channel IN
    c # None => \/ want[c] = StreamAt(x).endpoint
                \/ x[1] \in overlapped
                \/ SignalingLost(ConnectionOf[c])
                \/ ConnectedBySelf(ConnectionOf[c])

(***************************************************************************)
(* Without connect(), a connection's entry in pending_streams is that of   *)
(* its session: no session is unknown, so that its transport channels      *)
(* would start sessions of their own, and an entry outlives its session,   *)
(* so that every later channel of the peer is turned away, only after a    *)
(* failed configure() or a panic.                                          *)
(***************************************************************************)
EntryMatchesSession ==
  \A h \in Connections : ConnectedBySelf(h)
    \/ /\ pending[h] # None => \/ place[pending[h]] \in {"setup", "session", "ending"}
                               \/ pending[h] \in failed \cup panicked
       /\ \A s \in Channels : Live(s) /\ ConnectionOf[s] = h => pending[h] = s

(***************************************************************************)
(* The expect() of the loop fails only after a channel of connect(), or    *)
(* one whose configure() failed, took the session's sender and dropped it: *)
(* no sequence of Opens, Closes and Aborts, and no delay of a channel,     *)
(* loses a sender.                                                         *)
(***************************************************************************)
PanicsExplained ==
  \A s \in panicked : \/ ConnectedBySelf(ConnectionOf[s])
                      \/ \E c \in failed : found[c] = s

(***************************************************************************)
(* A stream that is opening can still be served: the session is listening, *)
(* and the sender waits in the slot, or has been taken by a task that will *)
(* send, or has sent.  It is not while the loop is about to panic, nor     *)
(* when several streams were opening at once.                              *)
(***************************************************************************)
OpeningServable ==
  \A s \in Channels :
    InLoop(s) /\ Opening(s) # {} =>
      \/ s \in overlapped
      \/ SenderLost(s)
      \/ receiver[s] /\ \/ slot[s]
                        \/ delivered[s] # None
                        \/ \E c \in Handing(s) : sender[c] = "latest"

=============================================================================
