------------------------- MODULE AvdtpSession_proof -------------------------
(***************************************************************************)
(* Theorems about AvdtpSession: a channel is in one place at a time, an    *)
(* endpoint has one stream, and what follows for the hand-over of channels *)
(* to the streams they are meant for.                                      *)
(***************************************************************************)
EXTENDS AvdtpSession, SequenceTheorems, WellFoundedInduction, TLAPS

(* A session that has begun to read signals and is not dropped yet. *)
Running == {"session", "ending", "removed"}

(* What the place of a channel says of it. *)
PlaceInv ==
  /\ \A c \in Channels : place[c] = "unused" => c \notin hungUp \cup failed /\ want[c] = None
  /\ \A c \in Channels : place[c] = "connecting" => c \in Local
  /\ \A c \in Channels : place[c] \in {"found", "handing"} => found[c] # None
  /\ \A c \in Channels : place[c] = "handing" => c \notin Local /\ sender[c] # "none"
  /\ \A c \in Channels : place[c] \in {"ending", "removed"} => c \in hungUp
  /\ \A c \in failed \ Local : place[c] = "closed"
  /\ \A c \in panicked : place[c] = "closed"
  /\ \A c \in Channels : found[c] # None => ConnectionOf[found[c]] = ConnectionOf[c]
  /\ \A h \in Connections : pending[h] # None => ConnectionOf[pending[h]] = h

(* A session's oneshot goes with it, and holds a channel of its connection. *)
OneshotInv ==
  /\ \A s \in Channels : receiver[s] => place[s] \in Running
  /\ \A s \in Channels : slot[s] => place[s] \in Running \cup {"closed"}
  /\ \A s \in Channels : delivered[s] # None =>
       /\ receiver[s]
       /\ place[delivered[s]] = "delivered"
       /\ ConnectionOf[delivered[s]] = ConnectionOf[s]
  /\ \A s, t \in Channels : delivered[s] # None /\ delivered[s] = delivered[t] => s = t

(* Streams have an endpoint and a channel of their own. *)
Indices(s) == 1..Len(streams[s])
Taken == {"open", "streaming"}

StreamInv ==
  /\ \A s \in Channels : \A i \in Indices(s) :
       /\ place[s] \in Running
       /\ streams[s][i].endpoint \in inUse
       /\ streams[s][i].channel # None <=> streams[s][i].state \in Taken
       /\ streams[s][i].channel # None =>
            /\ place[streams[s][i].channel] = "stream"
            /\ ConnectionOf[streams[s][i].channel] = ConnectionOf[s]
  /\ \A e \in inUse : \E s \in Channels : \E i \in Indices(s) : streams[s][i].endpoint = e
  /\ \A s, t \in Channels : \A i \in Indices(s), j \in Indices(t) :
       \/ streams[s][i].endpoint = streams[t][j].endpoint
       \/ streams[s][i].channel # None /\ streams[s][i].channel = streams[t][j].channel
       => s = t /\ i = j

(* A channel of the peer took the sender of session s, and its configure() failed. *)
Dropped(s) == \E c \in failed \ Local : place[c] = "closed" /\ found[c] = s

(* A session that listens has a sender somewhere, or it is known who lost it. *)
SenderInv ==
  /\ \A s \in Channels : receiver[s] =>
       \/ slot[s] \/ delivered[s] # None
       \/ \E c \in Handing(s) : sender[c] = "latest"
       \/ ConnectedBySelf(ConnectionOf[s]) \/ Dropped(s)
  /\ \A s \in panicked : ConnectedBySelf(ConnectionOf[s]) \/ Dropped(s)

(* handle() is run for one channel of the peers at a time, so without connect() *)
(* nothing comes between the two looks at pending_streams.                      *)
EntryInv ==
  /\ \A c, d \in Channels \ Local :
       place[c] \in {"new", "found"} /\ place[d] \in {"new", "found"} => c = d
  /\ \A c \in Channels : LET h == ConnectionOf[c] IN
       \/ ConnectedBySelf(h)
       \/ /\ place[c] \in {"setup", "session", "ending"} => pending[h] = c
          /\ place[c] = "new" => pending[h] = None
          /\ pending[h] = c => \/ place[c] \in {"setup", "session", "ending"}
                               \/ c \in failed \cup panicked

(* Unless openings overlap there is one at a time, and the session listens. *)
OpenInv ==
  \A s \in Channels \ overlapped :
    /\ \A i, j \in Opening(s) : i = j
    /\ Opening(s) # {} => receiver[s]

(* Without connect() and the loss of a signaling channel a connection has one *)
(* session for good, and only transport channels take its sender.             *)
Quiet(h) == ~ConnectedBySelf(h) /\ ~SignalingLost(h)

QuietInv ==
  \A c \in Channels : LET h == ConnectionOf[c] IN Quiet(h) =>
    /\ want[c] = None => place[c] \notin {"handing", "delivered", "stream"}
    /\ want[c] = None => \A d \in Channels :
         /\ ConnectionOf[d] = h /\ want[d] = None
         /\ place[c] \notin {"unused", "closed"} /\ place[d] \notin {"unused", "closed"}
         => c = d
    /\ want[c] # None => pending[h] # None /\ place[c] \notin {"new", "setup"} \cup Running
    /\ found[c] # None => pending[h] = found[c]
    /\ pending[h] = c => want[c] = None /\ (place[c] = "closed" => ~slot[c])

(* What is on its way to the only opening of a session was made for it. *)
WantInv ==
  \A s \in Channels \ overlapped : Quiet(ConnectionOf[s]) =>
    \A i \in Opening(s) :
      /\ \A c \in Unclaimed(s) : want[c] = streams[s][i].endpoint
      /\ \A c \in Handing(s) : sender[c] = "latest" => want[c] = streams[s][i].endpoint
      /\ delivered[s] # None => want[delivered[s]] = streams[s][i].endpoint

-----------------------------------------------------------------------------
(* What the operators on streams do.                                       *)

LEMMA StreamsType ==
  ASSUME TypeOK, NEW s \in Channels
  PROVE  /\ streams[s] \in Seq(Stream) /\ Len(streams[s]) \in Nat
         /\ DOMAIN streams[s] = Indices(s)
         /\ \A i \in Indices(s) : /\ streams[s][i] \in Stream
                                  /\ streams[s][i].endpoint \in Endpoints
                                  /\ streams[s][i].state \in StreamStates
                                  /\ streams[s][i].channel \in Channels \cup {None}
<1>1. streams[s] \in Seq(Stream)
  BY DEF TypeOK
<1>2. \A i \in Indices(s) : streams[s][i] \in Stream
  BY <1>1, ElementOfSeq DEF Indices
<1>3. QED
  BY <1>1, <1>2, LenProperties DEF Indices, Stream

LEMMA Prefix ==
  ASSUME NEW S, NEW r, NEW n \in Nat, \A j \in 1..n : r[j] \in S
  PROVE  /\ SubSeq(r, 1, n) \in Seq(S)
         /\ Len(SubSeq(r, 1, n)) = n
         /\ \A j \in 1..n : SubSeq(r, 1, n)[j] = r[j]
<1>1. /\ SubSeq(r, 1, n) \in Seq(S)
      /\ Len(SubSeq(r, 1, n)) = IF 1 <= n THEN n - 1 + 1 ELSE 0
      /\ \A j \in 1..(n - 1 + 1) : SubSeq(r, 1, n)[j] = r[1 + j - 1]
  BY SubSeqProperties
<1>2. \A j \in 1..n : 1 + j - 1 = j
  OBVIOUS
<1>3. n - 1 + 1 = n
  OBVIOUS
<1>4. QED
  BY <1>1, <1>2, <1>3

LEMMA Removed ==
  ASSUME NEW S, NEW q \in Seq(S), NEW i \in 1..Len(q)
  PROVE  /\ SwapRemove(q, i) \in Seq(S)
         /\ Len(SwapRemove(q, i)) = Len(q) - 1
         /\ \A j \in 1..(Len(q) - 1) : SwapRemove(q, i)[j] = IF j = i THEN q[Len(q)] ELSE q[j]
<1>1. Len(q) \in Nat /\ Len(q) \in 1..Len(q) /\ q[Len(q)] \in S
  BY LenProperties, ElementOfSeq
<1> DEFINE r == [q EXCEPT ![i] = q[Len(q)]]
<1>2. /\ r \in Seq(S) /\ Len(r) = Len(q)
      /\ \A j \in 1..Len(q) : r[j] = IF j = i THEN q[Len(q)] ELSE q[j]
  BY <1>1, ExceptSeq
<1>3. \A j \in 1..(Len(q) - 1) : r[j] \in S
  BY <1>1, <1>2, ElementOfSeq
<1>4. /\ SubSeq(r, 1, Len(q) - 1) \in Seq(S)
      /\ Len(SubSeq(r, 1, Len(q) - 1)) = Len(q) - 1
      /\ \A j \in 1..(Len(q) - 1) : SubSeq(r, 1, Len(q) - 1)[j] = r[j]
  <2> DEFINE n == Len(q) - 1
  <2>1. n \in Nat /\ \A j \in 1..n : r[j] \in S
    BY <1>1, <1>3
  <2> HIDE DEF r, n
  <2>2. /\ SubSeq(r, 1, n) \in Seq(S)
        /\ Len(SubSeq(r, 1, n)) = n
        /\ \A j \in 1..n : SubSeq(r, 1, n)[j] = r[j]
    BY <2>1, Prefix
  <2>3. QED
    BY <2>2 DEF n
<1>5. QED
  BY <1>1, <1>2, <1>4 DEF SwapRemove

(* One stream comes to another state. *)
Changed(s, i, st, c) ==
  /\ streams' \in [Channels -> Seq(Stream)]
  /\ \A t \in Channels : Len(streams'[t]) = Len(streams[t])
  /\ \A t \in Channels : \A j \in 1..Len(streams[t]) :
       streams'[t][j] = IF t = s /\ j = i
                        THEN [endpoint |-> streams[s][i].endpoint, state |-> st, channel |-> c]
                        ELSE streams[t][j]

LEMMA StreamSet ==
  ASSUME TypeOK, NEW s \in Channels, NEW i \in Indices(s), NEW st \in StreamStates,
         NEW c \in Channels \cup {None}, SetStream(s, i, st, c)
  PROVE  Changed(s, i, st, c)
<1> DEFINE r == [endpoint |-> streams[s][i].endpoint, state |-> st, channel |-> c]
<1>1. /\ streams[s] \in Seq(Stream) /\ streams[s][i] \in Stream
      /\ DOMAIN streams[s] = Indices(s) /\ streams \in [Channels -> Seq(Stream)]
  BY StreamsType DEF TypeOK
<1>2. r \in Stream
  BY <1>1 DEF Stream
<1>3. streams' = [streams EXCEPT ![s] = [streams[s] EXCEPT ![i] = r]]
  BY DEF SetStream
<1>4. /\ [streams[s] EXCEPT ![i] = r] \in Seq(Stream)
      /\ Len([streams[s] EXCEPT ![i] = r]) = Len(streams[s])
      /\ \A j \in 1..Len(streams[s]) : [streams[s] EXCEPT ![i] = r][j] = IF j = i THEN r ELSE streams[s][j]
  BY <1>1, <1>2, ExceptSeq DEF Indices
<1>5. QED
  BY <1>1, <1>3, <1>4 DEF Changed

(* One stream is gone, and the last of its session takes its index. *)
Shrunk(s, i) ==
  /\ streams' \in [Channels -> Seq(Stream)]
  /\ \A t \in Channels : Len(streams'[t]) = IF t = s THEN Len(streams[t]) - 1 ELSE Len(streams[t])
  /\ \A t \in Channels : \A j \in 1..Len(streams'[t]) :
       streams'[t][j] = IF t = s /\ j = i THEN streams[t][Len(streams[t])] ELSE streams[t][j]

LEMMA StreamRemoved ==
  ASSUME TypeOK, NEW s \in Channels, NEW i \in Indices(s), RemoveStream(s, i)
  PROVE  Shrunk(s, i)
<1>1. streams[s] \in Seq(Stream) /\ streams \in [Channels -> Seq(Stream)] /\ Len(streams[s]) \in Nat
  BY StreamsType DEF TypeOK
<1>2. streams' = [streams EXCEPT ![s] = SwapRemove(streams[s], i)]
  BY DEF RemoveStream
<1>3. /\ SwapRemove(streams[s], i) \in Seq(Stream)
      /\ Len(SwapRemove(streams[s], i)) = Len(streams[s]) - 1
      /\ \A j \in 1..(Len(streams[s]) - 1) :
           SwapRemove(streams[s], i)[j] = IF j = i THEN streams[s][Len(streams[s])] ELSE streams[s][j]
  BY <1>1, Removed DEF Indices
<1>4. QED
  BY <1>1, <1>2, <1>3 DEF Shrunk

(* A stream is added to a session. *)
Added(s, e) ==
  /\ streams' \in [Channels -> Seq(Stream)]
  /\ \A t \in Channels : Len(streams'[t]) = IF t = s THEN Len(streams[t]) + 1 ELSE Len(streams[t])
  /\ \A t \in Channels : \A j \in 1..Len(streams[t]) : streams'[t][j] = streams[t][j]
  /\ streams'[s][Len(streams[s]) + 1] = [endpoint |-> e, state |-> "configured", channel |-> None]

LEMMA StreamAdded ==
  ASSUME TypeOK, NEW s \in Channels, NEW e \in Endpoints, SetConfiguration(s, e)
  PROVE  Added(s, e)
<1> DEFINE r == [endpoint |-> e, state |-> "configured", channel |-> None]
<1>1. streams[s] \in Seq(Stream) /\ streams \in [Channels -> Seq(Stream)] /\ Len(streams[s]) \in Nat
  BY StreamsType DEF TypeOK
<1>2. streams' = [streams EXCEPT ![s] = Append(streams[s], r)]
  BY DEF SetConfiguration
<1>3. r \in Stream
  BY DEF Stream, StreamStates
<1>4. /\ Append(streams[s], r) \in Seq(Stream)
      /\ Len(Append(streams[s], r)) = Len(streams[s]) + 1
      /\ \A j \in 1..Len(streams[s]) : Append(streams[s], r)[j] = streams[s][j]
      /\ Append(streams[s], r)[Len(streams[s]) + 1] = r
  BY <1>1, <1>3, AppendProperties
<1>5. QED
  BY <1>1, <1>2, <1>4 DEF Added

(* A session has no stream left. *)
Emptied(s) ==
  /\ streams' \in [Channels -> Seq(Stream)]
  /\ \A t \in Channels : Len(streams'[t]) = IF t = s THEN 0 ELSE Len(streams[t])
  /\ \A t \in Channels : t # s => streams'[t] = streams[t]

LEMMA StreamsEmptied ==
  ASSUME TypeOK, NEW s \in Channels, DropAll(s)
  PROVE  Emptied(s)
<1>1. <<>> \in Seq(Stream) /\ Len(<<>>) = 0
  BY EmptySeq
<1>2. QED
  BY <1>1 DEF DropAll, TypeOK, Emptied

-----------------------------------------------------------------------------
(* Types.                                                                  *)

LEMMA FirstOf == ASSUME NEW S, S \subseteq Nat, S # {} PROVE First(S) \in S
<1>1. PICK i \in S : \A j \in S : ~(<<j, i>> \in OpToRel(<, Nat))
  BY WFMin, NatLessThanWellFounded
<1>2. \A j \in S : i <= j
  <2>1. TAKE j \in S
  <2>2. ~(j < i)
    BY <1>1 DEF OpToRel
  <2>3. QED
    BY <2>2
<1>3. QED
  BY <1>2 DEF First

LEMMA FirstOpening ==
  ASSUME TypeOK, NEW s \in Channels, Opening(s) # {}
  PROVE  First(Opening(s)) \in Opening(s)
<1>1. Opening(s) \subseteq Nat
  BY StreamsType DEF Opening
<1>2. QED
  BY <1>1, FirstOf

LEMMA FirstEnded ==
  ASSUME TypeOK, NEW s \in Channels, Ended(s) # {}
  PROVE  First(Ended(s)) \in Ended(s)
<1>1. Ended(s) \subseteq Nat
  BY StreamsType DEF Ended
<1>2. QED
  BY <1>1, FirstOf

LEMMA MoveType ==
  ASSUME TypeOK, NEW c \in Channels, NEW p \in Places, Move(c, p)
  PROVE  place' \in [Channels -> Places]
BY DEF TypeOK, Move

LEMMA CloseType ==
  ASSUME TypeOK, NEW C, Close(C)
  PROVE  place' \in [Channels -> Places]
BY DEF TypeOK, Close, Places

LEMMA ArriveTypes == ASSUME TypeOK, NEW c \in Channels, Arrive(c) PROVE TypeOK'
<1> USE DEF handling, oneshot, session, history
<1>1. CASE PeerSignals(c)
  <2>1. place' \in [Channels -> Places]
    BY <1>1, MoveType DEF PeerSignals, Places
  <2>2. QED
    BY <1>1, <2>1 DEF PeerSignals, TypeOK
<1>2. CASE HangUp(c)
  BY <1>2 DEF HangUp, TypeOK
<1>3. CASE Connect(c)
  <2>1. place' \in [Channels -> Places]
    BY <1>3, MoveType DEF Connect, Places
  <2>2. QED
    BY <1>3, <2>1 DEF Connect, TypeOK
<1>4. CASE Connected(c)
  <2>1. place' \in [Channels -> Places]
    BY <1>4, MoveType DEF Connected, Places
  <2>2. failed' \subseteq Channels
    BY <1>4 DEF Connected, TypeOK
  <2>3. QED
    BY <1>4, <2>1, <2>2 DEF Connected, TypeOK
<1>5. ASSUME NEW s \in Channels, NEW e \in Endpoints, PeerTransports(c, s, e) PROVE TypeOK'
  <2>1. place' \in [Channels -> Places]
    BY <1>5, MoveType DEF PeerTransports, Places
  <2>2. QED
    BY <1>5, <2>1 DEF PeerTransports, TypeOK
<1>6. QED
  BY <1>1, <1>2, <1>3, <1>4, <1>5 DEF Arrive

LEMMA HandleTypes == ASSUME TypeOK, NEW c \in Channels, Handle(c) PROVE TypeOK'
<1> USE DEF handling, oneshot, session, history
<1>1. CASE Lookup(c)
  <2>1. place' \in [Channels -> Places]
    BY <1>1 DEF Lookup, Places, Move, TypeOK
  <2>2. QED
    BY <1>1, <2>1, ChannelsAssumption DEF Lookup, TypeOK
<1>2. CASE Insert(c)
  <2>1. place' \in [Channels -> Places]
    BY <1>2, MoveType DEF Insert, Places
  <2>2. QED
    BY <1>2, <2>1, ChannelsAssumption DEF Insert, TypeOK
<1>3. CASE StartSession(c)
  <2>1. place' \in [Channels -> Places]
    BY <1>3, MoveType DEF StartSession, Places
  <2>2. QED
    BY <1>3, <2>1 DEF StartSession, TypeOK
<1>4. CASE StartFails(c)
  <2>1. place' \in [Channels -> Places]
    BY <1>4, MoveType DEF StartFails, Places
  <2>2. QED
    BY <1>4, <2>1 DEF StartFails, TypeOK
<1>5. CASE TakeSender(c)
  <2>1. place' \in [Channels -> Places]
    BY <1>5 DEF TakeSender, Places, Move, TypeOK
  <2>2. sender' \in [Channels -> Senders] /\ found' \in [Channels -> Channels \cup {None}]
    BY <1>5 DEF TakeSender, Senders, TypeOK
  <2>3. QED
    BY <1>5, <2>1, <2>2 DEF TakeSender, TypeOK
<1>6. CASE HandOver(c)
  <2>1. Move(c, "delivered") \/ Move(c, "closed")
    BY <1>6 DEF HandOver
  <2>2. place' \in [Channels -> Places]
    BY <2>1, MoveType DEF Places
  <2>3. sender' \in [Channels -> Senders] /\ found' \in [Channels -> Channels \cup {None}]
    BY <1>6 DEF HandOver, Senders, TypeOK
  <2>4. delivered' \in [Channels -> Channels \cup {None}]
    BY <1>6 DEF HandOver, TypeOK
  <2>5. QED
    BY <1>6, <2>2, <2>3, <2>4 DEF HandOver, TypeOK
<1>7. CASE ConfigureFails(c)
  <2>1. place' \in [Channels -> Places]
    BY <1>7, MoveType DEF ConfigureFails, Places
  <2>2. sender' \in [Channels -> Senders]
    BY <1>7 DEF ConfigureFails, Senders, TypeOK
  <2>3. QED
    BY <1>7, <2>1, <2>2 DEF ConfigureFails, TypeOK
<1>8. QED
  BY <1>1, <1>2, <1>3, <1>4, <1>5, <1>6, <1>7 DEF Handle

LEMMA DropTypes ==
  ASSUME TypeOK, NEW s \in Channels, DropAll(s)
  PROVE  /\ place' \in [Channels -> Places]
         /\ inUse' \subseteq Endpoints
         /\ streams' \in [Channels -> Seq(Stream)]
         /\ receiver' \in [Channels -> BOOLEAN]
         /\ delivered' \in [Channels -> Channels \cup {None}]
<1>1. place' \in [Channels -> Places]
  BY CloseType DEF DropAll
<1>2. streams' \in [Channels -> Seq(Stream)]
  BY StreamsEmptied DEF Emptied
<1>3. QED
  BY <1>1, <1>2 DEF DropAll, TypeOK

LEMMA RemoveTypes ==
  ASSUME TypeOK, NEW s \in Channels, NEW i \in Indices(s), RemoveStream(s, i)
  PROVE  /\ place' \in [Channels -> Places]
         /\ inUse' \subseteq Endpoints
         /\ streams' \in [Channels -> Seq(Stream)]
<1>1. place' \in [Channels -> Places]
  BY CloseType DEF RemoveStream
<1>2. streams' \in [Channels -> Seq(Stream)]
  BY StreamRemoved DEF Shrunk
<1>3. QED
  BY <1>1, <1>2 DEF RemoveStream, TypeOK

(* Where the streams of an endpoint are. *)
LEMMA IndexAt ==
  ASSUME NEW s, NEW e, NEW i \in At(s, e)
  PROVE  i \in Indices(s) /\ streams[s][i].endpoint = e
BY DEF At, Indices

LEMMA SignalTypes ==
  ASSUME TypeOK, NEW s \in Channels, NEW e \in Endpoints, Signal(s, e)
  PROVE  TypeOK'
<1> USE DEF handling, oneshot, session, history
<1>1. CASE SetConfiguration(s, e)
  <2>1. streams' \in [Channels -> Seq(Stream)]
    BY <1>1, StreamAdded DEF Added
  <2>2. QED
    BY <1>1, <2>1 DEF SetConfiguration, TypeOK
<1>2. CASE Open(s, e)
  <2>1. PICK i \in At(s, e) : SetStream(s, i, "opening", None)
    BY <1>2 DEF Open
  <2>2. streams' \in [Channels -> Seq(Stream)]
    BY <2>1, StreamSet, IndexAt DEF Changed, StreamStates
  <2>3. place' \in [Channels -> Places]
    BY <1>2, CloseType DEF Open
  <2>4. sender' \in [Channels -> Senders]
    BY <1>2 DEF Open, TypeOK, Senders
  <2>5. overlapped' \subseteq Channels
    BY <1>2 DEF Open, TypeOK
  <2>6. QED
    BY <1>2, <2>2, <2>3, <2>4, <2>5 DEF Open, TypeOK
<1>3. CASE Start(s, e)
  <2>1. PICK i \in At(s, e) : SetStream(s, i, "streaming", streams[s][i].channel)
    BY <1>3 DEF Start
  <2>2. streams' \in [Channels -> Seq(Stream)]
    BY <2>1, StreamSet, IndexAt, StreamsType DEF Changed, StreamStates
  <2>3. QED
    BY <1>3, <2>2 DEF Start, TypeOK
<1>4. CASE Suspend(s, e)
  <2>1. PICK i \in At(s, e) : SetStream(s, i, "open", streams[s][i].channel)
    BY <1>4 DEF Suspend
  <2>2. streams' \in [Channels -> Seq(Stream)]
    BY <2>1, StreamSet, IndexAt, StreamsType DEF Changed, StreamStates
  <2>3. QED
    BY <1>4, <2>2 DEF Suspend, TypeOK
<1>5. CASE CloseStream(s, e)
  <2>1. PICK i \in At(s, e) : SetStream(s, i, "closing", None) /\ Close({streams[s][i].channel})
    BY <1>5 DEF CloseStream
  <2>2. streams' \in [Channels -> Seq(Stream)]
    BY <2>1, StreamSet, IndexAt DEF Changed, StreamStates
  <2>3. place' \in [Channels -> Places]
    BY <2>1, CloseType
  <2>4. QED
    BY <1>5, <2>2, <2>3 DEF CloseStream, TypeOK
<1>6. CASE Abort(s, e)
  <2>1. PICK i \in At(s, e) : RemoveStream(s, i)
    BY <1>6 DEF Abort
  <2>2. /\ place' \in [Channels -> Places]
        /\ inUse' \subseteq Endpoints
        /\ streams' \in [Channels -> Seq(Stream)]
    BY <2>1, RemoveTypes, IndexAt
  <2>3. QED
    BY <1>6, <2>2 DEF Abort, TypeOK
<1>7. QED
  BY <1>1, <1>2, <1>3, <1>4, <1>5, <1>6 DEF Signal

LEMMA LoopTypes == ASSUME TypeOK, NEW s \in Channels, Loop(s) PROVE TypeOK'
<1> USE DEF handling, oneshot, session, history
<1>1. CASE StreamEnds(s)
  <2>1. First(Ended(s)) \in Indices(s)
    BY <1>1, FirstEnded DEF StreamEnds, Ended, Indices
  <2>2. /\ place' \in [Channels -> Places]
        /\ inUse' \subseteq Endpoints
        /\ streams' \in [Channels -> Seq(Stream)]
    BY <1>1, <2>1, RemoveTypes DEF StreamEnds
  <2>3. QED
    BY <1>1, <2>2 DEF StreamEnds, TypeOK
<1>2. CASE Receive(s)
  <2>1. delivered[s] \in Channels
    BY <1>2 DEF Receive, TypeOK
  <2>2. place' \in [Channels -> Places] /\ streams' \in [Channels -> Seq(Stream)]
    <3>1. CASE Opening(s) = {}
      BY <1>2, <3>1, CloseType DEF Receive, TypeOK
    <3>2. CASE Opening(s) # {}
      <4>1. First(Opening(s)) \in Indices(s)
        BY <3>2, FirstOpening DEF Opening, Indices
      <4>2. SetStream(s, First(Opening(s)), "open", delivered[s]) /\ Move(delivered[s], "stream")
        BY <1>2, <3>2 DEF Receive
      <4>3. streams' \in [Channels -> Seq(Stream)]
        BY <2>1, <4>1, <4>2, StreamSet DEF Changed, StreamStates
      <4>4. QED
        BY <2>1, <4>2, <4>3, MoveType DEF Places
    <3>3. QED
      BY <3>1, <3>2
  <2>3. QED
    BY <1>2, <2>2 DEF Receive, TypeOK
<1>3. CASE Panic(s)
  BY <1>3, DropTypes DEF Panic, TypeOK
<1>4. CASE EndLoop(s)
  <2>1. place' \in [Channels -> Places]
    BY <1>4, MoveType DEF EndLoop, Places
  <2>2. QED
    BY <1>4, <2>1 DEF EndLoop, TypeOK
<1>5. CASE RemoveEntry(s)
  <2>1. place' \in [Channels -> Places]
    BY <1>5, MoveType DEF RemoveEntry, Places
  <2>2. QED
    BY <1>5, <2>1, ChannelsAssumption DEF RemoveEntry, TypeOK
<1>6. CASE DropSession(s)
  BY <1>6, DropTypes DEF DropSession, TypeOK
<1>7. QED
  BY <1>1, <1>2, <1>3, <1>4, <1>5, <1>6 DEF Loop

LEMMA NextTypes == ASSUME TypeOK, [Next]_vars PROVE TypeOK'
<1>1. CASE UNCHANGED vars
  BY <1>1 DEF TypeOK, vars, handling, oneshot, session, history
<1>2. QED
  BY <1>1, ArriveTypes, HandleTypes, SignalTypes, LoopTypes DEF Next

LEMMA InitTypes == Init => TypeOK
<1>1. <<>> \in Seq(Stream)
  BY EmptySeq
<1>2. QED
  BY <1>1, ChannelsAssumption DEF Init, TypeOK, Places, Senders

-----------------------------------------------------------------------------
(* Streams: an endpoint and a channel have one.                            *)

(* The steps of channels, and of sessions, that leave the streams alone. *)
LEMMA StreamsKept ==
  ASSUME TypeOK, NEW c \in Channels, Arrive(c) \/ Handle(c) \/ EndLoop(c) \/ RemoveEntry(c)
  PROVE  /\ UNCHANGED <<streams, inUse, panicked, overlapped>>
         /\ \A d \in Channels : d # c => place'[d] = place[d]
         /\ place[c] \in Running => place'[c] \in Running
         /\ place[c] \in {"stream", "delivered", "closed"} => place'[c] = place[c]
<1> USE DEF handling, oneshot, session, history, Move, Running, TypeOK
<1>1. CASE PeerSignals(c) \/ Connect(c) \/ Connected(c)
  BY <1>1 DEF PeerSignals, Connect, Connected
<1>2. CASE HangUp(c)
  BY <1>2 DEF HangUp
<1>3. CASE \E s \in Channels, e \in Endpoints : PeerTransports(c, s, e)
  BY <1>3 DEF PeerTransports
<1>4. CASE Lookup(c) \/ Insert(c) \/ StartSession(c) \/ StartFails(c)
  BY <1>4 DEF Lookup, Insert, StartSession, StartFails
<1>5. CASE TakeSender(c)
  BY <1>5 DEF TakeSender
<1>6. CASE HandOver(c)
  BY <1>6 DEF HandOver
<1>7. CASE ConfigureFails(c)
  BY <1>7 DEF ConfigureFails
<1>8. CASE EndLoop(c) \/ RemoveEntry(c)
  BY <1>8 DEF EndLoop, RemoveEntry, InLoop
<1>9. QED
  BY <1>1, <1>2, <1>3, <1>4, <1>5, <1>6, <1>7, <1>8 DEF Arrive, Handle

LEMMA StreamsStay ==
  ASSUME TypeOK, StreamInv, UNCHANGED <<streams, inUse>>,
         \A c \in Channels : place[c] \in Running => place'[c] \in Running,
         \A c \in Channels : place[c] = "stream" => place'[c] = "stream"
  PROVE  StreamInv'
<1>1. \A s \in Channels : Indices(s)' = Indices(s)
  BY DEF Indices
<1>2. \A s \in Channels : \A i \in Indices(s) :
        streams[s][i].channel # None => streams[s][i].channel \in Channels
  BY StreamsType
<1>3. \A s \in Channels : \A i \in Indices(s) :
       /\ place'[s] \in Running
       /\ streams'[s][i].endpoint \in inUse'
       /\ streams'[s][i].channel # None <=> streams'[s][i].state \in Taken
       /\ streams'[s][i].channel # None =>
            /\ place'[streams'[s][i].channel] = "stream"
            /\ ConnectionOf[streams'[s][i].channel] = ConnectionOf[s]
  BY <1>2 DEF StreamInv
<1>4. QED
  BY <1>1, <1>3 DEF StreamInv, Taken

LEMMA StreamsChanged ==
  ASSUME TypeOK, StreamInv, NEW s \in Channels, NEW i \in Indices(s), NEW st \in StreamStates,
         NEW c \in Channels \cup {None}, Changed(s, i, st, c), inUse' = inUse,
         c # None <=> st \in Taken,
         c # None => /\ place'[c] = "stream" /\ ConnectionOf[c] = ConnectionOf[s]
                     /\ \A t \in Channels : \A j \in Indices(t) :
                          streams[t][j].channel = c => t = s /\ j = i,
         \A d \in Channels : place[d] \in Running => place'[d] \in Running,
         \A t \in Channels : \A j \in Indices(t) : LET d == streams[t][j].channel IN
           d # None /\ ~(t = s /\ j = i) => place'[d] = "stream"
  PROVE  StreamInv'
<1>1. \A t \in Channels : Indices(t)' = Indices(t)
  BY DEF Changed, Indices
<1>2. \A t \in Channels : \A j \in Indices(t) :
        /\ streams'[t][j].endpoint = streams[t][j].endpoint
        /\ ~(t = s /\ j = i) => streams'[t][j] = streams[t][j]
        /\ t = s /\ j = i => streams'[t][j].state = st /\ streams'[t][j].channel = c
  BY DEF Changed, Indices
<1>3. \A t \in Channels : \A j \in Indices(t)' :
        /\ place'[t] \in Running
        /\ streams'[t][j].endpoint \in inUse'
        /\ streams'[t][j].channel # None <=> streams'[t][j].state \in Taken
        /\ streams'[t][j].channel # None =>
             /\ place'[streams'[t][j].channel] = "stream"
             /\ ConnectionOf[streams'[t][j].channel] = ConnectionOf[t]
  BY <1>1, <1>2 DEF StreamInv
<1>4. \A e \in inUse' : \E t \in Channels : \E j \in Indices(t)' : streams'[t][j].endpoint = e
  BY <1>1, <1>2 DEF StreamInv
<1>5. \A t, u \in Channels : \A j \in Indices(t)', k \in Indices(u)' :
        \/ streams'[t][j].endpoint = streams'[u][k].endpoint
        \/ streams'[t][j].channel # None /\ streams'[t][j].channel = streams'[u][k].channel
        => t = u /\ j = k
  BY <1>1, <1>2 DEF StreamInv
<1>6. QED
  BY <1>3, <1>4, <1>5 DEF StreamInv, Taken

LEMMA StreamsAdded ==
  ASSUME TypeOK, StreamInv, NEW s \in Channels, NEW e \in Endpoints, Added(s, e),
         e \notin inUse, inUse' = inUse \cup {e}, place' = place, place[s] \in Running
  PROVE  StreamInv'
<1> DEFINE new(t, j) == t = s /\ j = Len(streams[s]) + 1
<1>1. \A t \in Channels : Len(streams[t]) \in Nat
  BY StreamsType
<1>2. \A t \in Channels : \A j \in Indices(t)' : ~new(t, j) =>
        j \in Indices(t) /\ streams'[t][j] = streams[t][j]
  BY <1>1 DEF Added, Indices
<1>3. \A t \in Channels : \A j \in Indices(t)' : ~new(t, j) => streams'[t][j].endpoint \in inUse
  BY <1>2 DEF StreamInv
<1>4. \A t \in Channels : \A j \in Indices(t) :
        j \in Indices(t)' /\ ~new(t, j) /\ streams'[t][j] = streams[t][j]
  BY <1>1 DEF Added, Indices
<1>5. /\ Len(streams[s]) + 1 \in Indices(s)'
      /\ \A t \in Channels : \A j \in Indices(t)' : new(t, j) =>
           /\ streams'[t][j].endpoint = e
           /\ streams'[t][j].state = "configured"
           /\ streams'[t][j].channel = None
  BY <1>1 DEF Added, Indices
<1>6. \A t \in Channels : \A j \in Indices(t)' :
       /\ place'[t] \in Running
       /\ streams'[t][j].endpoint \in inUse'
       /\ streams'[t][j].channel # None <=> streams'[t][j].state \in Taken
       /\ streams'[t][j].channel # None =>
            /\ place'[streams'[t][j].channel] = "stream"
            /\ ConnectionOf[streams'[t][j].channel] = ConnectionOf[t]
  <2> TAKE t \in Channels
  <2> TAKE j \in Indices(t)'
  <2>1. CASE new(t, j)
    BY <2>1, <1>5 DEF Taken
  <2>2. CASE ~new(t, j)
    BY <2>2, <1>2 DEF StreamInv
  <2>3. QED
    BY <2>1, <2>2
<1>7. \A f \in inUse' : \E t \in Channels : \E j \in Indices(t)' : streams'[t][j].endpoint = f
  <2> TAKE f \in inUse'
  <2>1. CASE f = e
    BY <2>1, <1>5
  <2>2. CASE f \in inUse
    BY <2>2, <1>4 DEF StreamInv
  <2>3. QED
    BY <2>1, <2>2
<1>8. \A t, u \in Channels : \A j \in Indices(t)', k \in Indices(u)' :
        \/ streams'[t][j].endpoint = streams'[u][k].endpoint
        \/ streams'[t][j].channel # None /\ streams'[t][j].channel = streams'[u][k].channel
        => t = u /\ j = k
  <2> TAKE t, u \in Channels
  <2> TAKE j \in Indices(t)', k \in Indices(u)'
  <2>1. CASE new(t, j) /\ new(u, k)
    BY <2>1
  <2>2. CASE ~new(t, j) /\ ~new(u, k)
    BY <2>2, <1>2 DEF StreamInv
  <2>3. CASE new(t, j) /\ ~new(u, k)
    BY <2>3, <1>5, <1>3
  <2>4. CASE ~new(t, j) /\ new(u, k)
    BY <2>4, <1>5, <1>3
  <2>5. QED
    BY <2>1, <2>2, <2>3, <2>4
<1>9. QED
  BY <1>6, <1>7, <1>8 DEF StreamInv, Taken

LEMMA StreamsRemoved ==
  ASSUME TypeOK, StreamInv, NEW s \in Channels, NEW i \in Indices(s), Shrunk(s, i),
         inUse' = inUse \ {streams[s][i].endpoint},
         Close({streams[s][i].channel})
  PROVE  StreamInv'
<1> DEFINE old(t, j) == IF t = s /\ j = i THEN Len(streams[s]) ELSE j
<1>1. Len(streams[s]) \in Nat /\ i \in 1..Len(streams[s])
  BY StreamsType DEF Indices
<1>2. \A t \in Channels : \A j \in Indices(t)' :
        /\ old(t, j) \in Indices(t) /\ streams'[t][j] = streams[t][old(t, j)]
        /\ ~(t = s /\ old(t, j) = i)
  BY <1>1 DEF Shrunk, Indices
<1>3. \A t \in Channels : \A j, k \in Indices(t)' : old(t, j) = old(t, k) => j = k
  BY <1>1 DEF Shrunk, Indices
<1>4. \A t \in Channels : \A k \in Indices(t) : ~(t = s /\ k = i) =>
        \E j \in Indices(t)' : streams'[t][j] = streams[t][k]
  <2> SUFFICES ASSUME NEW t \in Channels, NEW k \in Indices(t), ~(t = s /\ k = i)
               PROVE  \E j \in Indices(t)' : streams'[t][j] = streams[t][k]
    OBVIOUS
  <2>1. CASE t = s /\ k = Len(streams[s])
    <3>1. i \in Indices(t)' /\ streams'[t][i] = streams[t][k]
      BY <1>1, <2>1 DEF Shrunk, Indices
    <3>2. QED
      BY <3>1
  <2>2. CASE ~(t = s /\ k = Len(streams[s]))
    <3>1. k \in Indices(t)' /\ streams'[t][k] = streams[t][k]
      BY <1>1, <2>2 DEF Shrunk, Indices
    <3>2. QED
      BY <3>1
  <2>3. QED
    BY <2>1, <2>2
<1> HIDE DEF old
<1>5. \A t \in Channels : \A k \in Indices(t) : ~(t = s /\ k = i) =>
       /\ place'[t] \in Running
       /\ streams[t][k].endpoint \in inUse'
       /\ streams[t][k].channel # None => place'[streams[t][k].channel] = "stream"
  <2> TAKE t \in Channels
  <2> TAKE k \in Indices(t)
  <2>1. ~(t = s /\ k = i) => /\ streams[t][k].endpoint # streams[s][i].endpoint
                             /\ streams[t][k].channel # None => streams[t][k].channel # streams[s][i].channel
    BY DEF StreamInv
  <2>2. streams[s][i].channel # None => place[streams[s][i].channel] = "stream"
    BY DEF StreamInv
  <2>3. place[t] \in Running /\ (streams[t][k].channel # None => place[streams[t][k].channel] = "stream")
    BY DEF StreamInv
  <2>4. t # streams[s][i].channel
    BY <2>2, <2>3, ChannelsAssumption DEF Running
  <2>5. streams[t][k].channel \in Channels \cup {None} /\ streams[t][k].endpoint \in inUse
    BY StreamsType DEF StreamInv
  <2>6. QED
    BY <2>1, <2>3, <2>4, <2>5 DEF Close
<1>6. \A t \in Channels : \A j \in Indices(t)' :
       /\ place'[t] \in Running
       /\ streams'[t][j].endpoint \in inUse'
       /\ streams'[t][j].channel # None <=> streams'[t][j].state \in Taken
       /\ streams'[t][j].channel # None =>
            /\ place'[streams'[t][j].channel] = "stream"
            /\ ConnectionOf[streams'[t][j].channel] = ConnectionOf[t]
  BY <1>2, <1>5 DEF StreamInv
<1>7. \A f \in inUse' : \E t \in Channels : \E j \in Indices(t)' : streams'[t][j].endpoint = f
  BY <1>4 DEF StreamInv
<1>8. \A t, u \in Channels : \A j \in Indices(t)', k \in Indices(u)' :
        \/ streams'[t][j].endpoint = streams'[u][k].endpoint
        \/ streams'[t][j].channel # None /\ streams'[t][j].channel = streams'[u][k].channel
        => t = u /\ j = k
  BY <1>2, <1>3 DEF StreamInv
<1>9. QED
  BY <1>6, <1>7, <1>8 DEF StreamInv, Taken

LEMMA StreamsDropped ==
  ASSUME TypeOK, StreamInv, OneshotInv, NEW s \in Channels, DropAll(s), place[s] # "stream"
  PROVE  StreamInv'
<1> DEFINE gone == {streams[s][i].channel : i \in 1..Len(streams[s])}
<1>1. /\ \A t \in Channels : Len(streams'[t]) = IF t = s THEN 0 ELSE Len(streams[t])
      /\ \A t \in Channels : t # s => streams'[t] = streams[t]
  BY StreamsEmptied DEF Emptied
<1>2. \A t \in Channels : \A j \in Indices(t)' : t # s /\ j \in Indices(t) /\ streams'[t][j] = streams[t][j]
  BY <1>1 DEF Indices
<1>3. \A t \in Channels : t # s => Indices(t)' = Indices(t) /\ streams'[t] = streams[t]
  BY <1>1 DEF Indices
<1>4. \A t \in Channels : \A j \in Indices(t) : t # s =>
       /\ place'[t] \in Running
       /\ streams[t][j].endpoint \in inUse'
       /\ streams[t][j].channel # None => place'[streams[t][j].channel] = "stream"
  <2> SUFFICES ASSUME NEW t \in Channels, NEW j \in Indices(t), t # s
               PROVE  /\ place'[t] \in Running
                      /\ streams[t][j].endpoint \in inUse'
                      /\ streams[t][j].channel # None => place'[streams[t][j].channel] = "stream"
    OBVIOUS
  <2>1. \A i \in Indices(s) : /\ streams[t][j].endpoint # streams[s][i].endpoint
                              /\ streams[t][j].channel # None => streams[t][j].channel # streams[s][i].channel
                              /\ streams[s][i].channel # None => place[streams[s][i].channel] = "stream"
    BY DEF StreamInv
  <2>2. place[t] \in Running /\ (streams[t][j].channel # None => place[streams[t][j].channel] = "stream")
    BY DEF StreamInv
  <2>3. delivered[s] # None => place[delivered[s]] = "delivered"
    BY DEF OneshotInv
  <2>4. t \notin gone /\ t # delivered[s]
    BY <2>1, <2>2, <2>3, ChannelsAssumption DEF Running, Indices
  <2>5. streams[t][j].channel # None => streams[t][j].channel \notin gone \cup {s, delivered[s]}
    BY <2>1, <2>2, <2>3 DEF Indices
  <2>6. streams[t][j].channel \in Channels \cup {None} /\ streams[t][j].endpoint \in inUse
    BY StreamsType DEF StreamInv
  <2>7. streams[t][j].endpoint \in inUse'
    BY <2>1, <2>6 DEF DropAll, Indices
  <2>8. \A c \in Channels : c \notin gone \cup {s, delivered[s]} => place'[c] = place[c]
    BY DEF DropAll, Close
  <2>9. QED
    BY <2>2, <2>4, <2>5, <2>6, <2>7, <2>8
<1>5. \A t \in Channels : \A j \in Indices(t)' :
       /\ place'[t] \in Running
       /\ streams'[t][j].endpoint \in inUse'
       /\ streams'[t][j].channel # None <=> streams'[t][j].state \in Taken
       /\ streams'[t][j].channel # None =>
            /\ place'[streams'[t][j].channel] = "stream"
            /\ ConnectionOf[streams'[t][j].channel] = ConnectionOf[t]
  BY <1>2, <1>4 DEF StreamInv
<1>6. \A f \in inUse' : \E t \in Channels : \E j \in Indices(t)' : streams'[t][j].endpoint = f
  <2> TAKE f \in inUse'
  <2>1. PICK t \in Channels : \E j \in Indices(t) : streams[t][j].endpoint = f
    BY DEF DropAll, StreamInv
  <2>2. t # s
    BY <2>1 DEF DropAll, Indices
  <2>3. QED
    BY <2>1, <2>2, <1>3
<1>7. \A t, u \in Channels : \A j \in Indices(t)', k \in Indices(u)' :
        \/ streams'[t][j].endpoint = streams'[u][k].endpoint
        \/ streams'[t][j].channel # None /\ streams'[t][j].channel = streams'[u][k].channel
        => t = u /\ j = k
  BY <1>2 DEF StreamInv
<1>8. QED
  BY <1>5, <1>6, <1>7 DEF StreamInv, Taken

LEMMA StreamStep ==
  ASSUME TypeOK, StreamInv, OneshotInv, NEW s \in Channels,
         \/ Arrive(s) \/ Handle(s) \/ Loop(s) \/ \E e \in Endpoints : Signal(s, e)
  PROVE  StreamInv'
<1> USE DEF session
<1>1. CASE Arrive(s) \/ Handle(s) \/ EndLoop(s) \/ RemoveEntry(s)
  BY <1>1, StreamsKept, StreamsStay
<1>2. ASSUME NEW e \in Endpoints, SetConfiguration(s, e) PROVE StreamInv'
  <2>1. Added(s, e)
    BY <1>2, StreamAdded
  <2>2. e \notin inUse /\ inUse' = inUse \cup {e} /\ place' = place /\ place[s] \in Running
    BY <1>2 DEF SetConfiguration, InLoop, Running
  <2>3. QED
    BY <2>1, <2>2, StreamsAdded
<1>3. ASSUME NEW e \in Endpoints, Open(s, e) PROVE StreamInv'
  <2>1. PICK i \in At(s, e) : SetStream(s, i, "opening", None)
    BY <1>3 DEF Open
  <2>2. i \in Indices(s) /\ Changed(s, i, "opening", None) /\ inUse' = inUse
    BY <1>3, <2>1, IndexAt, StreamSet DEF StreamStates, Open
  <2>3. \A c \in Channels : place[c] \in Running \cup {"stream"} => place'[c] = place[c]
    <3>1. Close({delivered[s]})
      BY <1>3 DEF Open
    <3>2. delivered[s] # None => place[delivered[s]] = "delivered"
      BY DEF OneshotInv
    <3>3. QED
      BY <3>1, <3>2, ChannelsAssumption DEF Close, Running
  <2>4. \A t \in Channels : \A j \in Indices(t) :
          streams[t][j].channel # None => place'[streams[t][j].channel] = "stream"
    BY <2>3, StreamsType DEF StreamInv
  <2>5. QED
    BY <2>2, <2>3, <2>4, StreamsChanged DEF Taken, StreamStates
<1>4. ASSUME NEW i \in Indices(s), NEW st \in Taken, streams[s][i].state \in Taken, place' = place,
             inUse' = inUse, SetStream(s, i, st, streams[s][i].channel)
      PROVE  StreamInv'
  <2> DEFINE c == streams[s][i].channel
  <2>1. c \in Channels /\ place[c] = "stream" /\ ConnectionOf[c] = ConnectionOf[s]
    BY <1>4, StreamsType, ChannelsAssumption DEF StreamInv
  <2>2. \A t \in Channels : \A j \in Indices(t) :
          /\ streams[t][j].channel = c => t = s /\ j = i
          /\ streams[t][j].channel # None => place'[streams[t][j].channel] = "stream"
    BY <1>4, <2>1, ChannelsAssumption DEF StreamInv
  <2>3. st \in StreamStates /\ Changed(s, i, st, c)
    BY <1>4, <2>1, StreamSet DEF Taken, StreamStates
  <2>4. c # None
    BY <2>1, ChannelsAssumption
  <2> HIDE DEF c
  <2>5. QED
    BY <1>4, <2>1, <2>2, <2>3, <2>4, StreamsChanged
<1>5. ASSUME NEW e \in Endpoints, Start(s, e) PROVE StreamInv'
  BY <1>4, <1>5, IndexAt DEF Start, Taken
<1>6. ASSUME NEW e \in Endpoints, Suspend(s, e) PROVE StreamInv'
  BY <1>4, <1>6, IndexAt DEF Suspend, Taken
<1>7. ASSUME NEW e \in Endpoints, CloseStream(s, e) PROVE StreamInv'
  <2>1. PICK i \in At(s, e) : SetStream(s, i, "closing", None) /\ Close({streams[s][i].channel})
    BY <1>7 DEF CloseStream
  <2>2. i \in Indices(s) /\ Changed(s, i, "closing", None) /\ inUse' = inUse
    BY <1>7, <2>1, IndexAt, StreamSet DEF StreamStates, CloseStream
  <2>3. streams[s][i].channel # None => place[streams[s][i].channel] = "stream"
    BY <2>2 DEF StreamInv
  <2>4. \A c \in Channels : place[c] \in Running => place'[c] \in Running
    BY <2>1, <2>3, ChannelsAssumption DEF Close, Running
  <2>5. \A t \in Channels : \A j \in Indices(t) :
          streams[t][j].channel # None /\ ~(t = s /\ j = i) =>
            /\ streams[t][j].channel \in Channels
            /\ streams[t][j].channel # streams[s][i].channel
            /\ place[streams[t][j].channel] = "stream"
    BY <2>2, StreamsType DEF StreamInv
  <2>6. \A t \in Channels : \A j \in Indices(t) :
          streams[t][j].channel # None /\ ~(t = s /\ j = i) => place'[streams[t][j].channel] = "stream"
    BY <2>1, <2>5 DEF Close
  <2>7. QED
    BY <2>2, <2>4, <2>6, StreamsChanged DEF Taken, StreamStates
<1>8. ASSUME NEW i \in Indices(s), RemoveStream(s, i) PROVE StreamInv'
  BY <1>8, StreamRemoved, StreamsRemoved DEF RemoveStream
<1>9. ASSUME NEW e \in Endpoints, Abort(s, e) PROVE StreamInv'
  BY <1>8, <1>9, IndexAt DEF Abort
<1>10. CASE StreamEnds(s)
  BY <1>8, <1>10, FirstEnded DEF StreamEnds, Ended, Indices
<1>11. CASE Receive(s)
  <2>1. /\ delivered[s] \in Channels /\ place[delivered[s]] = "delivered"
        /\ ConnectionOf[delivered[s]] = ConnectionOf[s] /\ inUse' = inUse
    BY <1>11 DEF Receive, OneshotInv, TypeOK
  <2>2. CASE Opening(s) = {}
    <3>1. UNCHANGED <<streams, inUse>> /\ Close({delivered[s]})
      BY <1>11, <2>2 DEF Receive
    <3>2. \A c \in Channels : place[c] \in Running \cup {"stream"} => place'[c] = place[c]
      BY <2>1, <3>1 DEF Close, Running
    <3>3. QED
      BY <3>1, <3>2, StreamsStay
  <2>3. CASE Opening(s) # {}
    <3> DEFINE i == First(Opening(s))
    <3>1. i \in Indices(s)
      BY <2>3, FirstOpening DEF Opening, Indices
    <3>2. SetStream(s, i, "open", delivered[s]) /\ Move(delivered[s], "stream")
      BY <1>11, <2>3 DEF Receive
    <3> HIDE DEF i
    <3>3. Changed(s, i, "open", delivered[s])
      BY <2>1, <3>1, <3>2, StreamSet DEF StreamStates
    <3>4. \A c \in Channels : place[c] \in Running \cup {"stream"} => place'[c] = place[c]
      BY <2>1, <3>2 DEF Move, TypeOK, Running
    <3>5. place'[delivered[s]] = "stream"
      BY <2>1, <3>2 DEF Move, TypeOK
    <3>6. \A t \in Channels : \A j \in Indices(t) :
            /\ streams[t][j].channel # delivered[s]
            /\ streams[t][j].channel # None => place'[streams[t][j].channel] = "stream"
      BY <2>1, <3>4, StreamsType, ChannelsAssumption DEF StreamInv
    <3>7. delivered[s] # None
      BY <2>1, ChannelsAssumption
    <3>8. QED
      BY <2>1, <3>1, <3>3, <3>4, <3>5, <3>6, <3>7, StreamsChanged DEF Taken, StreamStates
  <2>4. QED
    BY <2>2, <2>3
<1>12. CASE Panic(s) \/ DropSession(s)
  BY <1>12, StreamsDropped DEF Panic, DropSession, InLoop
<1>13. QED
  BY <1>1, <1>2, <1>3, <1>5, <1>6, <1>7, <1>9, <1>10, <1>11, <1>12 DEF Loop, Signal

-----------------------------------------------------------------------------
(* Places.                                                                 *)

(* What a session changes besides its own state: the places of its channels. *)
SessionStep(s) ==
  \/ \E e \in Endpoints : Signal(s, e)
  \/ StreamEnds(s) \/ Receive(s) \/ Panic(s) \/ DropSession(s)

LEMMA SessionPlaces ==
  ASSUME TypeOK, StreamInv, OneshotInv, NEW s \in Channels, SessionStep(s)
  PROVE  /\ UNCHANGED <<want, failed, hungUp, pending, found>>
         /\ place[s] \in {"session", "removed"}
         /\ \A c \in Channels :
              \/ place'[c] = place[c]
              \/ place[c] = "stream" /\ place'[c] = "closed"
              \/ /\ c = delivered[s] /\ delivered'[s] = None
                 /\ place[c] = "delivered" /\ place'[c] \in {"stream", "closed"}
              \/ c = s /\ place'[c] = "closed" /\ (Panic(s) \/ DropSession(s))
<1> USE DEF handling
<1>1. \A i \in Indices(s) : streams[s][i].channel # None => place[streams[s][i].channel] = "stream"
  BY DEF StreamInv
<1>2. delivered[s] # None => place[delivered[s]] = "delivered"
  BY DEF OneshotInv
<1>3. ASSUME NEW e \in Endpoints, SetConfiguration(s, e) \/ Start(s, e) \/ Suspend(s, e)
      PROVE  UNCHANGED <<place, want, failed, hungUp, pending, found>> /\ place[s] = "session"
  BY <1>3 DEF SetConfiguration, Start, Suspend, InLoop
<1>4. ASSUME NEW e \in Endpoints, Open(s, e)
      PROVE  /\ UNCHANGED <<want, failed, hungUp, pending, found>> /\ place[s] = "session"
             /\ Close({delivered[s]}) /\ delivered'[s] = None
  BY <1>4 DEF Open, InLoop, TypeOK
<1>5. ASSUME NEW i \in Indices(s), RemoveStream(s, i)
      PROVE  Close({streams[s][i].channel})
  BY <1>5 DEF RemoveStream
<1>6. ASSUME NEW e \in Endpoints, CloseStream(s, e) \/ Abort(s, e)
      PROVE  /\ UNCHANGED <<want, failed, hungUp, pending, found>> /\ place[s] = "session"
             /\ \E i \in Indices(s) : Close({streams[s][i].channel})
  <2>1. \E i \in At(s, e) : Close({streams[s][i].channel})
    BY <1>5, <1>6, IndexAt DEF CloseStream, Abort
  <2>2. QED
    BY <1>6, <2>1, IndexAt DEF CloseStream, Abort, InLoop
<1>7. ASSUME StreamEnds(s)
      PROVE  /\ UNCHANGED <<want, failed, hungUp, pending, found>> /\ place[s] = "session"
             /\ \E i \in Indices(s) : Close({streams[s][i].channel})
  <2>1. First(Ended(s)) \in Indices(s)
    BY <1>7, FirstEnded DEF StreamEnds, Ended, Indices
  <2>2. QED
    BY <1>5, <1>7, <2>1 DEF StreamEnds, InLoop
<1>8. ASSUME Receive(s)
      PROVE  /\ UNCHANGED <<want, failed, hungUp, pending, found>> /\ place[s] = "session"
             /\ \/ Close({delivered[s]})
                \/ Move(delivered[s], "stream") /\ delivered[s] # None
             /\ delivered'[s] = None
  BY <1>8 DEF Receive, InLoop, TypeOK
<1>9. ASSUME Panic(s) \/ DropSession(s)
      PROVE  /\ UNCHANGED <<want, failed, hungUp, pending, found>> /\ place[s] \in {"session", "removed"}
             /\ DropAll(s) /\ delivered'[s] = None
  BY <1>9 DEF Panic, DropSession, InLoop, DropAll, TypeOK
<1>10. ASSUME \E i \in Indices(s) : Close({streams[s][i].channel})
       PROVE  \A c \in Channels : \/ place'[c] = place[c]
                                  \/ place[c] = "stream" /\ place'[c] = "closed"
  BY <1>1, <1>10, ChannelsAssumption DEF Close
<1>11. ASSUME Close({delivered[s]})
       PROVE  \A c \in Channels : \/ place'[c] = place[c]
                                  \/ c = delivered[s] /\ place[c] = "delivered" /\ place'[c] = "closed"
  BY <1>2, <1>11, ChannelsAssumption DEF Close
<1>12. ASSUME delivered[s] # None, Move(delivered[s], "stream")
       PROVE  \A c \in Channels : \/ place'[c] = place[c]
                                  \/ c = delivered[s] /\ place[c] = "delivered" /\ place'[c] = "stream"
  <2>1. place[delivered[s]] = "delivered" /\ place' = [place EXCEPT ![delivered[s]] = "stream"]
    BY <1>2, <1>12 DEF Move
  <2>2. place \in [Channels -> Places]
    BY DEF TypeOK
  <2>3. QED
    BY <2>1, <2>2
<1>13. ASSUME DropAll(s)
       PROVE  \A c \in Channels : \/ place'[c] = place[c]
                                  \/ place[c] = "stream" /\ place'[c] = "closed"
                                  \/ c = delivered[s] /\ place[c] = "delivered" /\ place'[c] = "closed"
                                  \/ c = s /\ place'[c] = "closed"
  <2>1. Close({s, delivered[s]} \cup {streams[s][i].channel : i \in Indices(s)})
    BY <1>13 DEF DropAll, Indices
  <2>2. QED
    BY <1>1, <1>2, <2>1, ChannelsAssumption DEF Close
<1>14. CASE \E e \in Endpoints : Signal(s, e)
  <2>1. PICK e \in Endpoints : Signal(s, e)
    BY <1>14
  <2>2. CASE SetConfiguration(s, e) \/ Start(s, e) \/ Suspend(s, e)
    BY <1>3, <2>2
  <2>3. CASE Open(s, e)
    BY <1>4, <1>11, <2>3
  <2>4. CASE CloseStream(s, e) \/ Abort(s, e)
    BY <1>6, <1>10, <2>4
  <2>5. QED
    BY <2>1, <2>2, <2>3, <2>4 DEF Signal
<1>15. CASE StreamEnds(s)
  BY <1>7, <1>10, <1>15
<1>16. CASE Receive(s)
  BY <1>8, <1>11, <1>12, <1>16
<1>17. CASE Panic(s) \/ DropSession(s)
  BY <1>9, <1>13, <1>17
<1>18. QED
  BY <1>14, <1>15, <1>16, <1>17 DEF SessionStep

(* The steps of the peer, of the application and of handle(). *)
ChannelStep(c) == Arrive(c) \/ Handle(c) \/ EndLoop(c) \/ RemoveEntry(c)

LEMMA Steps ==
  ASSUME [Next]_vars
  PROVE  UNCHANGED vars \/ \E s \in Channels : SessionStep(s) \/ ChannelStep(s)
BY DEF Next, Loop, SessionStep, ChannelStep

LEMMA PlaceStep ==
  ASSUME TypeOK, StreamInv, OneshotInv, PlaceInv, NEW s \in Channels, SessionStep(s)
  PROVE  PlaceInv'
<1>1. /\ UNCHANGED <<want, failed, hungUp, pending, found>>
      /\ \A c \in Channels : place'[c] # place[c] => place'[c] \in {"stream", "closed"} /\ place[c] # "closed"
      /\ \A c \in Channels : place'[c] \in {"unused", "connecting", "found", "handing", "ending", "removed"} =>
           place'[c] = place[c]
      /\ \A c \in Channels : place[c] = "closed" => place'[c] = "closed"
  BY SessionPlaces
<1>2. \A c \in Channels : sender[c] # "none" => sender'[c] # "none"
  <2>1. CASE \E e \in Endpoints : Open(s, e)
    BY <2>1 DEF Open, TypeOK
  <2>2. CASE ~\E e \in Endpoints : Open(s, e)
    <3>1. sender' = sender
      BY <2>2 DEF SessionStep, Signal, SetConfiguration, Start, Suspend, CloseStream, Abort,
                  StreamEnds, Receive, Panic, DropSession, oneshot
    <3>2. QED
      BY <3>1
  <2>3. QED
    BY <2>1, <2>2
<1>3. \A c \in panicked' : place'[c] = "closed"
  <2>1. CASE Panic(s)
    BY <1>1, <2>1, SessionPlaces DEF Panic, DropAll, Close, PlaceInv, TypeOK
  <2>2. CASE panicked' = panicked
    BY <1>1, <2>2 DEF PlaceInv, TypeOK
  <2>3. QED
    BY <2>1, <2>2 DEF SessionStep, Signal, SetConfiguration, Open, Start, Suspend, CloseStream, Abort,
                      StreamEnds, Receive, DropSession, history
<1>4. QED
  BY <1>1, <1>2, <1>3 DEF PlaceInv, TypeOK

LEMMA PlaceChannelStep ==
  ASSUME TypeOK, PlaceInv, NEW c \in Channels, ChannelStep(c)
  PROVE  PlaceInv'
<1> USE ChannelsAssumption DEF handling, oneshot, session, history, Move, TypeOK, PlaceInv
<1>1. CASE PeerSignals(c)
  BY <1>1 DEF PeerSignals
<1>2. CASE HangUp(c)
  BY <1>2 DEF HangUp
<1>3. CASE Connect(c)
  BY <1>3 DEF Connect
<1>4. CASE Connected(c)
  BY <1>4 DEF Connected
<1>5. CASE \E s \in Channels, e \in Endpoints : PeerTransports(c, s, e)
  BY <1>5 DEF PeerTransports
<1>6. CASE Lookup(c)
  BY <1>6 DEF Lookup
<1>7. CASE Insert(c)
  BY <1>7 DEF Insert
<1>8. CASE StartSession(c)
  BY <1>8 DEF StartSession
<1>9. CASE StartFails(c)
  BY <1>9 DEF StartFails
<1>10. CASE TakeSender(c)
  <2>1. UNCHANGED <<want, failed, hungUp, pending, panicked>> /\ place[c] = "found"
    BY <1>10 DEF TakeSender
  <2>2. CASE slot[found[c]] /\ c \notin Local
    <3>1. found' = found /\ Move(c, "handing") /\ sender' = [sender EXCEPT ![c] = "latest"]
      BY <1>10, <2>2 DEF TakeSender
    <3>2. QED
      BY <2>1, <2>2, <3>1
  <2>3. CASE ~(slot[found[c]] /\ c \notin Local)
    <3>1. Move(c, "closed") /\ sender' = sender /\ found' = [found EXCEPT ![c] = None]
      BY <1>10, <2>3 DEF TakeSender
    <3>2. QED
      BY <2>1, <3>1
  <2>4. QED
    BY <2>2, <2>3
<1>11. CASE HandOver(c)
  <2>1. /\ UNCHANGED <<want, failed, hungUp, pending, panicked>>
        /\ place[c] = "handing" /\ c \notin Local
        /\ Move(c, "delivered") \/ Move(c, "closed")
        /\ found' = [found EXCEPT ![c] = None] /\ sender' = [sender EXCEPT ![c] = "none"]
    BY <1>11 DEF HandOver
  <2>2. QED
    BY <2>1
<1>12. CASE ConfigureFails(c)
  BY <1>12 DEF ConfigureFails
<1>13. CASE EndLoop(c)
  BY <1>13 DEF EndLoop, InLoop
<1>14. CASE RemoveEntry(c)
  BY <1>14 DEF RemoveEntry
<1>15. QED
  BY <1>1, <1>2, <1>3, <1>4, <1>5, <1>6, <1>7, <1>8, <1>9, <1>10, <1>11, <1>12, <1>13, <1>14
     DEF ChannelStep, Arrive, Handle

-----------------------------------------------------------------------------
(* Oneshots.                                                               *)

LEMMA OneshotChannelStep ==
  ASSUME TypeOK, PlaceInv, OneshotInv, NEW c \in Channels, ChannelStep(c)
  PROVE  OneshotInv'
<1> USE DEF oneshot
<1>1. CASE TakeSender(c)
  <2>1. found[c] \in Channels /\ slot' = [slot EXCEPT ![found[c]] = FALSE] /\ UNCHANGED <<receiver, delivered>>
    BY <1>1 DEF TakeSender, PlaceInv, TypeOK
  <2>2. \A d \in Channels : place[d] \in Running \cup {"closed", "delivered"} => place'[d] = place[d]
    BY <1>1 DEF TakeSender, Move, TypeOK, Running
  <2>3. \A s \in Channels : slot'[s] => slot[s]
    BY <2>1 DEF TypeOK
  <2>4. \A s \in Channels : delivered[s] # None => place'[delivered[s]] = "delivered"
    BY <2>2 DEF OneshotInv, TypeOK
  <2>5. QED
    BY <2>1, <2>2, <2>3, <2>4 DEF OneshotInv, Running
<1>2. CASE HandOver(c)
  <2>1. UNCHANGED <<slot, receiver>> /\ place[c] = "handing"
    BY <1>2 DEF HandOver
  <2>2. \A d \in Channels : place[d] \in Running \cup {"closed", "delivered"} => place'[d] = place[d]
    BY <1>2 DEF HandOver, Move, TypeOK, Running
  <2>3. CASE delivered' = delivered
    <3>1. \A s \in Channels : delivered[s] # None => place'[delivered[s]] = "delivered"
      BY <2>2 DEF OneshotInv, TypeOK
    <3>2. QED
      BY <2>1, <2>2, <2>3, <3>1 DEF OneshotInv
  <2>4. CASE delivered' # delivered
    <3>1. /\ delivered' = [delivered EXCEPT ![found[c]] = c] /\ receiver[found[c]]
          /\ Move(c, "delivered")
      BY <1>2, <2>4 DEF HandOver
    <3>2. found[c] \in Channels /\ ConnectionOf[found[c]] = ConnectionOf[c]
      BY <2>1 DEF PlaceInv, TypeOK
    <3>3. place'[c] = "delivered"
      BY <3>1 DEF Move, TypeOK
    <3>4. \A s \in Channels : delivered[s] # c
      BY <2>1, ChannelsAssumption DEF OneshotInv
    <3>5. \A s \in Channels : delivered'[s] = IF s = found[c] THEN c ELSE delivered[s]
      BY <3>1, <3>2 DEF TypeOK
    <3>6. \A s \in Channels : delivered[s] # None => place'[delivered[s]] = "delivered"
      BY <2>2 DEF OneshotInv, TypeOK
    <3>7. \A s \in Channels : delivered'[s] # None =>
            /\ receiver'[s]
            /\ place'[delivered'[s]] = "delivered"
            /\ ConnectionOf[delivered'[s]] = ConnectionOf[s]
      BY <2>1, <3>1, <3>2, <3>3, <3>5, <3>6 DEF OneshotInv
    <3>8. \A s, t \in Channels : delivered'[s] # None /\ delivered'[s] = delivered'[t] => s = t
      BY <3>4, <3>5 DEF OneshotInv
    <3>9. QED
      BY <2>1, <2>2, <3>7, <3>8 DEF OneshotInv, Running
  <2>5. QED
    BY <2>3, <2>4
<1>3. CASE ~TakeSender(c) /\ ~HandOver(c)
  <2>1. UNCHANGED <<slot, receiver, delivered>>
    BY <1>3 DEF ChannelStep, Arrive, Handle, PeerSignals, HangUp, Connect, Connected, PeerTransports, Lookup,
                Insert, StartSession, StartFails, ConfigureFails, EndLoop, RemoveEntry
  <2>2. /\ \A d \in Channels : place[d] \in Running => place'[d] \in Running
        /\ \A d \in Channels : place[d] \in {"closed", "delivered"} => place'[d] = place[d]
    BY <1>3, StreamsKept DEF ChannelStep
  <2>3. QED
    BY <2>1, <2>2 DEF OneshotInv, TypeOK
<1>4. QED
  BY <1>1, <1>2, <1>3

(* What the steps of a session do to its oneshot. *)
LEMMA SessionOneshot ==
  ASSUME TypeOK, NEW s \in Channels, SessionStep(s)
  PROVE  \/ /\ \E e \in Endpoints : Open(s, e)
            /\ slot' = [slot EXCEPT ![s] = TRUE] /\ receiver' = [receiver EXCEPT ![s] = TRUE]
            /\ delivered' = [delivered EXCEPT ![s] = None]
            /\ sender' = [c \in Channels |-> IF c \in Handing(s) THEN "stale" ELSE sender[c]]
            /\ panicked' = panicked
         \/ /\ Receive(s) \/ Panic(s) \/ DropSession(s)
            /\ UNCHANGED <<slot, sender>> /\ receiver' = [receiver EXCEPT ![s] = FALSE]
            /\ delivered' = [delivered EXCEPT ![s] = None]
            /\ panicked' = panicked \/ (Panic(s) /\ panicked' = panicked \cup {s})
         \/ /\ \E e \in Endpoints : Signal(s, e)
            /\ UNCHANGED <<slot, sender, receiver, delivered, panicked>>
         \/ /\ StreamEnds(s)
            /\ UNCHANGED <<slot, sender, receiver, delivered, panicked>>
<1> USE DEF oneshot, history
<1>1. CASE \E e \in Endpoints : Open(s, e)
  BY <1>1 DEF Open, DropAll, TypeOK
<1>2. CASE Receive(s)
  BY <1>2 DEF Receive
<1>3. CASE Panic(s)
  BY <1>3 DEF Panic, DropAll
<1>8. CASE DropSession(s)
  BY <1>8 DEF DropSession, DropAll
<1>4. CASE \E e \in Endpoints : SetConfiguration(s, e) \/ Start(s, e) \/ Suspend(s, e)
  BY <1>4 DEF SetConfiguration, Start, Suspend, Signal
<1>5. CASE \E e \in Endpoints : CloseStream(s, e) \/ Abort(s, e)
  BY <1>5 DEF CloseStream, Abort, Signal
<1>6. CASE StreamEnds(s)
  BY <1>6 DEF StreamEnds
<1>7. QED
  BY <1>1, <1>2, <1>3, <1>4, <1>5, <1>6, <1>8 DEF SessionStep, Signal

LEMMA OneshotSessionStep ==
  ASSUME TypeOK, StreamInv, OneshotInv, NEW s \in Channels, SessionStep(s)
  PROVE  OneshotInv'
<1>1. /\ \A c \in Channels : c # s /\ place[c] \in Running => place'[c] = place[c]
      /\ \A c \in Channels : place[c] = "closed" => place'[c] = "closed"
      /\ place[s] \in Running
      /\ place'[s] = place[s] \/ (place'[s] = "closed" /\ (Panic(s) \/ DropSession(s)))
      /\ \A c \in Channels : place[c] = "delivered" => \/ place'[c] = "delivered"
                                                       \/ c = delivered[s] /\ delivered'[s] = None
  BY SessionPlaces DEF Running
<1>2. /\ \A t \in Channels : t # s => /\ receiver'[t] = receiver[t]
                                      /\ slot'[t] = slot[t]
                                      /\ delivered'[t] = delivered[t]
      /\ delivered'[s] # None => delivered'[s] = delivered[s] /\ receiver'[s] = receiver[s]
  BY SessionOneshot DEF TypeOK
<1>3. Panic(s) \/ DropSession(s) => receiver'[s] = FALSE
  BY DEF Panic, DropSession, DropAll, TypeOK
<1>4. \A t \in Channels : delivered'[t] # None => delivered'[t] = delivered[t] /\ receiver'[t] = receiver[t]
  BY <1>2
<1>5. \A t \in Channels : delivered'[t] # None => place'[delivered'[t]] = "delivered"
  BY <1>1, <1>4 DEF OneshotInv, TypeOK
<1>6. \A t \in Channels : receiver'[t] => place'[t] \in Running
  BY <1>1, <1>2, <1>3 DEF OneshotInv
<1>7. \A t \in Channels : slot'[t] => place'[t] \in Running \cup {"closed"}
  BY <1>1, <1>2 DEF OneshotInv
<1>8. QED
  BY <1>4, <1>5, <1>6, <1>7 DEF OneshotInv, Running

-----------------------------------------------------------------------------
(* What stays true of a connection, and of a session, once it is.          *)

LEMMA Lasting ==
  ASSUME TypeOK, StreamInv, OneshotInv, PlaceInv, NEW c \in Channels, SessionStep(c) \/ ChannelStep(c)
  PROVE  /\ failed \subseteq failed' /\ hungUp \subseteq hungUp'
         /\ panicked \subseteq panicked' /\ overlapped \subseteq overlapped'
         /\ \A d \in Channels : place[d] # "unused" => place'[d] # "unused" /\ want'[d] = want[d]
         /\ \A d \in Channels : place[d] = "closed" => place'[d] = "closed" /\ found'[d] = found[d]
<1> USE DEF handling, history
<1>1. CASE SessionStep(c)
  <2>1. panicked \subseteq panicked' /\ overlapped \subseteq overlapped'
    BY <1>1 DEF SessionStep, Signal, SetConfiguration, Open, Start, Suspend, CloseStream, Abort,
                StreamEnds, Receive, Panic, DropSession
  <2>2. QED
    BY <1>1, <2>1, SessionPlaces
<1>2. CASE ChannelStep(c)
  <2>1. UNCHANGED <<panicked, overlapped>> /\ \A d \in Channels : d # c => place'[d] = place[d]
    BY <1>2, StreamsKept DEF ChannelStep
  <2>2. failed \subseteq failed' /\ hungUp \subseteq hungUp'
    BY <1>2 DEF ChannelStep, Arrive, Handle, PeerSignals, HangUp, Connect, Connected, PeerTransports, Lookup,
                Insert, StartSession, StartFails, TakeSender, HandOver, ConfigureFails, EndLoop, RemoveEntry
  <2>3. place[c] # "unused" => place'[c] # "unused"
    BY <1>2 DEF ChannelStep, Arrive, Handle, PeerSignals, HangUp, Connect, Connected, PeerTransports, Lookup,
                Insert, StartSession, StartFails, TakeSender, HandOver, ConfigureFails, EndLoop, RemoveEntry,
                InLoop, Move, TypeOK
  <2>4. want' = want \/ (place[c] = "unused" /\ \E e \in Endpoints : want' = [want EXCEPT ![c] = e])
    BY <1>2 DEF ChannelStep, Arrive, Handle, PeerSignals, HangUp, Connect, Connected, PeerTransports, Lookup,
                Insert, StartSession, StartFails, TakeSender, HandOver, ConfigureFails, EndLoop, RemoveEntry
  <2>5. \/ found' = found
        \/ place[c] # "closed" /\ \E s \in Channels \cup {None} : found' = [found EXCEPT ![c] = s]
    BY <1>2, ChannelsAssumption
       DEF ChannelStep, Arrive, Handle, PeerSignals, HangUp, Connect, Connected, PeerTransports, Lookup,
           Insert, StartSession, StartFails, TakeSender, HandOver, ConfigureFails, EndLoop, RemoveEntry, TypeOK
  <2>6. place[c] = "closed" => place'[c] = "closed"
    BY <1>2, StreamsKept DEF ChannelStep
  <2>7. QED
    BY <2>1, <2>2, <2>3, <2>4, <2>5, <2>6 DEF TypeOK
<1>3. QED
  BY <1>1, <1>2

LEMMA LastingConnections ==
  ASSUME TypeOK, StreamInv, OneshotInv, PlaceInv, NEW c \in Channels, SessionStep(c) \/ ChannelStep(c)
  PROVE  /\ \A h \in Connections : ConnectedBySelf(h) => ConnectedBySelf(h)'
         /\ \A h \in Connections : SignalingLost(h) => SignalingLost(h)'
         /\ \A s \in Channels : Dropped(s) => Dropped(s)'
<1>1. \A h \in Connections : ConnectedBySelf(h) => ConnectedBySelf(h)'
  BY Lasting, ChannelsAssumption DEF ConnectedBySelf
<1>2. \A h \in Connections : SignalingLost(h) => SignalingLost(h)'
  BY Lasting DEF SignalingLost, PlaceInv, TypeOK
<1>3. \A s \in Channels : Dropped(s) => Dropped(s)'
  BY Lasting DEF Dropped, TypeOK
<1>4. QED
  BY <1>1, <1>2, <1>3

-----------------------------------------------------------------------------
(* Senders.                                                                *)

(* Who holds a sender for session s, or has lost it. *)
Served(s) == \/ slot[s] \/ delivered[s] # None
             \/ \E c \in Handing(s) : sender[c] = "latest"
             \/ ConnectedBySelf(ConnectionOf[s]) \/ Dropped(s)

LEMMA ServedKept ==
  ASSUME TypeOK, StreamInv, OneshotInv, PlaceInv, NEW c \in Channels, SessionStep(c) \/ ChannelStep(c),
         NEW s \in Channels, Served(s), slot'[s] = slot[s], delivered'[s] = delivered[s],
         \A d \in Handing(s) : place'[d] = "handing" /\ found'[d] = found[d] /\ sender'[d] = sender[d]
  PROVE  Served(s)'
<1>1. \A d \in Handing(s) : d \in Handing(s)' /\ sender'[d] = sender[d]
  BY DEF Handing
<1>2. ConnectionOf[s] \in Connections
  BY ChannelsAssumption
<1>3. QED
  BY <1>1, <1>2, LastingConnections DEF Served

LEMMA SenderSessionStep ==
  ASSUME TypeOK, StreamInv, OneshotInv, PlaceInv, SenderInv, NEW s \in Channels, SessionStep(s)
  PROVE  SenderInv'
<1>1. \A t \in Channels : receiver[t] => Served(t)
  BY DEF SenderInv, Served
<1>2. \A d \in Channels : place[d] = "handing" => place'[d] = "handing" /\ found'[d] = found[d]
  BY SessionPlaces
<1>3. \A d \in Channels : place[d] = "handing" /\ found[d] # s => sender'[d] = sender[d]
  BY SessionOneshot DEF Handing, TypeOK
<1>4. \A t \in Channels : t # s => /\ slot'[t] = slot[t] /\ delivered'[t] = delivered[t]
                                   /\ receiver'[t] = receiver[t]
  BY SessionOneshot DEF TypeOK
<1>5. ASSUME NEW t \in Channels, t # s, receiver'[t] PROVE Served(t)'
  BY <1>1, <1>2, <1>3, <1>4, <1>5, ServedKept DEF Handing
<1>6. ASSUME receiver'[s] PROVE Served(s)'
  <2>1. CASE slot'[s]
    BY <2>1 DEF Served
  <2>2. CASE UNCHANGED <<slot, sender, receiver, delivered>>
    BY <1>1, <1>2, <1>6, <2>2, ServedKept DEF Handing
  <2>3. QED
    BY <1>6, <2>1, <2>2, SessionOneshot DEF TypeOK
<1>7. \A t \in panicked' : ConnectedBySelf(ConnectionOf[t])' \/ Dropped(t)'
  <2>1. TAKE t \in panicked'
  <2>2. ConnectedBySelf(ConnectionOf[t]) \/ Dropped(t)
    <3>1. CASE t \in panicked
      BY <3>1 DEF SenderInv
    <3>2. CASE t = s /\ Panic(s)
      BY <1>1, <3>2 DEF Panic, SenderLost, Served
    <3>3. QED
      BY <3>1, <3>2, SessionOneshot
  <2>3. t \in Channels /\ ConnectionOf[t] \in Connections
    <3>1. panicked' \subseteq Channels
      BY SessionOneshot DEF TypeOK
    <3>2. QED
      BY <3>1, ChannelsAssumption
  <2>4. QED
    BY <2>2, <2>3, LastingConnections
<1>8. QED
  BY <1>5, <1>6, <1>7 DEF SenderInv, Served

LEMMA SenderChannelStep ==
  ASSUME TypeOK, StreamInv, OneshotInv, PlaceInv, SenderInv, NEW c \in Channels, ChannelStep(c)
  PROVE  SenderInv'
<1> USE DEF handling, oneshot, history
<1>1. \A t \in Channels : receiver[t] => Served(t)
  BY DEF SenderInv, Served
<1>2. \A d \in Channels : d # c /\ place[d] = "handing" => place'[d] = "handing"
  BY StreamsKept DEF ChannelStep
<1>3. receiver' = receiver /\ panicked' = panicked
  BY DEF ChannelStep, Arrive, Handle, PeerSignals, HangUp, Connect, Connected, PeerTransports, Lookup, Insert,
         StartSession, StartFails, TakeSender, HandOver, ConfigureFails, EndLoop, RemoveEntry
<1>4. ASSUME NEW s \in Channels, receiver[s] PROVE Served(s)'
  <2>1. Served(s)
    BY <1>1, <1>4
  <2>2. CASE TakeSender(c)
    <3>1. place[c] = "found" /\ \A d \in Channels : d # c => found'[d] = found[d] /\ sender'[d] = sender[d]
      BY <2>2 DEF TakeSender, TypeOK
    <3>2. \A d \in Handing(s) : place'[d] = "handing" /\ found'[d] = found[d] /\ sender'[d] = sender[d]
      BY <1>2, <3>1 DEF Handing
    <3>3. delivered' = delivered /\ slot' = [slot EXCEPT ![found[c]] = FALSE]
      BY <2>2 DEF TakeSender
    <3>4. CASE s # found[c] \/ ~slot[s]
      <4>1. slot'[s] = slot[s]
        BY <3>3, <3>4 DEF TypeOK
      <4>2. QED
        BY <2>1, <3>2, <3>3, <4>1, ServedKept
    <3>5. CASE s = found[c] /\ c \in Local
      <4>1. ConnectedBySelf(ConnectionOf[s])
        BY <3>1, <3>5, ChannelsAssumption DEF ConnectedBySelf, PlaceInv
      <4>2. ConnectionOf[s] \in Connections
        BY ChannelsAssumption
      <4>3. QED
        BY <4>1, <4>2, LastingConnections DEF Served
    <3>6. CASE s = found[c] /\ slot[s] /\ c \notin Local
      <4>1. Move(c, "handing") /\ sender' = [sender EXCEPT ![c] = "latest"] /\ found' = found
        BY <2>2, <3>6 DEF TakeSender
      <4>2. place'[c] = "handing" /\ found'[c] = s /\ sender'[c] = "latest"
        BY <3>6, <4>1 DEF Move, TypeOK
      <4>3. QED
        BY <4>2 DEF Served, Handing
    <3>7. QED
      BY <3>4, <3>5, <3>6
  <2>3. CASE HandOver(c)
    <3>1. /\ \A d \in Channels : d # c => found'[d] = found[d] /\ sender'[d] = sender[d]
          /\ slot' = slot /\ place[c] = "handing"
      BY <2>3 DEF HandOver, TypeOK
    <3>2. CASE s = found[c] /\ sender[c] = "latest"
      <4>1. delivered'[s] = c
        BY <1>4, <2>3, <3>2 DEF HandOver, TypeOK
      <4>2. QED
        BY <4>1, ChannelsAssumption DEF Served
    <3>3. CASE ~(s = found[c] /\ sender[c] = "latest")
      <4>1. \A d \in Handing(s) : sender[d] = "latest" => d \in Handing(s)' /\ sender'[d] = "latest"
        BY <1>2, <3>1, <3>3 DEF Handing
      <4>2. delivered[s] # None => delivered'[s] # None
        BY <2>3, ChannelsAssumption DEF HandOver, TypeOK
      <4>3. ConnectionOf[s] \in Connections
        BY ChannelsAssumption
      <4>4. QED
        BY <2>1, <3>1, <4>1, <4>2, <4>3, LastingConnections DEF Served
    <3>4. QED
      BY <3>2, <3>3
  <2>4. CASE ConfigureFails(c)
    <3>1. /\ \A d \in Channels : d # c => sender'[d] = sender[d]
          /\ UNCHANGED <<slot, delivered, found>> /\ place[c] = "handing"
          /\ failed' = failed \cup {c} /\ place'[c] = "closed"
      BY <2>4 DEF ConfigureFails, Move, TypeOK
    <3>2. CASE s = found[c]
      <4>1. Dropped(s)'
        BY <3>1, <3>2 DEF Dropped, PlaceInv
      <4>2. QED
        BY <4>1 DEF Served
    <3>3. CASE s # found[c]
      <4>1. \A d \in Handing(s) : place'[d] = "handing" /\ found'[d] = found[d] /\ sender'[d] = sender[d]
        BY <1>2, <3>1, <3>3 DEF Handing
      <4>2. QED
        BY <2>1, <3>1, <4>1, ServedKept
    <3>4. QED
      BY <3>2, <3>3
  <2>5. CASE ~TakeSender(c) /\ ~HandOver(c) /\ ~ConfigureFails(c)
    <3>1. UNCHANGED <<slot, delivered, sender>>
      BY <2>5 DEF ChannelStep, Arrive, Handle, PeerSignals, HangUp, Connect, Connected, PeerTransports, Lookup,
                  Insert, StartSession, StartFails, EndLoop, RemoveEntry
    <3>2. /\ place[c] = "handing" => place'[c] = "handing"
          /\ found' = found \/ (place[c] = "arrived" /\ \E t \in Channels \cup {None} : found' = [found EXCEPT ![c] = t])
      BY <2>5, ChannelsAssumption
         DEF ChannelStep, Arrive, Handle, PeerSignals, HangUp, Connect, Connected, PeerTransports, Lookup,
             Insert, StartSession, StartFails, EndLoop, RemoveEntry, InLoop, TypeOK
    <3>3. \A d \in Handing(s) : place'[d] = "handing" /\ found'[d] = found[d] /\ sender'[d] = sender[d]
      BY <1>2, <3>1, <3>2 DEF Handing, TypeOK
    <3>4. QED
      BY <2>1, <3>1, <3>3, ServedKept
  <2>6. QED
    BY <2>2, <2>3, <2>4, <2>5
<1>5. \A t \in panicked' : ConnectedBySelf(ConnectionOf[t])' \/ Dropped(t)'
  <2>1. \A t \in panicked : t \in Channels /\ ConnectionOf[t] \in Connections
    BY ChannelsAssumption DEF TypeOK
  <2>2. QED
    BY <1>3, <2>1, LastingConnections DEF SenderInv
<1>6. QED
  BY <1>3, <1>4, <1>5 DEF SenderInv, Served

-----------------------------------------------------------------------------
(* The entries of pending_streams.                                         *)

(* Of a connection without a channel of connect(), the channels in use are the peer's. *)
LEMMA ByPeer ==
  ASSUME NEW c \in Channels, ~ConnectedBySelf(ConnectionOf[c]), place[c] # "unused"
  PROVE  c \notin Local
BY DEF ConnectedBySelf

(* What the entry of a connection says of a channel c of it. *)
Entry(c) == LET h == ConnectionOf[c] IN
  /\ place[c] \in {"setup", "session", "ending"} => pending[h] = c
  /\ place[c] = "new" => pending[h] = None
  /\ pending[h] = c => \/ place[c] \in {"setup", "session", "ending"}
                       \/ c \in failed \cup panicked

LEMMA EntrySessionStep ==
  ASSUME TypeOK, StreamInv, OneshotInv, PlaceInv, EntryInv, NEW s \in Channels, SessionStep(s)
  PROVE  EntryInv'
<1>1. \A c, d \in Channels \ Local :
        place'[c] \in {"new", "found"} /\ place'[d] \in {"new", "found"} => c = d
  BY SessionPlaces DEF EntryInv
<1>2. ASSUME NEW c \in Channels, ~ConnectedBySelf(ConnectionOf[c])' PROVE Entry(c)'
  <2>1. ~ConnectedBySelf(ConnectionOf[c])
    BY <1>2, LastingConnections, ChannelsAssumption
  <2>2. Entry(c)
    BY <2>1 DEF EntryInv, Entry
  <2>3. UNCHANGED pending /\ failed' = failed /\ panicked \subseteq panicked'
    BY SessionPlaces, Lasting
  <2>4. CASE place'[c] = place[c]
    BY <2>2, <2>3, <2>4 DEF Entry
  <2>5. CASE c = s /\ place'[c] = "closed" /\ Panic(s)
    BY <2>3, <2>5 DEF Panic, Entry
  <2>6. CASE c = s /\ place'[c] = "closed" /\ DropSession(s)
    BY <2>2, <2>3, <2>6 DEF DropSession, Entry
  <2>7. CASE place[c] \in {"stream", "delivered"} /\ place'[c] \in {"stream", "closed"}
    BY <2>2, <2>3, <2>7 DEF Entry
  <2>8. QED
    BY <2>4, <2>5, <2>6, <2>7, SessionPlaces
<1>3. QED
  BY <1>1, <1>2 DEF EntryInv, Entry

LEMMA EntryChannelStep ==
  ASSUME TypeOK, StreamInv, OneshotInv, PlaceInv, EntryInv, NEW c \in Channels, ChannelStep(c)
  PROVE  EntryInv'
<1> USE DEF handling, history
<1>1. \A d \in Channels : d # c => place'[d] = place[d]
  BY StreamsKept DEF ChannelStep
<1>2. \A d, e \in Channels \ Local :
        place'[d] \in {"new", "found"} /\ place'[e] \in {"new", "found"} => d = e
  <2>1. CASE Lookup(c)
    BY <1>1, <2>1 DEF Lookup, EntryInv
  <2>2. CASE ~Lookup(c)
    <3>1. place'[c] \notin {"new", "found"} \/ place'[c] = place[c]
      BY <2>2 DEF ChannelStep, Arrive, Handle, PeerSignals, HangUp, Connect, Connected, PeerTransports,
                  Insert, StartSession, StartFails, TakeSender, HandOver, ConfigureFails, EndLoop, RemoveEntry,
                  Move, TypeOK
    <3>2. QED
      BY <1>1, <3>1 DEF EntryInv
  <2>3. QED
    BY <2>1, <2>2
<1>3. ASSUME NEW d \in Channels, ~ConnectedBySelf(ConnectionOf[d])' PROVE Entry(d)'
  <2>1. ~ConnectedBySelf(ConnectionOf[d]) /\ ConnectionOf[d] \in Connections
    BY <1>3, LastingConnections, ChannelsAssumption
  <2>2. Entry(d)
    BY <2>1 DEF EntryInv, Entry
  <2>3. CASE Insert(c)
    <3>1. /\ place[c] = "new" /\ place'[c] = "setup" /\ pending' = [pending EXCEPT ![ConnectionOf[c]] = c]
          /\ failed' = failed /\ panicked' = panicked
      BY <2>3 DEF Insert, Move, TypeOK
    <3>2. CASE ConnectionOf[d] # ConnectionOf[c]
      BY <1>1, <2>1, <2>2, <3>1, <3>2 DEF Entry, TypeOK
    <3>3. CASE d = c
      BY <2>1, <3>1, <3>3 DEF Entry, TypeOK
    <3>4. CASE ConnectionOf[d] = ConnectionOf[c] /\ d # c
      <4>1. pending[ConnectionOf[c]] = None
        BY <2>1, <3>1, <3>4 DEF EntryInv
      <4>2. place[d] \notin {"setup", "session", "ending"}
        BY <2>2, <3>4, <4>1, ChannelsAssumption DEF Entry
      <4>3. place[d] # "new"
        BY <2>1, <3>1, <3>4, ByPeer DEF EntryInv
      <4>4. pending'[ConnectionOf[d]] = c
        BY <2>1, <3>1, <3>4 DEF TypeOK
      <4>5. QED
        BY <1>1, <3>4, <4>2, <4>3, <4>4 DEF Entry
    <3>5. QED
      BY <3>2, <3>3, <3>4
  <2>4. CASE RemoveEntry(c)
    <3>1. /\ place[c] = "ending" /\ place'[c] = "removed" /\ pending' = [pending EXCEPT ![ConnectionOf[c]] = None]
          /\ failed' = failed /\ panicked' = panicked
      BY <2>4 DEF RemoveEntry, Move, TypeOK
    <3>2. CASE ConnectionOf[d] # ConnectionOf[c]
      BY <1>1, <2>1, <2>2, <3>1, <3>2 DEF Entry, TypeOK
    <3>3. CASE ConnectionOf[d] = ConnectionOf[c]
      <4>1. pending[ConnectionOf[c]] = c
        BY <2>1, <3>1, <3>3 DEF EntryInv
      <4>2. d # c => place[d] \notin {"setup", "session", "ending"}
        BY <2>2, <3>3, <4>1 DEF Entry
      <4>3. pending'[ConnectionOf[d]] = None
        BY <2>1, <3>1, <3>3 DEF TypeOK
      <4>4. QED
        BY <1>1, <3>1, <4>2, <4>3, ChannelsAssumption DEF Entry
    <3>4. QED
      BY <3>2, <3>3
  <2>5. CASE ~Insert(c) /\ ~RemoveEntry(c)
    <3>1. pending' = pending /\ failed \subseteq failed' /\ panicked' = panicked
      BY <2>5, Lasting
         DEF ChannelStep, Arrive, Handle, PeerSignals, HangUp, Connect, Connected, PeerTransports, Lookup,
             StartSession, StartFails, TakeSender, HandOver, ConfigureFails, EndLoop
    <3>2. CASE d # c
      BY <1>1, <2>2, <3>1, <3>2 DEF Entry
    <3>3. CASE d = c
      <4>1. CASE Lookup(c)
        BY <2>2, <3>1, <3>3, <4>1 DEF Lookup, Move, Entry, TypeOK
      <4>2. CASE StartSession(c)
        BY <2>2, <3>1, <3>3, <4>2 DEF StartSession, Move, Entry, TypeOK
      <4>3. CASE StartFails(c)
        BY <2>2, <3>1, <3>3, <4>3 DEF StartFails, Move, Entry, TypeOK
      <4>4. CASE EndLoop(c)
        BY <2>2, <3>1, <3>3, <4>4 DEF EndLoop, InLoop, Move, Entry, TypeOK
      <4>5. CASE TakeSender(c) \/ HandOver(c) \/ ConfigureFails(c)
        <5>1. place[c] \in {"found", "handing"} /\ place'[c] \in {"handing", "delivered", "closed"}
          BY <4>5 DEF TakeSender, HandOver, ConfigureFails, Move, TypeOK
        <5>2. QED
          BY <2>2, <3>1, <3>3, <5>1 DEF Entry
      <4>6. CASE Arrive(c)
        <5>1. place'[c] = place[c] \/ (place[c] \in {"unused", "connecting"} /\ place'[c] \in {"connecting", "arrived"})
          BY <4>6 DEF Arrive, PeerSignals, HangUp, Connect, Connected, PeerTransports, Move, TypeOK
        <5>2. QED
          BY <2>2, <3>1, <3>3, <5>1 DEF Entry
      <4>7. QED
        BY <2>5, <4>1, <4>2, <4>3, <4>4, <4>5, <4>6 DEF ChannelStep, Handle
    <3>4. QED
      BY <3>2, <3>3
  <2>6. QED
    BY <2>3, <2>4, <2>5
<1>4. QED
  BY <1>2, <1>3 DEF EntryInv, Entry

-----------------------------------------------------------------------------
(* The streams that are opening.                                           *)

Single(S) == \A i, j \in S : i = j

(* A step of session s that makes no stream opening. *)
NoneOpened(s) ==
  /\ \A t \in Channels : t # s =>
       /\ Opening(t)' = Opening(t)
       /\ \A i \in Opening(t) : streams'[t][i].endpoint = streams[t][i].endpoint
  /\ \A i \in Opening(s)' : \E j \in Opening(s) : streams'[s][i].endpoint = streams[s][j].endpoint
  /\ Single(Opening(s)) => Single(Opening(s)')

LEMMA OpeningChanged ==
  ASSUME TypeOK, NEW s \in Channels, NEW i \in Indices(s), NEW st, NEW c, Changed(s, i, st, c)
  PROVE  /\ \A t \in Channels : t # s => Opening(t)' = Opening(t)
         /\ Opening(s)' = IF st = "opening" THEN Opening(s) \cup {i} ELSE Opening(s) \ {i}
         /\ \A t \in Channels : \A j \in Indices(t) : streams'[t][j].endpoint = streams[t][j].endpoint
<1>1. \A t \in Channels : Indices(t)' = Indices(t)
  BY DEF Changed, Indices
<1>2. \A t \in Channels : \A j \in Indices(t) :
        streams'[t][j] = IF t = s /\ j = i
                         THEN [endpoint |-> streams[s][i].endpoint, state |-> st, channel |-> c]
                         ELSE streams[t][j]
  BY DEF Changed, Indices
<1>3. \A t \in Channels : \A j \in Indices(t) :
        /\ streams'[t][j].endpoint = streams[t][j].endpoint
        /\ streams'[t][j].state = IF t = s /\ j = i THEN st ELSE streams[t][j].state
  BY <1>2
<1>4. ASSUME NEW t \in Channels, t # s PROVE Opening(t)' = Opening(t)
  <2>1. /\ Opening(t) = {j \in Indices(t) : streams[t][j].state = "opening"}
        /\ Opening(t)' = {j \in Indices(t) : streams'[t][j].state = "opening"}
    BY <1>1 DEF Opening, Indices
  <2>2. QED
    BY <1>3, <1>4, <2>1
<1>5. Opening(s)' = IF st = "opening" THEN Opening(s) \cup {i} ELSE Opening(s) \ {i}
  <2>1. /\ Opening(s) = {j \in Indices(s) : streams[s][j].state = "opening"}
        /\ Opening(s)' = {j \in Indices(s) : streams'[s][j].state = "opening"}
    BY <1>1 DEF Opening, Indices
  <2>2. QED
    BY <1>3, <2>1
<1>6. QED
  BY <1>3, <1>4, <1>5

LEMMA ChangedOpensNone ==
  ASSUME TypeOK, NEW s \in Channels, NEW i \in Indices(s), NEW st, NEW c, Changed(s, i, st, c), st # "opening"
  PROVE  NoneOpened(s) /\ Opening(s)' = Opening(s) \ {i}
<1>1. \A t \in Channels : Opening(t) \subseteq Indices(t)
  BY DEF Opening, Indices
<1>2. /\ \A t \in Channels : t # s => Opening(t)' = Opening(t)
      /\ Opening(s)' = Opening(s) \ {i}
      /\ \A t \in Channels : \A j \in Indices(t) : streams'[t][j].endpoint = streams[t][j].endpoint
  BY OpeningChanged
<1>3. \A t \in Channels : t # s => \A j \in Opening(t) : streams'[t][j].endpoint = streams[t][j].endpoint
  BY <1>1, <1>2
<1>4. \A j \in Opening(s)' : j \in Opening(s) /\ streams'[s][j].endpoint = streams[s][j].endpoint
  BY <1>1, <1>2
<1>5. Single(Opening(s)) => Single(Opening(s)')
  BY <1>4 DEF Single
<1>6. QED
  BY <1>2, <1>3, <1>4, <1>5 DEF NoneOpened

LEMMA AddedOpensNone ==
  ASSUME TypeOK, NEW s \in Channels, NEW e, Added(s, e)
  PROVE  NoneOpened(s)
<1>1. \A t \in Channels : Len(streams[t]) \in Nat
  BY StreamsType
<1>2. \A t \in Channels : t # s => \A j \in Indices(t)' : j \in Indices(t) /\ streams'[t][j] = streams[t][j]
  BY <1>1 DEF Added, Indices
<1>3. \A t \in Channels : t # s => Indices(t)' = Indices(t)
  BY <1>1 DEF Added, Indices
<1>4. \A j \in Indices(s)' : \/ j \in Indices(s) /\ streams'[s][j] = streams[s][j]
                             \/ streams'[s][j].state = "configured"
  BY <1>1 DEF Added, Indices
<1>5. \A j \in Indices(s)' : j \in Opening(s)' => streams'[s][j].state = "opening"
  BY DEF Opening, Indices
<1>6. \A j \in Opening(s)' : j \in Opening(s) /\ streams'[s][j] = streams[s][j]
  BY <1>4, <1>5 DEF Opening, Indices
<1>7. ASSUME NEW t \in Channels, t # s
      PROVE  /\ Opening(t)' = Opening(t)
             /\ \A i \in Opening(t) : streams'[t][i].endpoint = streams[t][i].endpoint
  <2>1. /\ Opening(t) = {j \in Indices(t) : streams[t][j].state = "opening"}
        /\ Opening(t)' = {j \in Indices(t) : streams'[t][j].state = "opening"}
    BY <1>3, <1>7 DEF Opening, Indices
  <2>2. \A j \in Indices(t) : streams'[t][j] = streams[t][j]
    BY <1>2, <1>3, <1>7
  <2>3. QED
    BY <2>1, <2>2
<1>8. Single(Opening(s)) => Single(Opening(s)')
  BY <1>6 DEF Single
<1>9. \A j \in Opening(s)' : \E k \in Opening(s) : streams'[s][j].endpoint = streams[s][k].endpoint
  BY <1>6
<1>10. QED
  BY <1>7, <1>8, <1>9 DEF NoneOpened

LEMMA ShrunkOpensNone ==
  ASSUME TypeOK, NEW s \in Channels, NEW i \in Indices(s), Shrunk(s, i)
  PROVE  NoneOpened(s)
<1> DEFINE old(j) == IF j = i THEN Len(streams[s]) ELSE j
<1>1. Len(streams[s]) \in Nat /\ i \in 1..Len(streams[s])
  BY StreamsType DEF Indices
<1>2. \A j \in Indices(s)' : old(j) \in Indices(s) /\ streams'[s][j] = streams[s][old(j)]
  BY <1>1 DEF Shrunk, Indices
<1>3. \A j, k \in Indices(s)' : old(j) = old(k) => j = k
  BY <1>1 DEF Shrunk, Indices
<1>4. \A t \in Channels : t # s => Indices(t)' = Indices(t) /\ \A j \in Indices(t) : streams'[t][j] = streams[t][j]
  BY DEF Shrunk, Indices
<1>5. \A j \in Opening(s)' : j \in Indices(s)' /\ streams'[s][j].state = "opening"
  BY DEF Opening, Indices
<1> HIDE DEF old
<1>6. \A j \in Opening(s)' : j \in Indices(s)' /\ old(j) \in Opening(s) /\ streams'[s][j] = streams[s][old(j)]
  BY <1>2, <1>5 DEF Opening, Indices
<1>7. ASSUME NEW t \in Channels, t # s
      PROVE  /\ Opening(t)' = Opening(t)
             /\ \A j \in Opening(t) : streams'[t][j].endpoint = streams[t][j].endpoint
  <2>1. /\ Opening(t) = {j \in Indices(t) : streams[t][j].state = "opening"}
        /\ Opening(t)' = {j \in Indices(t) : streams'[t][j].state = "opening"}
    BY <1>4, <1>7 DEF Opening, Indices
  <2>2. QED
    BY <1>4, <1>7, <2>1
<1>8. Single(Opening(s)) => Single(Opening(s)')
  BY <1>3, <1>6 DEF Single
<1>9. \A j \in Opening(s)' : \E k \in Opening(s) : streams'[s][j].endpoint = streams[s][k].endpoint
  BY <1>6
<1>10. QED
  BY <1>7, <1>8, <1>9 DEF NoneOpened

LEMMA EmptiedOpensNone ==
  ASSUME TypeOK, NEW s \in Channels, Emptied(s)
  PROVE  NoneOpened(s) /\ Opening(s)' = {}
<1>1. Opening(s)' = {}
  BY DEF Emptied, Opening
<1>2. \A t \in Channels : t # s => Opening(t)' = Opening(t) /\ streams'[t] = streams[t]
  BY DEF Emptied, Opening
<1>3. QED
  BY <1>1, <1>2 DEF NoneOpened, Single

(* Only Open makes a stream opening, and the end of the oneshot takes one. *)
LEMMA OpeningStep ==
  ASSUME TypeOK, NEW s \in Channels, SessionStep(s)
  PROVE  \/ \E e \in Endpoints : Open(s, e)
         \/ /\ NoneOpened(s) /\ overlapped' = overlapped
            /\ receiver'[s] # receiver[s] /\ Single(Opening(s)) => Opening(s)' = {}
<1> USE DEF oneshot, history
<1>1. ASSUME NEW e \in Endpoints, SetConfiguration(s, e)
      PROVE  NoneOpened(s) /\ overlapped' = overlapped /\ receiver' = receiver
  BY <1>1, StreamAdded, AddedOpensNone DEF SetConfiguration
<1>2. ASSUME NEW e \in Endpoints, Start(s, e)
      PROVE  NoneOpened(s) /\ overlapped' = overlapped /\ receiver' = receiver
  <2>1. PICK i \in At(s, e) : SetStream(s, i, "streaming", streams[s][i].channel)
    BY <1>2 DEF Start
  <2>2. i \in Indices(s) /\ streams[s][i].channel \in Channels \cup {None}
    BY IndexAt, StreamsType
  <2>3. Changed(s, i, "streaming", streams[s][i].channel)
    BY <2>1, <2>2, StreamSet DEF StreamStates
  <2>4. QED
    BY <1>2, <2>2, <2>3, ChangedOpensNone DEF Start
<1>3. ASSUME NEW e \in Endpoints, Suspend(s, e)
      PROVE  NoneOpened(s) /\ overlapped' = overlapped /\ receiver' = receiver
  <2>1. PICK i \in At(s, e) : SetStream(s, i, "open", streams[s][i].channel)
    BY <1>3 DEF Suspend
  <2>2. i \in Indices(s) /\ streams[s][i].channel \in Channels \cup {None}
    BY IndexAt, StreamsType
  <2>3. Changed(s, i, "open", streams[s][i].channel)
    BY <2>1, <2>2, StreamSet DEF StreamStates
  <2>4. QED
    BY <1>3, <2>2, <2>3, ChangedOpensNone DEF Suspend
<1>4. ASSUME NEW e \in Endpoints, CloseStream(s, e)
      PROVE  NoneOpened(s) /\ overlapped' = overlapped /\ receiver' = receiver
  <2>1. PICK i \in At(s, e) : SetStream(s, i, "closing", None)
    BY <1>4 DEF CloseStream
  <2>2. i \in Indices(s)
    BY IndexAt
  <2>3. Changed(s, i, "closing", None)
    BY <2>1, <2>2, StreamSet DEF StreamStates
  <2>4. QED
    BY <1>4, <2>2, <2>3, ChangedOpensNone DEF CloseStream
<1>5. ASSUME NEW i \in Indices(s), RemoveStream(s, i) PROVE NoneOpened(s)
  BY <1>5, StreamRemoved, ShrunkOpensNone
<1>6. ASSUME NEW e \in Endpoints, Abort(s, e)
      PROVE  NoneOpened(s) /\ overlapped' = overlapped /\ receiver' = receiver
  BY <1>5, <1>6, IndexAt DEF Abort
<1>7. ASSUME StreamEnds(s)
      PROVE  NoneOpened(s) /\ overlapped' = overlapped /\ receiver' = receiver
  BY <1>5, <1>7, FirstEnded DEF StreamEnds, Ended, Indices
<1>8. ASSUME Receive(s)
      PROVE  NoneOpened(s) /\ overlapped' = overlapped /\ (Single(Opening(s)) => Opening(s)' = {})
  <2>1. CASE Opening(s) = {}
    <3>1. streams' = streams /\ overlapped' = overlapped
      BY <1>8, <2>1 DEF Receive
    <3>2. QED
      BY <2>1, <3>1 DEF NoneOpened, Opening
  <2>2. CASE Opening(s) # {}
    <3> DEFINE i == First(Opening(s))
    <3>1. i \in Opening(s)
      BY <2>2, FirstOpening
    <3>2. i \in Indices(s)
      BY <3>1 DEF Opening, Indices
    <3>3. SetStream(s, i, "open", delivered[s]) /\ overlapped' = overlapped
      BY <1>8, <2>2 DEF Receive
    <3> HIDE DEF i
    <3>4. delivered[s] \in Channels \cup {None}
      BY DEF TypeOK
    <3>5. Changed(s, i, "open", delivered[s])
      BY <3>2, <3>3, <3>4, StreamSet DEF StreamStates
    <3>6. NoneOpened(s) /\ Opening(s)' = Opening(s) \ {i}
      BY <3>2, <3>5, ChangedOpensNone
    <3>7. QED
      BY <3>1, <3>3, <3>6 DEF Single
  <2>3. QED
    BY <2>1, <2>2
<1>9. ASSUME Panic(s) \/ DropSession(s)
      PROVE  NoneOpened(s) /\ overlapped' = overlapped /\ Opening(s)' = {}
  BY <1>9, StreamsEmptied, EmptiedOpensNone DEF Panic, DropSession
<1>10. QED
  BY <1>1, <1>2, <1>3, <1>4, <1>6, <1>7, <1>8, <1>9 DEF SessionStep, Signal

LEMMA OpenEffect ==
  ASSUME TypeOK, NEW s \in Channels, NEW e \in Endpoints, Open(s, e)
  PROVE  /\ \E i \in Indices(s) : Opening(s)' = Opening(s) \cup {i} /\ streams'[s][i].endpoint = e
         /\ \A t \in Channels : t # s => Opening(t)' = Opening(t)
         /\ \A t \in Channels : \A i \in Opening(t) : streams'[t][i].endpoint = streams[t][i].endpoint
         /\ receiver' = [receiver EXCEPT ![s] = TRUE]
         /\ overlapped' = IF Opening(s) # {} \/ Unclaimed(s) # {} THEN overlapped \cup {s} ELSE overlapped
<1>1. PICK i \in At(s, e) : SetStream(s, i, "opening", None)
  BY DEF Open
<1>2. i \in Indices(s) /\ streams[s][i].endpoint = e
  BY <1>1, IndexAt
<1>3. Changed(s, i, "opening", None)
  BY <1>1, <1>2, StreamSet DEF StreamStates
<1>4. \A t \in Channels : Opening(t) \subseteq Indices(t)
  BY DEF Opening, Indices
<1>5. /\ \A t \in Channels : t # s => Opening(t)' = Opening(t)
      /\ Opening(s)' = Opening(s) \cup {i}
      /\ \A t \in Channels : \A j \in Indices(t) : streams'[t][j].endpoint = streams[t][j].endpoint
  BY <1>2, <1>3, OpeningChanged
<1>6. QED
  BY <1>2, <1>4, <1>5 DEF Open

LEMMA OpenSessionStep ==
  ASSUME TypeOK, OpenInv, NEW s \in Channels, SessionStep(s)
  PROVE  OpenInv'
<1>1. \A t \in Channels : t # s => receiver'[t] = receiver[t]
  BY SessionOneshot DEF TypeOK
<1>2. CASE \E e \in Endpoints : Open(s, e)
  <2>1. /\ Opening(s) # {} => s \in overlapped'
        /\ \E i \in Indices(s) : Opening(s)' = Opening(s) \cup {i}
        /\ \A t \in Channels : t # s => Opening(t)' = Opening(t)
        /\ receiver' = [receiver EXCEPT ![s] = TRUE] /\ overlapped \subseteq overlapped'
    BY <1>2, OpenEffect
  <2>2. receiver'[s]
    BY <2>1 DEF TypeOK
  <2>3. s \notin overlapped' => Single(Opening(s)')
    BY <2>1 DEF Single
  <2>4. \A t \in Channels \ overlapped' : t # s => Single(Opening(t)') /\ (Opening(t)' # {} => receiver'[t])
    BY <1>1, <2>1 DEF OpenInv, Single
  <2>5. QED
    BY <2>2, <2>3, <2>4 DEF OpenInv, Single
<1>3. CASE ~\E e \in Endpoints : Open(s, e)
  <2>1. NoneOpened(s) /\ overlapped' = overlapped /\ (receiver'[s] # receiver[s] /\ Single(Opening(s)) => Opening(s)' = {})
    BY <1>3, OpeningStep
  <2>2. \A t \in Channels \ overlapped : Single(Opening(t)) /\ (Opening(t) # {} => receiver[t])
    BY DEF OpenInv, Single
  <2>3. \A t \in Channels \ overlapped : t # s => Single(Opening(t)') /\ (Opening(t)' # {} => receiver'[t])
    BY <1>1, <2>1, <2>2 DEF NoneOpened
  <2>4. s \notin overlapped => Single(Opening(s)')
    BY <2>1, <2>2 DEF NoneOpened
  <2>5. Opening(s)' # {} => Opening(s) # {}
    BY <2>1 DEF NoneOpened
  <2>6. s \notin overlapped /\ Opening(s)' # {} => receiver'[s]
    BY <2>1, <2>2, <2>5
  <2>7. \A t \in Channels \ overlapped : Single(Opening(t)') /\ (Opening(t)' # {} => receiver'[t])
    BY <2>3, <2>4, <2>6
  <2>8. QED
    BY <2>1, <2>7 DEF OpenInv, Single
<1>4. QED
  BY <1>2, <1>3

LEMMA OpenChannelStep ==
  ASSUME TypeOK, OpenInv, NEW c \in Channels, ChannelStep(c)
  PROVE  OpenInv'
<1>1. UNCHANGED <<streams, overlapped>>
  BY StreamsKept DEF ChannelStep
<1>2. receiver' = receiver
  BY DEF ChannelStep, Arrive, Handle, PeerSignals, HangUp, Connect, Connected, PeerTransports, Lookup, Insert,
         StartSession, StartFails, TakeSender, HandOver, ConfigureFails, EndLoop, RemoveEntry, oneshot
<1>3. QED
  BY <1>1, <1>2 DEF OpenInv, Opening

-----------------------------------------------------------------------------
(* Quiet connections.                                                      *)

(* What QuietInv says of channel c of a quiet connection. *)
QuietAt(c) == LET h == ConnectionOf[c] IN
  /\ want[c] = None => place[c] \notin {"handing", "delivered", "stream"}
  /\ want[c] = None => \A d \in Channels :
       /\ ConnectionOf[d] = h /\ want[d] = None
       /\ place[c] \notin {"unused", "closed"} /\ place[d] \notin {"unused", "closed"}
       => c = d
  /\ want[c] # None => pending[h] # None /\ place[c] \notin {"new", "setup"} \cup Running
  /\ found[c] # None => pending[h] = found[c]
  /\ pending[h] = c => want[c] = None /\ (place[c] = "closed" => ~slot[c])

Invs == TypeOK /\ StreamInv /\ OneshotInv /\ PlaceInv /\ EntryInv

LEMMA QuietLasts ==
  ASSUME Invs, NEW c \in Channels, SessionStep(c) \/ ChannelStep(c),
         NEW h \in Connections, Quiet(h)'
  PROVE  Quiet(h)
BY LastingConnections DEF Quiet, Invs

(* The channel of an entry, by its place. *)
LEMMA EntryPlace ==
  ASSUME Invs, NEW c \in Channels, ~ConnectedBySelf(ConnectionOf[c]), pending[ConnectionOf[c]] = c
  PROVE  place[c] \in {"setup", "session", "ending", "closed"}
<1>1. place[c] \in {"setup", "session", "ending"} \/ c \in failed \cup panicked
  BY DEF Invs, EntryInv
<1>2. c \in panicked => place[c] = "closed"
  BY DEF Invs, PlaceInv
<1>3. c \in failed => place[c] = "closed"
  <2>1. c \in failed => place[c] # "unused"
    BY DEF Invs, PlaceInv
  <2>2. QED
    BY <2>1 DEF ConnectedBySelf, Invs, PlaceInv
<1>4. QED
  BY <1>1, <1>2, <1>3

LEMMA QuietSessionStep ==
  ASSUME Invs, QuietInv, NEW s \in Channels, SessionStep(s)
  PROVE  QuietInv'
<1>1. ASSUME NEW c \in Channels, Quiet(ConnectionOf[c])' PROVE QuietAt(c)'
  <2>1. Quiet(ConnectionOf[c])
    BY <1>1, QuietLasts, ChannelsAssumption
  <2>2. \A d \in Channels : ConnectionOf[d] = ConnectionOf[c] => QuietAt(d)
    BY <2>1 DEF QuietInv, QuietAt
  <2>3. UNCHANGED <<want, failed, hungUp, pending, found>>
    BY SessionPlaces DEF Invs
  <2>4. \A d \in Channels : place'[d] \notin {"unused", "closed"} => place[d] \notin {"unused", "closed"}
    BY SessionPlaces DEF Invs
  <2>5. want[c] = None => place'[c] \notin {"handing", "delivered", "stream"}
    BY <2>2, SessionPlaces DEF QuietAt, Invs
  <2>6. want[c] # None => place'[c] \notin {"new", "setup"} \cup Running
    BY <2>2, SessionPlaces DEF QuietAt, Invs, Running
  <2>7. ASSUME pending[ConnectionOf[c]] = c, place'[c] = "closed" PROVE ~slot'[c]
    <3>1. place[c] \in {"setup", "session", "ending", "closed"}
      BY <2>1, <2>3, <2>7, EntryPlace DEF Quiet
    <3>2. CASE place[c] = "closed"
      <4>1. ~slot[c] /\ c # s
        BY <2>2, <2>7, <3>2, SessionPlaces DEF QuietAt, Invs
      <4>2. QED
        BY <4>1, SessionOneshot DEF Invs, TypeOK
    <3>3. CASE place[c] # "closed"
      <4>1. c = s /\ Panic(s)
        BY <2>7, <3>1, <3>3, SessionPlaces DEF Invs, DropSession
      <4>2. QED
        BY <4>1 DEF Panic, SenderLost
    <3>4. QED
      BY <3>2, <3>3
  <2>8. QED
    BY <2>2, <2>3, <2>4, <2>5, <2>6, <2>7 DEF QuietAt
<1>2. QED
  BY <1>1 DEF QuietInv, QuietAt


LEMMA QuietChannelStep ==
  ASSUME Invs, QuietInv, NEW c \in Channels, ChannelStep(c)
  PROVE  QuietInv'
<1> USE DEF handling, oneshot, history
<1> DEFINE h == ConnectionOf[c]
<1>1. h \in Connections /\ \A d \in Channels : ConnectionOf[d] \in Connections
  BY ChannelsAssumption
<1>2. \A d \in Channels : d # c => place'[d] = place[d]
  BY StreamsKept DEF ChannelStep, Invs
<1>3. \A d \in Channels : d # c => found'[d] = found[d] /\ want'[d] = want[d]
  BY DEF ChannelStep, Arrive, Handle, PeerSignals, HangUp, Connect, Connected, PeerTransports, Lookup, Insert,
         StartSession, StartFails, TakeSender, HandOver, ConfigureFails, EndLoop, RemoveEntry, Invs, TypeOK
<1>4. \A k \in Connections : k # h => pending'[k] = pending[k]
  BY DEF ChannelStep, Arrive, Handle, PeerSignals, HangUp, Connect, Connected, PeerTransports, Lookup, Insert,
         StartSession, StartFails, TakeSender, HandOver, ConfigureFails, EndLoop, RemoveEntry, Invs, TypeOK
<1>5. \A s \in Channels : slot'[s] => slot[s]
  BY DEF ChannelStep, Arrive, Handle, PeerSignals, HangUp, Connect, Connected, PeerTransports, Lookup, Insert,
         StartSession, StartFails, TakeSender, HandOver, ConfigureFails, EndLoop, RemoveEntry, Invs, TypeOK
<1> HIDE DEF h
<1>6. ASSUME NEW d \in Channels, ConnectionOf[d] # h, Quiet(ConnectionOf[d])' PROVE QuietAt(d)'
  <2>1. QuietAt(d)
    BY <1>1, <1>6, QuietLasts DEF QuietInv, QuietAt
  <2>2. d # c /\ \A e \in Channels : ConnectionOf[e] = ConnectionOf[d] => e # c
    BY <1>6 DEF h
  <2>3. QED
    BY <1>1, <1>2, <1>3, <1>4, <1>5, <1>6, <2>1, <2>2 DEF QuietAt
<1>7. ASSUME Quiet(h)' PROVE \A d \in Channels : ConnectionOf[d] = h => QuietAt(d)'
  <2>1. Quiet(h)
    BY <1>1, <1>7, QuietLasts
  <2>2. \A d \in Channels : ConnectionOf[d] = h => QuietAt(d)
    BY <2>1 DEF QuietInv, QuietAt
  <2>3. \A d \in Channels : ConnectionOf[d] = h /\ place[d] # "unused" => d \notin Local
    BY <2>1 DEF Quiet, ConnectedBySelf
  <2>4. c \in hungUp' => want'[c] # None
    BY <1>7 DEF Quiet, SignalingLost, h
  <2>5. ASSUME UNCHANGED <<want, pending>>,
               place[c] # "unused", place[c] = "closed" => place'[c] = "closed",
               found'[c] \in {found[c], None, pending[h]},
               want[c] = None => place'[c] \notin {"handing", "delivered", "stream"},
               want[c] # None => place'[c] \notin {"new", "setup"} \cup Running,
               pending[h] = c /\ place'[c] = "closed" => place[c] = "closed"
        PROVE  \A d \in Channels : ConnectionOf[d] = h => QuietAt(d)'
    <3>1. \A d \in Channels : place'[d] \notin {"unused", "closed"} => place[d] # "closed"
      BY <1>2, <2>5
    <3>2. \A d \in Channels : place'[d] \notin {"unused", "closed"} => place[d] \notin {"unused", "closed"}
      BY <1>2, <2>5, <3>1
    <3> SUFFICES ASSUME NEW d \in Channels, ConnectionOf[d] = h PROVE QuietAt(d)'
      OBVIOUS
    <3>3. QuietAt(d)
      BY <2>2
    <3>4. CASE d = c
      BY <1>2, <1>5, <2>5, <3>2, <3>3, <3>4 DEF QuietAt, h
    <3>5. CASE d # c
      BY <1>2, <1>3, <1>5, <2>5, <3>2, <3>3, <3>5 DEF QuietAt, h
    <3>6. QED
      BY <3>4, <3>5
  <2>6. QuietAt(c) /\ place[c] \in Places /\ PlaceInv
    BY <2>2 DEF h, Invs, TypeOK
  <2>7. CASE PeerSignals(c)
    <3>1. /\ UNCHANGED <<want, pending, found, hungUp>> /\ place[c] = "unused" /\ place'[c] = "arrived"
          /\ Wanted(h, None) = {}
      BY <2>7 DEF PeerSignals, Move, Invs, TypeOK, h
    <3>2. \A d \in Channels : ConnectionOf[d] = h /\ want[d] = None => place[d] \in {"unused", "closed"}
      BY <1>7, <2>3, <3>1 DEF Wanted, Quiet, SignalingLost
    <3>3. \A d \in Channels : ConnectionOf[d] = h => QuietAt(d)
      BY <2>2
    <3>4. \A d \in Channels : ConnectionOf[d] = h /\ d # c => QuietAt(d)'
      BY <1>2, <1>5, <3>1, <3>2, <3>3 DEF QuietAt, h
    <3>5. QuietAt(c)'
      BY <1>2, <2>6, <3>1, <3>2 DEF QuietAt, h, Running, PlaceInv
    <3>6. QED
      BY <3>4, <3>5
  <2>8. CASE \E s \in Channels, e \in Endpoints : PeerTransports(c, s, e)
    <3>1. PICK s \in Channels, e \in Endpoints : PeerTransports(c, s, e)
      BY <2>8
    <3>2. /\ UNCHANGED <<pending, found>> /\ place[c] = "unused" /\ place'[c] = "arrived"
          /\ place[s] = "session" /\ ConnectionOf[s] = h /\ want'[c] = e
      BY <3>1 DEF PeerTransports, Move, Invs, TypeOK, h
    <3>3. pending[h] = s
      BY <2>1, <3>2 DEF Invs, EntryInv, Quiet
    <3>4. s # c /\ s # None /\ e # None
      BY <3>2, ChannelsAssumption
    <3>5. \A d \in Channels : ConnectionOf[d] = h /\ d # c => QuietAt(d)'
      BY <1>2, <1>3, <1>5, <2>2, <3>2, <3>4 DEF QuietAt, h
    <3>6. QuietAt(c)'
      BY <2>6, <3>2, <3>3, <3>4 DEF QuietAt, h, Running
    <3>7. QED
      BY <3>5, <3>6
  <2>9. CASE HangUp(c)
    BY <2>5, <2>6, <2>9 DEF HangUp, QuietAt, h
  <2>10. CASE Connect(c)
    <3>1. c \in Local /\ place'[c] = "connecting"
      BY <2>10 DEF Connect, Move, Invs, TypeOK
    <3>2. QED
      BY <1>7, <3>1 DEF Quiet, ConnectedBySelf, h
  <2>11. CASE Connected(c)
    BY <2>3, <2>6, <2>11 DEF Connected, PlaceInv, h
  <2>12. CASE Lookup(c)
    <3>1. /\ UNCHANGED <<want, pending>> /\ place[c] = "arrived" /\ found'[c] = pending[h]
          /\ place'[c] = IF pending[h] = None THEN "new" ELSE "found"
      BY <2>12 DEF Lookup, Move, Invs, TypeOK, h
    <3>2. want[c] # None => place'[c] = "found"
      BY <2>6, <3>1 DEF QuietAt, h
    <3>3. QED
      BY <2>5, <3>1, <3>2 DEF Running
  <2>13. CASE Insert(c)
    <3>1. /\ UNCHANGED <<want, found>> /\ place[c] = "new" /\ pending'[h] = c /\ place'[c] = "setup"
      BY <1>1, <2>13 DEF Insert, Move, Invs, TypeOK, h
    <3>2. pending[h] = None /\ want[c] = None
      BY <2>1, <2>6, <3>1 DEF Invs, EntryInv, Quiet, QuietAt, h
    <3>3. \A d \in Channels : ConnectionOf[d] = h => QuietAt(d) /\ found[d] = None /\ want[d] = None
      BY <2>2, <3>2 DEF QuietAt
    <3>4. c # None
      BY ChannelsAssumption
    <3>5. \A d \in Channels : ConnectionOf[d] = h /\ d # c => QuietAt(d)'
      BY <1>2, <1>5, <3>1, <3>3 DEF QuietAt, h
    <3>6. QuietAt(c)'
      BY <1>2, <2>6, <3>1, <3>2, <3>3 DEF QuietAt, h
    <3>7. QED
      BY <3>5, <3>6
  <2>14. CASE StartSession(c)
    <3>1. /\ UNCHANGED <<want, pending, found>> /\ place[c] = "setup" /\ place'[c] = "session"
      BY <2>14 DEF StartSession, Move, Invs, TypeOK
    <3>2. want[c] = None
      BY <2>6, <3>1 DEF QuietAt
    <3>3. QED
      BY <2>5, <3>1, <3>2
  <2>15. CASE StartFails(c)
    <3>1. place[c] = "setup" /\ c \in failed \cup hungUp /\ UNCHANGED <<want, hungUp>>
      BY <2>15 DEF StartFails
    <3>2. c \in hungUp /\ want[c] = None
      BY <2>3, <2>6, <3>1 DEF PlaceInv, QuietAt, h
    <3>3. QED
      BY <2>4, <3>1, <3>2
  <2>16. CASE TakeSender(c)
    <3>1. /\ UNCHANGED <<want, pending>> /\ place[c] = "found" /\ found'[c] \in {found[c], None}
          /\ place'[c] \in {"handing", "closed"} /\ (place'[c] = "handing" => slot[found[c]])
      BY <2>16 DEF TakeSender, Move, Invs, TypeOK
    <3>2. found[c] \in Channels /\ ConnectionOf[found[c]] = h /\ pending[h] = found[c]
      BY <2>6, <3>1 DEF PlaceInv, QuietAt, Invs, TypeOK, h
    <3>3. place[found[c]] \in {"setup", "session", "ending", "closed"}
      BY <2>1, <3>2, EntryPlace DEF Quiet
    <3>4. want[c] = None => place[found[c]] = "closed"
      BY <2>2, <2>6, <3>1, <3>2, <3>3 DEF QuietAt, h
    <3>5. want[c] = None => place'[c] # "handing"
      BY <2>2, <3>1, <3>2, <3>4 DEF QuietAt
    <3>6. pending[h] # c
      BY <3>1, <3>2, <3>3
    <3>7. QED
      BY <2>5, <3>1, <3>5, <3>6 DEF Running
  <2>17. CASE HandOver(c) \/ ConfigureFails(c)
    <3>1. /\ UNCHANGED <<want, pending>> /\ place[c] = "handing" /\ found'[c] \in {found[c], None}
          /\ place'[c] \in {"delivered", "closed"}
      BY <2>17 DEF HandOver, ConfigureFails, Move, Invs, TypeOK
    <3>2. want[c] # None /\ pending[h] # c
      BY <2>6, <3>1, EntryPlace, <2>1 DEF QuietAt, h, Quiet
    <3>3. QED
      BY <2>5, <3>1, <3>2 DEF Running
  <2>18. CASE EndLoop(c) \/ RemoveEntry(c)
    <3>1. place[c] \in Running /\ c \in hungUp' /\ want' = want
      BY <2>6, <2>18 DEF EndLoop, RemoveEntry, InLoop, Running, PlaceInv
    <3>2. QED
      BY <2>4, <2>6, <3>1 DEF QuietAt
  <2>19. QED
    BY <2>7, <2>8, <2>9, <2>10, <2>11, <2>12, <2>13, <2>14, <2>15, <2>16, <2>17, <2>18
       DEF ChannelStep, Arrive, Handle
<1>8. QED
  BY <1>6, <1>7 DEF QuietInv, QuietAt

-----------------------------------------------------------------------------
(* What is on its way to a stream.                                         *)

(* All that is on its way to session s was made for endpoint e. *)
MadeFor(s, e) ==
  /\ \A c \in Unclaimed(s) : want[c] = e
  /\ \A c \in Handing(s) : sender[c] = "latest" => want[c] = e
  /\ delivered[s] # None => want[delivered[s]] = e

LEMMA WantSessionStep ==
  ASSUME Invs, WantInv, NEW s \in Channels, SessionStep(s)
  PROVE  WantInv'
<1>1. /\ UNCHANGED <<want, pending, found>>
      /\ \A c \in Channels : place'[c] = place[c] \/ (/\ place[c] \notin {"arrived", "found", "handing"}
                                                     /\ place'[c] \notin {"arrived", "found", "handing"})
  BY SessionPlaces DEF Invs
<1>2. \A t \in Channels : Unclaimed(t)' = Unclaimed(t) /\ Handing(t)' = Handing(t)
  BY <1>1 DEF Unclaimed, Handing
<1>3. \A t \in Channels : t # s => /\ delivered'[t] = delivered[t]
                                   /\ \A c \in Handing(t) : sender'[c] = sender[c]
  BY SessionOneshot DEF Invs, TypeOK, Handing
<1>4. \A t \in Channels \ overlapped : Quiet(ConnectionOf[t])' =>
        \A i \in Opening(t) : MadeFor(t, streams[t][i].endpoint)
  BY QuietLasts, ChannelsAssumption DEF WantInv, MadeFor
<1>5. ASSUME NEW t \in Channels, t # s, NEW e, MadeFor(t, e) PROVE MadeFor(t, e)'
  BY <1>1, <1>2, <1>3, <1>5 DEF MadeFor
<1>6. CASE \E e \in Endpoints : Open(s, e)
  <2>1. PICK e \in Endpoints : Open(s, e)
    BY <1>6
  <2>2. /\ \A t \in Channels : t # s => Opening(t)' = Opening(t)
        /\ \A t \in Channels : \A i \in Opening(t) : streams'[t][i].endpoint = streams[t][i].endpoint
        /\ overlapped' = IF Opening(s) # {} \/ Unclaimed(s) # {} THEN overlapped \cup {s} ELSE overlapped
        /\ \E i \in Indices(s) : Opening(s)' = Opening(s) \cup {i} /\ streams'[s][i].endpoint = e
    BY <2>1, OpenEffect DEF Invs
  <2>3. delivered'[s] = None /\ \A c \in Handing(s) : sender'[c] = "stale"
    BY <2>1 DEF Open, Invs, TypeOK, Handing
  <2>4. ASSUME s \notin overlapped' PROVE \A i \in Opening(s)' : MadeFor(s, streams[s][i].endpoint)'
    <3>1. Unclaimed(s)' = {}
      BY <1>2, <2>2, <2>4
    <3>2. \A f : MadeFor(s, f)'
      BY <1>2, <2>3, <3>1 DEF MadeFor
    <3>3. QED
      BY <3>2
  <2>5. \A t \in Channels \ overlapped' : t # s => t \in Channels \ overlapped
    BY <2>2
  <2>6. \A t \in Channels \ overlapped' : t # s /\ Quiet(ConnectionOf[t])' =>
          \A i \in Opening(t)' : MadeFor(t, streams[t][i].endpoint)'
    BY <1>4, <1>5, <2>2, <2>5
  <2>7. QED
    BY <2>4, <2>6 DEF WantInv, MadeFor
<1>7. CASE ~\E e \in Endpoints : Open(s, e)
  <2>1. NoneOpened(s) /\ overlapped' = overlapped
    BY <1>7, OpeningStep DEF Invs
  <2>2. sender' = sender /\ (delivered'[s] = delivered[s] \/ delivered'[s] = None)
    BY <1>7, SessionOneshot DEF Invs, TypeOK
  <2>3. ASSUME NEW e, MadeFor(s, e) PROVE MadeFor(s, e)'
    BY <1>1, <1>2, <2>2, <2>3 DEF MadeFor
  <2>4. \A t \in Channels : \A i \in Opening(t)' :
          \E j \in Opening(t) : streams'[t][i].endpoint = streams[t][j].endpoint
    BY <2>1 DEF NoneOpened
  <2>5. ASSUME NEW t \in Channels \ overlapped', Quiet(ConnectionOf[t])', NEW i \in Opening(t)'
        PROVE  MadeFor(t, streams[t][i].endpoint)'
    <3>1. PICK j \in Opening(t) : streams'[t][i].endpoint = streams[t][j].endpoint
      BY <2>4, <2>5
    <3>2. PICK e : e = streams[t][j].endpoint
      OBVIOUS
    <3>3. MadeFor(t, e)
      BY <1>4, <2>1, <2>5, <3>2
    <3>4. MadeFor(t, e)'
      BY <1>5, <2>3, <2>5, <3>3
    <3>5. streams'[t][i].endpoint = e
      BY <3>1, <3>2
    <3>6. QED
      BY <3>4, <3>5 DEF MadeFor
  <2>6. QED
    BY <2>5 DEF WantInv, MadeFor
<1>8. QED
  BY <1>6, <1>7

LEMMA WantChannelStep ==
  ASSUME Invs, OpenInv, QuietInv, QuietInv', WantInv, NEW c \in Channels, ChannelStep(c)
  PROVE  WantInv'
<1> USE DEF handling, oneshot, history
<1>1. UNCHANGED <<streams, overlapped>> /\ \A d \in Channels : d # c => place'[d] = place[d]
  BY StreamsKept DEF ChannelStep, Invs
<1>2. \A d \in Channels : d # c => found'[d] = found[d] /\ want'[d] = want[d] /\ sender'[d] = sender[d]
  BY DEF ChannelStep, Arrive, Handle, PeerSignals, HangUp, Connect, Connected, PeerTransports, Lookup, Insert,
         StartSession, StartFails, TakeSender, HandOver, ConfigureFails, EndLoop, RemoveEntry, Invs, TypeOK
<1>3. \A t \in Channels : Opening(t)' = Opening(t)
  BY <1>1 DEF Opening
<1>4. place[c] # "unused" => want'[c] = want[c]
  BY Lasting DEF Invs
<1>5. ASSUME NEW s \in Channels \ overlapped, Quiet(ConnectionOf[s])', NEW i \in Opening(s)
      PROVE  MadeFor(s, streams[s][i].endpoint)'
  <2>1. PICK e : e = streams[s][i].endpoint
    OBVIOUS
  <2>2. Quiet(ConnectionOf[s])
    BY <1>5, QuietLasts, ChannelsAssumption
  <2>3. MadeFor(s, e)
    BY <1>5, <2>1, <2>2 DEF WantInv, MadeFor
  <2>4. place[s] \in Running
    BY <1>5 DEF Invs, StreamInv, Opening, Indices
  <2>5. c \in Unclaimed(s)' => want'[c] = e
    <3>1. ASSUME c \in Unclaimed(s)' PROVE want'[c] = e
      <4>1. /\ ConnectionOf[c] = ConnectionOf[s] /\ want'[c] # None /\ place'[c] \in {"arrived", "found"}
        BY <3>1 DEF Unclaimed
      <4>2. CASE place[c] \in {"arrived", "found"}
        BY <1>4, <2>3, <4>1, <4>2 DEF MadeFor, Unclaimed
      <4>3. CASE place[c] \notin {"arrived", "found"}
        <5>1. Connected(c) \/ PeerSignals(c) \/ \E t \in Channels, f \in Endpoints : PeerTransports(c, t, f)
          BY <4>1, <4>3 DEF ChannelStep, Arrive, Handle, HangUp, Connect, Lookup, Insert, StartSession, StartFails,
                            TakeSender, HandOver, ConfigureFails, EndLoop, RemoveEntry, InLoop, Move, Invs, TypeOK
        <5>2. ~Connected(c)
          BY <2>2, <4>1, ByPeer DEF Connected, Invs, PlaceInv, Quiet
        <5>3. ~PeerSignals(c)
          BY <4>1 DEF PeerSignals, Invs, PlaceInv
        <5>4. PICK t \in Channels, f \in Endpoints : PeerTransports(c, t, f)
          BY <5>1, <5>2, <5>3
        <5>5. /\ place[t] = "session" /\ ConnectionOf[t] = ConnectionOf[c] /\ want'[c] = f
              /\ \E j \in At(t, f) : streams[t][j].state = "opening"
          BY <5>4 DEF PeerTransports, Invs, TypeOK
        <5>6. want[s] = None /\ want[t] = None
          BY <2>2, <2>4, <4>1, <5>5 DEF QuietInv, Running
        <5>7. s = t
          BY <2>2, <2>4, <4>1, <5>5, <5>6 DEF QuietInv, Running
        <5>8. PICK j \in At(s, f) : j \in Opening(s)
          BY <5>5, <5>7 DEF At, Opening
        <5>9. j = i /\ streams[s][j].endpoint = f
          BY <1>5, <5>8, IndexAt DEF OpenInv
        <5>10. QED
          BY <2>1, <5>5, <5>9
      <4>4. QED
        BY <4>2, <4>3
    <3>2. QED
      BY <3>1
  <2>6. c \in Handing(s)' /\ sender'[c] = "latest" => want'[c] = e
    <3>1. ASSUME c \in Handing(s)', sender'[c] = "latest" PROVE want'[c] = e
      <4>1. place'[c] = "handing" /\ found'[c] = s
        BY <3>1 DEF Handing
      <4>2. CASE TakeSender(c)
        <5>1. place[c] = "found" /\ found[c] = s /\ want' = want
          BY <4>1, <4>2, ChannelsAssumption DEF TakeSender, Move, Invs, TypeOK
        <5>2. ConnectionOf[s] = ConnectionOf[c]
          BY <5>1, ChannelsAssumption DEF Invs, PlaceInv
        <5>3. want'[c] # None
          BY <1>5, <4>1, <5>2 DEF QuietInv
        <5>4. c \in Unclaimed(s)
          BY <5>1, <5>2, <5>3 DEF Unclaimed
        <5>5. QED
          BY <2>3, <5>1, <5>4 DEF MadeFor
      <4>3. CASE ~TakeSender(c)
        <5>1. place[c] = "handing" /\ found' = found /\ sender' = sender /\ want' = want
          BY <4>1, <4>3
             DEF ChannelStep, Arrive, Handle, PeerSignals, HangUp, Connect, Connected, PeerTransports, Lookup,
                 Insert, StartSession, StartFails, HandOver, ConfigureFails, EndLoop, RemoveEntry, InLoop, Move,
                 Invs, TypeOK
        <5>2. QED
          BY <2>3, <3>1, <4>1, <5>1 DEF MadeFor, Handing
      <4>4. QED
        BY <4>2, <4>3
    <3>2. QED
      BY <3>1
  <2>7. delivered'[s] # None => want'[delivered'[s]] = e
    <3>1. CASE delivered'[s] = delivered[s]
      <4>1. delivered[s] # None => delivered[s] \in Channels /\ place[delivered[s]] = "delivered"
        BY DEF Invs, OneshotInv, TypeOK
      <4>2. QED
        BY <1>2, <1>4, <2>3, <3>1, <4>1 DEF MadeFor
    <3>2. CASE delivered'[s] # delivered[s]
      <4>1. HandOver(c)
        BY <3>2 DEF ChannelStep, Arrive, Handle, PeerSignals, HangUp, Connect, Connected, PeerTransports, Lookup,
                    Insert, StartSession, StartFails, TakeSender, ConfigureFails, EndLoop, RemoveEntry
      <4>2. delivered'[s] = c /\ found[c] = s /\ sender[c] = "latest" /\ place[c] = "handing" /\ want' = want
        BY <3>2, <4>1 DEF HandOver, Invs, TypeOK
      <4>3. QED
        BY <2>3, <4>2 DEF MadeFor, Handing
    <3>3. QED
      BY <3>1, <3>2
  <2>8. \A d \in Channels : d # c =>
          /\ d \in Unclaimed(s)' => d \in Unclaimed(s)
          /\ d \in Handing(s)' => d \in Handing(s)
    BY <1>1, <1>2 DEF Unclaimed, Handing
  <2>9. MadeFor(s, e)'
    <3>1. \A d \in Unclaimed(s)' : d \in Channels
      BY DEF Unclaimed
    <3>2. \A d \in Handing(s)' : d \in Channels
      BY DEF Handing
    <3>3. QED
      BY <1>2, <2>3, <2>5, <2>6, <2>7, <2>8, <3>1, <3>2 DEF MadeFor
  <2>10. QED
    BY <1>1, <2>1, <2>9 DEF MadeFor
<1>6. QED
  BY <1>1, <1>3, <1>5 DEF WantInv, MadeFor

(* Of a quiet connection, a stream has the channel made for it. *)
RightInv ==
  \A s \in Channels : \A i \in Indices(s) : LET c == streams[s][i].channel IN
    c # None => want[c] = streams[s][i].endpoint \/ s \in overlapped \/ ~Quiet(ConnectionOf[s])

LEMMA RightKept ==
  ASSUME Invs, RightInv, NEW s \in Channels, SessionStep(s) \/ ChannelStep(s),
         NEW t \in Channels, NEW i \in Indices(t), streams[t][i].channel # None
  PROVE  \/ want'[streams[t][i].channel] = streams[t][i].endpoint
         \/ t \in overlapped' \/ ~Quiet(ConnectionOf[t])'
<1>1. streams[t][i].channel \in Channels /\ place[streams[t][i].channel] = "stream"
  BY StreamsType DEF Invs, StreamInv
<1>2. want'[streams[t][i].channel] = want[streams[t][i].channel] /\ overlapped \subseteq overlapped'
  BY <1>1, Lasting DEF Invs
<1>3. Quiet(ConnectionOf[t])' => Quiet(ConnectionOf[t])
  BY QuietLasts, ChannelsAssumption
<1>4. QED
  BY <1>2, <1>3 DEF RightInv

(* The channel of a stream, after a step: it had it, or it was the next to get one. *)
Inherits(s) ==
  \A t \in Channels : \A j \in Indices(t)' : streams'[t][j].channel # None =>
    \/ \E i \in Indices(t) : /\ streams[t][i].channel = streams'[t][j].channel
                             /\ streams[t][i].endpoint = streams'[t][j].endpoint
    \/ /\ t = s /\ streams'[t][j].channel = delivered[s]
       /\ \E i \in Opening(s) : streams[s][i].endpoint = streams'[t][j].endpoint

LEMMA ChangedInherits ==
  ASSUME TypeOK, NEW s \in Channels, NEW i \in Indices(s), NEW st, NEW c, Changed(s, i, st, c),
         c \in {None, streams[s][i].channel} \/ (c = delivered[s] /\ i \in Opening(s))
  PROVE  Inherits(s)
<1>1. \A t \in Channels : Indices(t)' = Indices(t)
  BY DEF Changed, Indices
<1>2. \A t \in Channels : \A j \in Indices(t) :
        \/ streams'[t][j] = streams[t][j]
        \/ /\ t = s /\ j = i
           /\ streams'[t][j].endpoint = streams[s][i].endpoint
           /\ streams'[t][j].channel = c
  BY DEF Changed, Indices
<1>3. QED
  BY <1>1, <1>2 DEF Inherits

LEMMA InheritsStep ==
  ASSUME Invs, NEW s \in Channels, SessionStep(s)
  PROVE  Inherits(s)
<1>0. TypeOK /\ \A t \in Channels : Len(streams[t]) \in Nat
  BY StreamsType DEF Invs
<1>1. ASSUME NEW e \in Endpoints, SetConfiguration(s, e) PROVE Inherits(s)
  <2>1. Added(s, e)
    BY <1>0, <1>1, StreamAdded
  <2>2. \A t \in Channels : \A j \in Indices(t)' :
          \/ j \in Indices(t) /\ streams'[t][j] = streams[t][j]
          \/ streams'[t][j].channel = None
    BY <1>0, <2>1 DEF Added, Indices
  <2>3. QED
    BY <2>2 DEF Inherits
<1>2. ASSUME NEW i \in Indices(s), NEW st \in StreamStates, NEW c \in Channels \cup {None}, SetStream(s, i, st, c),
             c \in {None, streams[s][i].channel} \/ (c = delivered[s] /\ i \in Opening(s))
      PROVE  Inherits(s)
  BY <1>0, <1>2, StreamSet, ChangedInherits
<1>3. ASSUME NEW e \in Endpoints, Open(s, e) PROVE Inherits(s)
  BY <1>2, <1>3, IndexAt DEF Open, StreamStates
<1>4. ASSUME NEW e \in Endpoints, Start(s, e) PROVE Inherits(s)
  <2>1. PICK i \in At(s, e) : SetStream(s, i, "streaming", streams[s][i].channel)
    BY <1>4 DEF Start
  <2>2. i \in Indices(s) /\ streams[s][i].channel \in Channels \cup {None}
    BY <1>0, IndexAt, StreamsType
  <2>3. QED
    BY <1>2, <2>1, <2>2 DEF StreamStates
<1>5. ASSUME NEW e \in Endpoints, Suspend(s, e) PROVE Inherits(s)
  <2>1. PICK i \in At(s, e) : SetStream(s, i, "open", streams[s][i].channel)
    BY <1>5 DEF Suspend
  <2>2. i \in Indices(s) /\ streams[s][i].channel \in Channels \cup {None}
    BY <1>0, IndexAt, StreamsType
  <2>3. QED
    BY <1>2, <2>1, <2>2 DEF StreamStates
<1>6. ASSUME NEW e \in Endpoints, CloseStream(s, e) PROVE Inherits(s)
  BY <1>2, <1>6, IndexAt DEF CloseStream, StreamStates
<1>7. ASSUME NEW i \in Indices(s), RemoveStream(s, i) PROVE Inherits(s)
  <2>1. Shrunk(s, i) /\ i \in 1..Len(streams[s])
    BY <1>0, <1>7, StreamRemoved DEF Indices
  <2>2. \A t \in Channels : \A j \in Indices(t)' : \E k \in Indices(t) : streams'[t][j] = streams[t][k]
    <3> SUFFICES ASSUME NEW t \in Channels, NEW j \in Indices(t)'
                 PROVE  \E k \in Indices(t) : streams'[t][j] = streams[t][k]
      OBVIOUS
    <3>1. CASE t = s /\ j = i
      <4>1. Len(streams[t]) \in Indices(t) /\ streams'[t][j] = streams[t][Len(streams[t])]
        BY <1>0, <2>1, <3>1 DEF Shrunk, Indices
      <4>2. QED
        BY <4>1
    <3>2. CASE ~(t = s /\ j = i)
      <4>1. j \in Indices(t) /\ streams'[t][j] = streams[t][j]
        BY <1>0, <2>1, <3>2 DEF Shrunk, Indices
      <4>2. QED
        BY <4>1
    <3>3. QED
      BY <3>1, <3>2
  <2>3. QED
    BY <2>2 DEF Inherits
<1>8. ASSUME NEW e \in Endpoints, Abort(s, e) PROVE Inherits(s)
  BY <1>7, <1>8, IndexAt DEF Abort
<1>9. CASE StreamEnds(s)
  BY <1>0, <1>7, <1>9, FirstEnded DEF StreamEnds, Ended, Indices
<1>10. CASE Receive(s)
  <2>1. CASE Opening(s) = {}
    <3>1. streams' = streams
      BY <1>10, <2>1 DEF Receive
    <3>2. QED
      BY <3>1 DEF Inherits, Indices
  <2>2. CASE Opening(s) # {}
    <3> DEFINE i == First(Opening(s))
    <3>1. i \in Opening(s)
      BY <1>0, <2>2, FirstOpening
    <3>2. i \in Indices(s)
      BY <3>1 DEF Opening, Indices
    <3>3. SetStream(s, i, "open", delivered[s])
      BY <1>10, <2>2 DEF Receive
    <3> HIDE DEF i
    <3>4. delivered[s] \in Channels \cup {None} /\ "open" \in StreamStates
      BY <1>0 DEF TypeOK, StreamStates
    <3>5. QED
      BY <1>2, <3>1, <3>2, <3>3, <3>4
  <2>3. QED
    BY <2>1, <2>2
<1>11. CASE Panic(s) \/ DropSession(s)
  <2>1. Emptied(s)
    BY <1>0, <1>11, StreamsEmptied DEF Panic, DropSession
  <2>2. \A t \in Channels : \A j \in Indices(t)' : j \in Indices(t) /\ streams'[t][j] = streams[t][j]
    BY <2>1 DEF Emptied, Indices
  <2>3. QED
    BY <2>2 DEF Inherits
<1>12. QED
  BY <1>1, <1>3, <1>4, <1>5, <1>6, <1>8, <1>9, <1>10, <1>11 DEF SessionStep, Signal

LEMMA RightSessionStep ==
  ASSUME Invs, WantInv, RightInv, NEW s \in Channels, SessionStep(s)
  PROVE  RightInv'
<1>1. ASSUME NEW t \in Channels, NEW j \in Indices(t)', streams'[t][j].channel # None
      PROVE  \/ want'[streams'[t][j].channel] = streams'[t][j].endpoint
             \/ t \in overlapped' \/ ~Quiet(ConnectionOf[t])'
  <2>1. CASE \E i \in Indices(t) : /\ streams[t][i].channel = streams'[t][j].channel
                                   /\ streams[t][i].endpoint = streams'[t][j].endpoint
    BY <1>1, <2>1, RightKept
  <2>2. CASE /\ t = s /\ streams'[t][j].channel = delivered[s]
             /\ \E i \in Opening(s) : streams[s][i].endpoint = streams'[t][j].endpoint
    <3>1. Quiet(ConnectionOf[s])' => Quiet(ConnectionOf[s])
      BY QuietLasts, ChannelsAssumption
    <3>2. overlapped \subseteq overlapped' /\ want' = want
      BY Lasting, SessionPlaces DEF Invs
    <3>3. QED
      BY <1>1, <2>2, <3>1, <3>2 DEF WantInv
  <2>3. QED
    BY <1>1, <2>1, <2>2, InheritsStep DEF Inherits
<1>2. QED
  BY <1>1 DEF RightInv

LEMMA RightChannelStep ==
  ASSUME Invs, RightInv, NEW c \in Channels, ChannelStep(c)
  PROVE  RightInv'
<1>1. streams' = streams
  BY StreamsKept DEF ChannelStep, Invs
<1>2. QED
  BY <1>1, RightKept DEF RightInv, Indices

-----------------------------------------------------------------------------
(* The theorems.                                                           *)

IInv == Invs /\ SenderInv /\ OpenInv /\ QuietInv /\ WantInv /\ RightInv

LEMMA InitIInv == Init => IInv
<1> SUFFICES ASSUME Init PROVE IInv
  OBVIOUS
<1>1. TypeOK
  BY InitTypes
<1>2. \A s \in Channels : streams[s] = <<>> /\ Len(streams[s]) = 0 /\ Indices(s) = {} /\ Opening(s) = {}
  BY EmptySeq DEF Init, Indices, Opening
<1>3. StreamInv /\ OpenInv /\ WantInv /\ RightInv
  BY <1>2 DEF StreamInv, OpenInv, WantInv, RightInv, Init
<1>4. OneshotInv /\ PlaceInv /\ EntryInv /\ SenderInv /\ QuietInv
  BY ChannelsAssumption DEF Init, OneshotInv, PlaceInv, EntryInv, SenderInv, QuietInv, Running
<1>5. QED
  BY <1>1, <1>3, <1>4 DEF IInv, Invs

LEMMA NextIInv == IInv /\ [Next]_vars => IInv'
<1> SUFFICES ASSUME IInv, [Next]_vars PROVE IInv'
  OBVIOUS
<1>1. TypeOK'
  BY NextTypes DEF IInv, Invs
<1>2. CASE UNCHANGED vars
  BY <1>1, <1>2 DEF vars, handling, oneshot, session, history, IInv, Invs, StreamInv, OneshotInv, PlaceInv, EntryInv,
     SenderInv, OpenInv, QuietInv, WantInv, RightInv, Indices, Opening, Quiet, ConnectedBySelf, SignalingLost, Dropped,
     Handing, Unclaimed
<1>3. ASSUME NEW s \in Channels, SessionStep(s) PROVE IInv'
  <2> USE DEF IInv, Invs
  <2>1. StreamInv'
    BY <1>3, StreamStep DEF SessionStep, Loop
  <2>2. OneshotInv' /\ PlaceInv' /\ EntryInv' /\ SenderInv'
    BY <1>3, OneshotSessionStep, PlaceStep, EntrySessionStep, SenderSessionStep
  <2>3. OpenInv' /\ QuietInv' /\ WantInv' /\ RightInv'
    BY <1>3, OpenSessionStep, QuietSessionStep, WantSessionStep, RightSessionStep
  <2>4. QED
    BY <1>1, <2>1, <2>2, <2>3
<1>4. ASSUME NEW c \in Channels, ChannelStep(c) PROVE IInv'
  <2> USE DEF IInv, Invs
  <2>1. StreamInv'
    BY <1>4, StreamStep DEF ChannelStep, Loop
  <2>2. OneshotInv' /\ PlaceInv' /\ EntryInv' /\ SenderInv'
    BY <1>4, OneshotChannelStep, PlaceChannelStep, EntryChannelStep, SenderChannelStep
  <2>3. OpenInv' /\ QuietInv' /\ RightInv'
    BY <1>4, OpenChannelStep, QuietChannelStep, RightChannelStep
  <2>4. WantInv'
    BY <1>4, <2>3, WantChannelStep
  <2>5. QED
    BY <1>1, <2>1, <2>2, <2>3, <2>4
<1>5. QED
  BY <1>2, <1>3, <1>4, Steps

(* Every variable keeps its type. *)
THEOREM TypesCorrect == Spec => []TypeOK
<1>1. Init => TypeOK
  BY InitTypes
<1>2. TypeOK /\ [Next]_vars => TypeOK'
  BY NextTypes
<1>3. QED
  BY <1>1, <1>2, PTL DEF Spec

LEMMA IInvHolds == Spec => []IInv
BY InitIInv, NextIInv, PTL DEF Spec

LEMMA Streams ==
  ASSUME NEW x
  PROVE  x \in AllStreams <=> \E s \in Channels : \E i \in Indices(s) : x = <<s, i>>
BY DEF AllStreams, Indices

(***************************************************************************)
(* An endpoint is in use exactly while one stream has it.                  *)
(***************************************************************************)
THEOREM EndpointLocks == Spec => []EndpointsLocked
<1>1. IInv => EndpointsLocked
  <2> SUFFICES ASSUME StreamInv PROVE EndpointsLocked
    BY DEF IInv, Invs
  <2>1. inUse = {StreamAt(x).endpoint : x \in AllStreams}
    <3>1. \A e \in inUse : \E x \in AllStreams : StreamAt(x).endpoint = e
      <4> TAKE e \in inUse
      <4>1. PICK s \in Channels : \E i \in Indices(s) : streams[s][i].endpoint = e
        BY DEF StreamInv
      <4>2. PICK i \in Indices(s) : streams[s][i].endpoint = e
        BY <4>1
      <4>3. <<s, i>> \in AllStreams /\ StreamAt(<<s, i>>).endpoint = e
        BY <4>2, Streams DEF StreamAt
      <4>4. QED
        BY <4>3
    <3>2. \A x \in AllStreams : StreamAt(x).endpoint \in inUse
      BY Streams DEF StreamAt, StreamInv
    <3>3. QED
      BY <3>1, <3>2
  <2>2. \A x, y \in AllStreams : StreamAt(x).endpoint = StreamAt(y).endpoint => x = y
    BY Streams DEF StreamAt, StreamInv
  <2>3. QED
    BY <2>1, <2>2 DEF EndpointsLocked
<1>2. QED
  BY <1>1, IInvHolds, PTL

(***************************************************************************)
(* Open and streaming streams, and no others, have a transport channel,    *)
(* each one of its own.                                                    *)
(***************************************************************************)
THEOREM ChannelsAndStates == Spec => []ChannelsMatchStates
<1>1. IInv => ChannelsMatchStates
  BY Streams DEF IInv, Invs, StreamInv, ChannelsMatchStates, StreamAt, Taken
<1>2. QED
  BY <1>1, IInvHolds, PTL

(***************************************************************************)
(* Without connect() the entry of a connection is that of its session, and *)
(* a session that ends well takes it along.                                *)
(***************************************************************************)
THEOREM Entries == Spec => []EntryMatchesSession
<1>1. IInv => EntryMatchesSession
  <2> SUFFICES ASSUME IInv, NEW h \in Connections, ~ConnectedBySelf(h)
               PROVE  /\ pending[h] # None => \/ place[pending[h]] \in {"setup", "session", "ending"}
                                              \/ pending[h] \in failed \cup panicked
                      /\ \A s \in Channels : Live(s) /\ ConnectionOf[s] = h => pending[h] = s
    BY DEF EntryMatchesSession
  <2>1. pending[h] # None => pending[h] \in Channels /\ ConnectionOf[pending[h]] = h
    BY DEF IInv, Invs, PlaceInv, TypeOK
  <2>2. QED
    BY <2>1 DEF IInv, Invs, EntryInv, Live
<1>2. QED
  BY <1>1, IInvHolds, PTL

(***************************************************************************)
(* The expect() of the session's loop fails only after connect(), or a     *)
(* configure() that failed, has lost the session's sender.                 *)
(***************************************************************************)
THEOREM Panics == Spec => []PanicsExplained
<1>1. IInv => PanicsExplained
  BY DEF IInv, SenderInv, PanicsExplained, Dropped
<1>2. QED
  BY <1>1, IInvHolds, PTL

(***************************************************************************)
(* Unless openings overlapped or the sender is lost, a stream that is      *)
(* opening has a listening session and a sender to come.                   *)
(***************************************************************************)
THEOREM OpeningsServable == Spec => []OpeningServable
<1>1. IInv => OpeningServable
  BY DEF IInv, Invs, TypeOK, OpenInv, OpeningServable, SenderLost, Handing, Senders, PlaceInv
<1>2. QED
  BY <1>1, IInvHolds, PTL

(***************************************************************************)
(* Of a connection without connect() whose signaling channel lasts, a      *)
(* stream has the channel the peer made for it, unless openings overlapped.*)
(***************************************************************************)
THEOREM RightChannels == Spec => []RightChannel
<1>1. IInv => RightChannel
  <2> SUFFICES ASSUME IInv, NEW x \in AllStreams, StreamAt(x).channel # None
               PROVE  \/ want[StreamAt(x).channel] = StreamAt(x).endpoint
                      \/ x[1] \in overlapped
                      \/ SignalingLost(ConnectionOf[StreamAt(x).channel])
                      \/ ConnectedBySelf(ConnectionOf[StreamAt(x).channel])
    BY DEF RightChannel
  <2>1. PICK s \in Channels : \E i \in Indices(s) : x = <<s, i>>
    BY Streams
  <2>2. PICK i \in Indices(s) : x = <<s, i>>
    BY <2>1
  <2>3. x[1] = s /\ StreamAt(x) = streams[s][i]
    BY <2>2 DEF StreamAt
  <2>4. ConnectionOf[streams[s][i].channel] = ConnectionOf[s]
    BY <2>3 DEF IInv, Invs, StreamInv
  <2>5. QED
    BY <2>3, <2>4 DEF IInv, RightInv, Quiet
<1>2. QED
  BY <1>1, IInvHolds, PTL

=============================================================================
