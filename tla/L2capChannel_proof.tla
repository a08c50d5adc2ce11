------------------------- MODULE L2capChannel_proof -------------------------
(***************************************************************************)
(* L2CAP channels, for any connections, ids, writes and quitters.  Ids are *)
(* handed out again, so a packet says little about the channel it meets:   *)
(* what holds is what it says of the channel that had its id when it was   *)
(* sent.  From that follow why a server stops delivering to a channel, and *)
(* how a packet can reach another than the one it was written to.          *)
(*                                                                         *)
(* The second half is about channels whose ids were not handed out twice   *)
(* and which nobody configured again: what each has yet to take in is what *)
(* its peer sent it, in order, and nothing of it is missing.  From that    *)
(* follow that open ends agree and that read() loses nothing.              *)
(***************************************************************************)
EXTENDS L2capChannel, SequenceTheorems, WellFoundedInduction, TLAPS

-----------------------------------------------------------------------------
(* Hosts and ends. *)
LEMMA HostFacts ==
  ASSUME NEW s \in Hosts
  PROVE  /\ Other(s) \in Hosts /\ Other(s) # s /\ Other(Other(s)) = s
         /\ \A t \in Hosts : t = s \/ t = Other(s)
<1>1. PICK a \in Hosts, b \in Hosts : a # b /\ Hosts = {a, b}
  BY HostsAssumption
<1>2. \A o \in Hosts : Other(o) \in Hosts /\ Other(o) # o
  <2>1. ASSUME NEW o \in Hosts PROVE \E t \in Hosts : t # o
    BY <1>1
  <2>2. QED
    BY <2>1 DEF Other
<1>3. QED
  BY <1>1, <1>2

LEMMA EndFacts ==
  ASSUME NEW e \in Ends
  PROVE  /\ Conn(e) \in Connections /\ Host(e) \in Hosts /\ e = <<Conn(e), Host(e)>>
         /\ Peer(e) \in Ends /\ Peer(Peer(e)) = e /\ Peer(e) # e
         /\ Conn(Peer(e)) = Conn(e) /\ Host(Peer(e)) = Other(Host(e)) /\ Host(e) = Other(Host(Peer(e)))
         /\ Host(Peer(e)) # Host(e)
<1>1. Conn(e) \in Connections /\ Host(e) \in Hosts /\ e = <<Conn(e), Host(e)>>
  BY DEF Ends, Conn, Host
<1>2. PICK s \in Hosts : s = Host(e)
  BY <1>1
<1>3. PICK o \in Hosts : o = Other(s) /\ o # s /\ Other(o) = s
  BY HostFacts
<1>4. PICK p \in Ends : p = Peer(e) /\ p = <<Conn(e), o>>
  BY <1>1, <1>2, <1>3 DEF Ends, Peer
<1>5. Conn(p) = Conn(e) /\ Host(p) = o
  BY <1>4 DEF Conn, Host
<1>6. Peer(p) = e
  BY <1>1, <1>2, <1>3, <1>5 DEF Peer
<1>7. p # e
  BY <1>2, <1>3, <1>5
<1>8. QED
  BY <1>1, <1>2, <1>3, <1>4, <1>5, <1>6, <1>7

LEMMA EndIs ==
  ASSUME NEW k \in Connections, NEW s \in Hosts
  PROVE  <<k, s>> \in Ends /\ Conn(<<k, s>>) = k /\ Host(<<k, s>>) = s
BY DEF Ends, Conn, Host

LEMMA OpenerFacts ==
  ASSUME NEW k \in Connections
  PROVE  Opener[k] \in Hosts
BY HostsAssumption

LEMMA CidFacts ==
  ASSUME NEW s \in Hosts
  PROVE  /\ Cids[s] \subseteq AllCids /\ Cids[s] \subseteq Nat /\ NoCid \notin Cids[s] /\ NoCid \in AllCids
<1>1. Cids[s] \in SUBSET (Nat \ {NoCid})
  BY CidsAssumption
<1>2. Cids[s] \subseteq AllCids /\ NoCid \in AllCids
  <2>1. Cids[s] \in {Cids[o] : o \in Hosts}
    OBVIOUS
  <2>2. Cids[s] \subseteq UNION {Cids[o] : o \in Hosts}
    BY <2>1
  <2>3. QED
    BY <2>2 DEF AllCids
<1>3. QED
  BY <1>1, <1>2

(* The fields of a packet of each type. *)
LEMMA PacketFacts ==
  ASSUME NEW m \in Packet
  PROVE  /\ m.type \in {"connReq", "connRsp", "configReq", "configRsp", "discReq", "discRsp", "data"}
         /\ m.type = "connReq" => m.conn \in Connections /\ m.scid \in AllCids
         /\ m.type = "connRsp" => m.dcid \in AllCids /\ m.scid \in AllCids /\ m.success \in BOOLEAN
         /\ m.type = "configReq" => m.dcid \in AllCids
         /\ m.type = "configRsp" => m.scid \in AllCids
         /\ m.type = "discReq" => m.dcid \in AllCids
         /\ m.type = "discRsp" => m.dcid \in AllCids
         /\ m.type = "data" => m.dcid \in AllCids /\ m.from \in Ends /\ m.seq \in Nat
<1>1. CASE \E k \in Connections, c \in AllCids : m = ConnectionRequest(k, c)
  BY <1>1 DEF ConnectionRequest
<1>2. CASE \E c \in AllCids, d \in AllCids, ok \in BOOLEAN : m = ConnectionResponse(c, d, ok)
  BY <1>2 DEF ConnectionResponse
<1>3. CASE \E c \in AllCids : m = ConfigureRequest(c)
  BY <1>3 DEF ConfigureRequest
<1>4. CASE \E c \in AllCids : m = ConfigureResponse(c)
  BY <1>4 DEF ConfigureResponse
<1>5. CASE \E c \in AllCids, d \in AllCids : m = DisconnectionRequest(c, d)
  BY <1>5 DEF DisconnectionRequest
<1>6. CASE \E c \in AllCids, d \in AllCids : m = DisconnectionResponse(c, d)
  BY <1>6 DEF DisconnectionResponse
<1>7. CASE \E e \in Ends : \E c \in AllCids, n \in 1..MaxWrites[e] : m = Data(c, e, n)
  BY <1>7 DEF Data
<1>8. QED
  BY <1>1, <1>2, <1>3, <1>4, <1>5, <1>6, <1>7 DEF Packet

(* And back. *)
LEMMA PacketIs ==
  /\ \A k \in Connections, c \in AllCids : ConnectionRequest(k, c) \in Packet
  /\ \A c \in AllCids, d \in AllCids, ok \in BOOLEAN : ConnectionResponse(c, d, ok) \in Packet
  /\ \A c \in AllCids : ConfigureRequest(c) \in Packet
  /\ \A c \in AllCids : ConfigureResponse(c) \in Packet
  /\ \A c \in AllCids, d \in AllCids : DisconnectionRequest(c, d) \in Packet
  /\ \A c \in AllCids, d \in AllCids : DisconnectionResponse(c, d) \in Packet
  /\ \A e \in Ends : \A c \in AllCids, n \in 1..MaxWrites[e] : Data(c, e, n) \in Packet
<1>1. \A k \in Connections, c \in AllCids : ConnectionRequest(k, c) \in Packet
  BY DEF Packet
<1>2. \A c \in AllCids, d \in AllCids, ok \in BOOLEAN : ConnectionResponse(c, d, ok) \in Packet
  BY DEF Packet
<1>3. \A c \in AllCids : ConfigureRequest(c) \in Packet
  BY DEF Packet
<1>4. \A c \in AllCids : ConfigureResponse(c) \in Packet
  BY DEF Packet
<1>5. \A c \in AllCids, d \in AllCids : DisconnectionRequest(c, d) \in Packet
  BY DEF Packet
<1>6. \A c \in AllCids, d \in AllCids : DisconnectionResponse(c, d) \in Packet
  BY DEF Packet
<1>7. ASSUME NEW e \in Ends, NEW c \in AllCids, NEW n \in 1..MaxWrites[e] PROVE Data(c, e, n) \in Packet
  BY DEF Packet
<1>8. QED
  BY <1>1, <1>2, <1>3, <1>4, <1>5, <1>6, <1>7

(* The id handed out is a free one. *)
LEMMA NewCidFree ==
  ASSUME NEW s \in Hosts, Free(s) # {}
  PROVE  /\ NewCid(s) \in Cids[s] /\ NewCid(s) # NoCid /\ NewCid(s) \in AllCids
         /\ Retained(s)[NewCid(s)] = None
<1>1. Free(s) \subseteq Nat
  BY CidFacts DEF Free
<1>2. PICK c \in Free(s) : \A d \in Free(s) : ~(<<d, c>> \in OpToRel(<, Nat))
  BY <1>1, WFMin, NatLessThanWellFounded
<1>3. \A d \in Free(s) : ~(d < c)
  BY <1>1, <1>2 DEF OpToRel
<1>4. \A d \in Free(s) : c <= d
  BY <1>1, <1>3
<1>5. NewCid(s) \in Free(s)
  BY <1>4 DEF NewCid
<1>6. QED
  BY <1>5, CidFacts DEF Free

-----------------------------------------------------------------------------
(* What a packet says of the channels there are. *)

(* The remote id of the channel is set once and for all. *)
Settled(e) == state[e] \notin {"none", "idle", "waitConnectRsp"}

\* A channel of host s, closed or closing, has c as its remote id.
ClosingTo(s, c) == \E f \in Ends : Host(f) = s /\ remote[f] = c /\ state[f] \in Closing

\* A channel of host s got the id d, and its peer got c.
Answered(s, c, d) ==
  /\ c # NoCid /\ d # NoCid
  /\ \E g \in Ends : Host(g) = s /\ local[g] = d /\ local[Peer(g)] = c

Asks(m, k) == m.type = "connReq" /\ m.conn = k

\* The peer of f exists, or was refused.
Known(f) ==
  LET s == Other(Host(f)) IN
  op[Peer(f)] = "none" => \A i \in 1..Len(link[s]) : ~Asks(link[s][i], Conn(f))

RequestOK(s, m) ==
  /\ Opener[m.conn] # s /\ op[<<m.conn, s>>] = "none"
  /\ op[<<m.conn, Opener[m.conn]>>] \notin {"none", "created"}
  /\ m.scid = local[<<m.conn, Opener[m.conn]>>]

LinkOK(s, m) ==
  /\ m.type = "connReq" => RequestOK(s, m)
  /\ m.type = "connRsp" /\ m.success => Answered(s, m.dcid, m.scid)
  /\ m.type = "data" => Host(m.from) = Other(s) /\ remote[m.from] = m.dcid /\ Settled(m.from)
  /\ m.type = "discReq" => ClosingTo(Other(s), m.dcid)
  /\ m.type = "discRsp" => ClosingTo(s, m.dcid)

LinkOrder(s) ==
  \A i, j \in 1..Len(link[s]) : link[s][i].type = "connReq" =>
    /\ Asks(link[s][j], link[s][i].conn) => i = j
    /\ link[s][j].type = "data" /\ Conn(link[s][j].from) = link[s][i].conn => i < j

DataOK(e, m) ==
  /\ Host(m.from) = Other(Host(e)) /\ remote[m.from] = local[e] /\ Settled(m.from) /\ Known(m.from)
  /\ Peer(m.from) = e \/ local[Peer(m.from)] # local[e] \/ Unregistered(Peer(m.from))

InboxOK(e, m) ==
  /\ m.type = "connRsp" /\ m.success => Answered(Host(e), m.dcid, local[e])
  /\ m.type = "data" => DataOK(e, m)
  /\ m.type = "discReq" => ClosingTo(Other(Host(e)), local[e])

RemoteOK(e) ==
  remote[e] # NoCid =>
    \/ remote[e] = local[Peer(e)]
    \/ \E g \in Ends : g # e /\ Host(g) = Host(e) /\ local[g] = local[e]

EndOK(e) ==
  /\ op[e] = "none" <=> state[e] = "none"
  /\ op[e] = "none" => /\ local[e] = NoCid /\ remote[e] = NoCid
                       /\ inbox[e] = <<>> /\ received[e] = <<>> /\ written[e] = 0
  /\ op[e] # "none" => local[e] # NoCid
  /\ state[e] = "idle" => op[e] \in {"created", "dropped"}
  /\ op[e] = "created" => state[e] = "idle" /\ Host(e) = Opener[Conn(e)]
  /\ ~Settled(e) => remote[e] = NoCid
  /\ op[e] = "dropped" => state[e] \in {"idle"} \cup Closing
  /\ op[e] = "writing" => written[e] < MaxWrites[e] /\ state[e] # "open"
  /\ op[e] # "none" /\ Host(e) # Opener[Conn(e)] => op[Peer(e)] \notin {"none", "created"}

EndInv == \A e \in Ends : EndOK(e)
TableInv ==
  \A s \in Hosts : \A c \in Cids[s] :
    table[s][c] # None => Host(table[s][c]) = s /\ local[table[s][c]] = c
LinkInv ==
  \A s \in Hosts : LinkOrder(s) /\ \A i \in 1..Len(link[s]) : LinkOK(s, link[s][i])
InboxInv ==
  \A e \in Ends : \A i \in 1..Len(inbox[e]) :
    /\ InboxOK(e, inbox[e][i])
    /\ inbox[e][i].type = "discReq" => i = Len(inbox[e]) /\ Unregistered(e)
ReceivedInv ==
  \A e \in Ends : \A i \in 1..Len(received[e]) :
    received[e][i].type = "data" /\ DataOK(e, received[e][i])
RemoteInv == \A e \in Ends : RemoteOK(e)
LostInv == \A e \in Ends : op[e] # "none" /\ Unregistered(e) => Released(e)

Invs == /\ TypeOK /\ EndInv /\ TableInv /\ LinkInv /\ InboxInv
        /\ ReceivedInv /\ RemoteInv /\ LostInv

-----------------------------------------------------------------------------
(* What every step does.  Ends keep their ids, states only go on. *)
Stable ==
  \A e \in Ends :
    /\ op[e] # "none" => op'[e] # "none" /\ local'[e] = local[e]
    /\ op[e] = "none" /\ op'[e] = "none" => local'[e] = local[e]
    /\ op[e] \notin {"none", "created"} => op'[e] \notin {"none", "created"}
    /\ op[e] = "dropped" => op'[e] = "dropped"
    /\ Settled(e) => Settled(e)' /\ remote'[e] = remote[e]
    /\ state[e] \in Closing => state'[e] \in Closing
    /\ op[e] # "none" /\ Unregistered(e) => Unregistered(e)'
    /\ op[e] = "none" /\ op'[e] # "none" =>
         Host(e) = Opener[Conn(e)] \/ \E i \in 1..Len(link[Host(e)]) : Asks(link[Host(e)][i], Conn(e))

\* A link loses its first packet or none; m is a new one, at place i.
Fresh(s, d, i, m) ==
  /\ LinkOK(s, m)'
  /\ m.type = "connReq" => /\ op[<<m.conn, Opener[m.conn]>>] = "created"
                           /\ i = Len(link'[s]) /\ i + d = Len(link[s]) + 1

Old(s, d, i, m) ==
  /\ i + d \in 1..Len(link[s]) /\ m = link[s][i + d]
  /\ m.type = "connReq" => op'[<<m.conn, s>>] = "none"

LinkStep ==
  \A s \in Hosts : \E d \in {0, 1} :
    \A i \in 1..Len(link'[s]) : \E m \in Packet :
      /\ link'[s][i] = m
      /\ Old(s, d, i, m) \/ (i + d > Len(link[s]) /\ Fresh(s, d, i, m))

InboxStep ==
  \A e \in Ends :
    \/ inbox'[e] = inbox[e]
    \/ inbox[e] # <<>> /\ inbox'[e] = Tail(inbox[e])
    \/ inbox'[e] = <<>>
    \/ \E m \in Packet : /\ inbox'[e] = Append(inbox[e], m) /\ InboxOK(e, m)'
                         /\ op[e] # "none" /\ ~Unregistered(e)
                         /\ m.type = "discReq" => Unregistered(e)'

ReceivedStep ==
  \A e \in Ends :
    \/ received'[e] = received[e]
    \/ /\ inbox[e] # <<>> /\ inbox[e][1].type = "data"
       /\ received'[e] = Append(received[e], inbox[e][1])

RemoteStep == \A e \in Ends : remote'[e] = remote[e] \/ RemoteOK(e)'

TableStep ==
  \A s \in Hosts : \A c \in Cids[s] :
    \/ table'[s][c] \in {table[s][c], None}
    \/ Host(table'[s][c]) = s /\ local'[table'[s][c]] = c

LostStep ==
  \A e \in Ends :
    /\ op[e] # "none" /\ Unregistered(e) /\ Released(e) => Released(e)'
    /\ op'[e] # "none" /\ Unregistered(e)' /\ (op[e] = "none" \/ ~Unregistered(e)) => Released(e)'

Step == /\ Stable /\ LinkStep /\ InboxStep /\ ReceivedStep
        /\ RemoteStep /\ TableStep /\ LostStep

-----------------------------------------------------------------------------
(* What is said of channels goes on to hold. *)
LEMMA ClosingToKept ==
  ASSUME Stable, NEW s, NEW c, ClosingTo(s, c)
  PROVE  ClosingTo(s, c)'
<1>1. PICK f \in Ends : Host(f) = s /\ remote[f] = c /\ state[f] \in Closing
  BY DEF ClosingTo
<1>2. Settled(f)
  BY <1>1 DEF Settled, Closing
<1>3. remote'[f] = c /\ state'[f] \in Closing
  BY <1>1, <1>2 DEF Stable
<1>4. QED
  BY <1>1, <1>3 DEF ClosingTo

LEMMA LocalKept ==
  ASSUME Stable, EndInv, NEW e \in Ends, local[e] # NoCid
  PROVE  op[e] # "none" /\ op'[e] # "none" /\ local'[e] = local[e]
<1>1. op[e] # "none"
  BY DEF EndInv, EndOK
<1>2. QED
  BY <1>1 DEF Stable

LEMMA AnsweredKept ==
  ASSUME Stable, EndInv, NEW s, NEW c, NEW d, Answered(s, c, d)
  PROVE  Answered(s, c, d)'
<1>1. PICK g \in Ends : Host(g) = s /\ local[g] = d /\ local[Peer(g)] = c
  BY DEF Answered
<1>2. c # NoCid /\ d # NoCid
  BY DEF Answered
<1>3. Peer(g) \in Ends
  BY EndFacts
<1>4. local'[g] = d
  BY <1>1, <1>2, LocalKept
<1>5. local'[Peer(g)] = c
  BY <1>1, <1>2, <1>3, LocalKept
<1>6. QED
  BY <1>1, <1>2, <1>4, <1>5 DEF Answered

LEMMA MixedUpKept ==
  ASSUME Stable, NEW e \in Ends, local'[e] = local[e], MixedUp(e)
  PROVE  MixedUp(e)'
<1>1. PICK f \in Ends : Host(f) = Host(e) /\ f # e /\ remote[f] = local[e] /\ state[f] \in Closing
  BY DEF MixedUp
<1>2. Settled(f)
  BY <1>1 DEF Settled, Closing
<1>3. remote'[f] = local[e] /\ state'[f] \in Closing
  BY <1>1, <1>2 DEF Stable
<1>4. QED
  BY <1>1, <1>3 DEF MixedUp

\* A packet that stays on its way.
LEMMA LinkOKKept ==
  ASSUME Stable, EndInv, NEW s \in Hosts, NEW m \in Packet, LinkOK(s, m),
         m.type = "connReq" => op'[<<m.conn, s>>] = "none"
  PROVE  LinkOK(s, m)'
<1>1. CASE m.type = "connReq"
  <2>1. RequestOK(s, m) /\ m.conn \in Connections
    BY <1>1, PacketFacts DEF LinkOK
  <2>2. PICK e \in Ends : e = <<m.conn, Opener[m.conn]>>
    BY <2>1, OpenerFacts, EndIs
  <2>3. op[e] \notin {"none", "created"} /\ m.scid = local[e]
    BY <2>1, <2>2 DEF RequestOK
  <2>4. op'[e] \notin {"none", "created"} /\ m.scid = local'[e]
    BY <2>3 DEF Stable
  <2>5. RequestOK(s, m)'
    BY <1>1, <2>1, <2>2, <2>4 DEF RequestOK
  <2>6. QED
    BY <1>1, <2>5 DEF LinkOK
<1>2. CASE m.type = "connRsp"
  BY <1>2, AnsweredKept DEF LinkOK
<1>3. CASE m.type = "data"
  <2>1. m.from \in Ends
    BY <1>3, PacketFacts
  <2>2. Host(m.from) = Other(s) /\ remote'[m.from] = m.dcid /\ Settled(m.from)'
    BY <1>3, <2>1 DEF LinkOK, Stable
  <2>3. QED
    BY <1>3, <2>2 DEF LinkOK
<1>4. CASE m.type = "discReq"
  <2>1. ClosingTo(Other(s), m.dcid)
    BY <1>4 DEF LinkOK
  <2>2. PICK o : o = Other(s)
    OBVIOUS
  <2>3. ClosingTo(o, m.dcid)'
    BY <2>1, <2>2, ClosingToKept
  <2>4. QED
    BY <1>4, <2>2, <2>3 DEF LinkOK
<1>5. CASE m.type = "discRsp"
  <2>1. ClosingTo(s, m.dcid)'
    BY <1>5, ClosingToKept DEF LinkOK
  <2>2. QED
    BY <1>5, <2>1 DEF LinkOK
<1>6. CASE m.type \in {"configReq", "configRsp"}
  BY <1>6 DEF LinkOK
<1>7. QED
  BY <1>1, <1>2, <1>3, <1>4, <1>5, <1>6, PacketFacts

\* A channel with a known peer keeps it known.
LEMMA KnownKept ==
  ASSUME Stable, EndInv, LinkStep, NEW f \in Ends, Settled(f), Known(f)
  PROVE  Known(f)'
<1>1. PICK s \in Hosts : s = Other(Host(f))
  BY EndFacts, HostFacts
<1>2. PICK p \in Ends : p = Peer(f)
  BY EndFacts
<1>3. SUFFICES ASSUME op'[p] = "none", NEW i \in 1..Len(link'[s]), Asks(link'[s][i], Conn(f))
               PROVE  FALSE
  BY <1>1, <1>2 DEF Known
<1>4. op[p] = "none"
  BY <1>3 DEF Stable
<1>5. \A j \in 1..Len(link[s]) : ~Asks(link[s][j], Conn(f))
  BY <1>1, <1>2, <1>4 DEF Known
<1>6. PICK d \in {0, 1} :
        \A j \in 1..Len(link'[s]) : \E m \in Packet :
          /\ link'[s][j] = m
          /\ Old(s, d, j, m) \/ (j + d > Len(link[s]) /\ Fresh(s, d, j, m))
  BY DEF LinkStep
<1>7. PICK m \in Packet : /\ link'[s][i] = m
                          /\ Old(s, d, i, m) \/ Fresh(s, d, i, m)
  BY <1>6
<1>8. ~Old(s, d, i, m)
  BY <1>3, <1>5, <1>7 DEF Old
<1>9. Fresh(s, d, i, m) /\ m.type = "connReq" /\ m.conn = Conn(f)
  BY <1>3, <1>7, <1>8 DEF Asks
<1>10. Opener[Conn(f)] # s /\ op[<<Conn(f), Opener[Conn(f)]>>] = "created"
  BY <1>9 DEF Fresh, LinkOK, RequestOK
<1>11. Opener[Conn(f)] = Host(f)
  <2>1. Conn(f) \in Connections /\ Host(f) \in Hosts
    BY EndFacts
  <2>2. Opener[Conn(f)] \in Hosts
    BY <2>1, OpenerFacts
  <2>3. QED
    BY <1>1, <1>10, <2>1, <2>2, HostFacts
<1>12. op[f] = "created"
  BY <1>10, <1>11, EndFacts
<1>13. QED
  BY <1>12 DEF EndInv, EndOK, Settled

LEMMA DataOKKept ==
  ASSUME Stable, EndInv, LinkStep, NEW e \in Ends, op[e] # "none", NEW m \in Packet, m.type = "data", DataOK(e, m)
  PROVE  DataOK(e, m)'
<1>1. PICK f \in Ends : f = m.from
  BY PacketFacts
<1>2. PICK p \in Ends : p = Peer(f)
  BY EndFacts
<1>3. /\ Host(f) = Other(Host(e)) /\ remote[f] = local[e] /\ Settled(f) /\ Known(f)
      /\ p = e \/ local[p] # local[e] \/ Unregistered(p)
  BY <1>1, <1>2 DEF DataOK
<1>4. Known(f)'
  BY <1>3, KnownKept
<1>5. local'[e] = local[e] /\ remote'[f] = remote[f] /\ Settled(f)'
  BY <1>3 DEF Stable
<1>6. p = e \/ local'[p] # local'[e] \/ Unregistered(p)'
  <2>1. CASE op[p] # "none"
    BY <1>3, <1>5, <2>1 DEF Stable
  <2>2. CASE op[p] = "none" /\ op'[p] # "none"
    <3>1. Host(p) = Other(Host(f)) /\ Conn(p) = Conn(f) /\ p # f /\ Peer(p) = f /\ f = <<Conn(f), Host(f)>>
      BY <1>2, EndFacts
    <3>2. \A i \in 1..Len(link[Host(p)]) : ~Asks(link[Host(p)][i], Conn(p))
      BY <1>2, <1>3, <2>2, <3>1 DEF Known
    <3>3. Host(p) = Opener[Conn(p)]
      BY <2>2, <3>2 DEF Stable
    <3>4. Host(f) # Opener[Conn(f)]
      BY <1>2, <3>1, <3>3, EndFacts
    <3>5. op[f] # "none"
      BY <1>3 DEF EndInv, EndOK, Settled
    <3>6. op[p] # "none"
      BY <1>2, <3>4, <3>5 DEF EndInv, EndOK
    <3>7. QED
      BY <2>2, <3>6
  <2>3. CASE op[p] = "none" /\ op'[p] = "none"
    <3>1. local[e] # NoCid
      BY DEF EndInv, EndOK
    <3>2. local[p] = NoCid /\ local'[p] = NoCid
      BY <2>3 DEF EndInv, EndOK, Stable
    <3>3. QED
      BY <1>5, <3>1, <3>2
  <2>4. QED
    BY <2>1, <2>2, <2>3
<1>7. QED
  BY <1>1, <1>2, <1>3, <1>4, <1>5, <1>6 DEF DataOK

\* An event that stays in the inbox.
LEMMA InboxOKKept ==
  ASSUME Stable, EndInv, LinkStep, NEW e \in Ends, op[e] # "none", NEW m \in Packet, InboxOK(e, m)
  PROVE  InboxOK(e, m)'
<1>1. local[e] # NoCid /\ local'[e] = local[e]
  BY DEF EndInv, EndOK, Stable
<1>2. CASE m.type = "connRsp"
  BY <1>1, <1>2, AnsweredKept DEF InboxOK
<1>3. CASE m.type = "data"
  BY <1>3, DataOKKept DEF InboxOK
<1>4. CASE m.type = "discReq"
  <2>1. PICK o : o = Other(Host(e))
    OBVIOUS
  <2>2. PICK c : c = local[e]
    OBVIOUS
  <2>3. ClosingTo(o, c)'
    BY <1>4, <2>1, <2>2, ClosingToKept DEF InboxOK
  <2>4. QED
    BY <1>1, <1>4, <2>1, <2>2, <2>3 DEF InboxOK
<1>5. CASE m.type \notin {"connRsp", "data", "discReq"}
  BY <1>5 DEF InboxOK
<1>6. QED
  BY <1>2, <1>3, <1>4, <1>5

-----------------------------------------------------------------------------
(* The invariants after a step that does nothing else. *)
LEMMA TableKept ==
  ASSUME TypeOK, EndInv, Stable, TableInv, TableStep
  PROVE  TableInv'
<1>1. SUFFICES ASSUME NEW s \in Hosts, NEW c \in Cids[s], table'[s][c] # None
               PROVE  Host(table'[s][c]) = s /\ local'[table'[s][c]] = c
  BY DEF TableInv
<1>2. CASE table'[s][c] = table[s][c]
  <2>1. table[s] \in [Cids[s] -> Ends \cup {None}]
    BY DEF TypeOK
  <2>2. PICK e \in Ends : e = table[s][c]
    BY <1>1, <1>2, <2>1
  <2>3. Host(e) = s /\ local[e] = c
    BY <1>1, <1>2, <2>2 DEF TableInv
  <2>4. c # NoCid
    BY CidFacts
  <2>5. local'[e] = c
    BY <2>3, <2>4, LocalKept
  <2>6. QED
    BY <1>2, <2>2, <2>3, <2>5
<1>3. QED
  BY <1>1, <1>2 DEF TableStep

LEMMA LinkOrderKept ==
  ASSUME TypeOK, TypeOK', EndInv, LinkInv, NEW s \in Hosts, NEW d \in {0, 1},
         \A i \in 1..Len(link'[s]) : \E m \in Packet :
           /\ link'[s][i] = m
           /\ Old(s, d, i, m) \/ (i + d > Len(link[s]) /\ Fresh(s, d, i, m))
  PROVE  LinkOrder(s)'
<1>1. SUFFICES ASSUME NEW i \in 1..Len(link'[s]), NEW j \in 1..Len(link'[s]), link'[s][i].type = "connReq"
               PROVE  /\ Asks(link'[s][j], link'[s][i].conn) => i = j
                      /\ link'[s][j].type = "data" /\ Conn(link'[s][j].from) = link'[s][i].conn => i < j
  BY DEF LinkOrder, Asks
<1>2. PICK m \in Packet : /\ link'[s][i] = m
                          /\ Old(s, d, i, m) \/ (i + d > Len(link[s]) /\ Fresh(s, d, i, m))
  OBVIOUS
<1>3. PICK n \in Packet : /\ link'[s][j] = n
                          /\ Old(s, d, j, n) \/ (j + d > Len(link[s]) /\ Fresh(s, d, j, n))
  OBVIOUS
<1>4. Len(link[s]) \in Nat /\ Len(link'[s]) \in Nat
  <2>1. link[s] \in Seq(Packet) /\ link'[s] \in Seq(Packet)
    BY DEF TypeOK
  <2>2. QED
    BY <2>1
<1>5. m.type = "connReq" /\ m.conn \in Connections
  BY <1>1, <1>2, PacketFacts
<1>6. PICK k \in Connections : k = m.conn
  BY <1>5
<1>7. PICK f \in Ends : f = <<k, Opener[k]>>
  BY OpenerFacts, EndIs
<1>8. \A p \in 1..Len(link[s]) : Asks(link[s][p], k) => Opener[k] # s /\ op[f] \notin {"none", "created"}
  <2>1. SUFFICES ASSUME NEW p \in 1..Len(link[s]), link[s][p].type = "connReq", link[s][p].conn = k
                 PROVE  Opener[k] # s /\ op[f] \notin {"none", "created"}
    BY DEF Asks
  <2>2. RequestOK(s, link[s][p])
    BY <2>1 DEF LinkInv, LinkOK
  <2>3. QED
    BY <1>7, <2>1, <2>2 DEF RequestOK
<1>9. Fresh(s, d, i, m) => op[f] = "created" /\ Opener[k] # s
  BY <1>5, <1>6, <1>7 DEF Fresh, LinkOK, RequestOK
<1>10. Fresh(s, d, j, n) /\ Asks(n, k) => op[f] = "created"
  BY <1>7 DEF Fresh, Asks
<1>11. CASE Old(s, d, i, m) /\ Old(s, d, j, n)
  BY <1>2, <1>3, <1>4, <1>5, <1>11 DEF Old, LinkInv, LinkOrder, Asks
<1>12. CASE Old(s, d, i, m) /\ j + d > Len(link[s]) /\ Fresh(s, d, j, n)
  <2>1. i + d \in 1..Len(link[s]) /\ Asks(link[s][i + d], k)
    BY <1>5, <1>6, <1>12 DEF Old, Asks
  <2>2. ~Asks(n, k)
    BY <1>8, <1>10, <1>12, <2>1
  <2>3. i < j
    BY <1>4, <1>12, <2>1
  <2>4. QED
    BY <1>2, <1>3, <1>6, <2>2, <2>3
<1>13. CASE Fresh(s, d, i, m) /\ Old(s, d, j, n)
  <2>1. j + d \in 1..Len(link[s]) /\ n = link[s][j + d]
    BY <1>13 DEF Old
  <2>2. ~Asks(n, k)
    BY <1>8, <1>9, <1>13, <2>1
  <2>3. ASSUME n.type = "data", Conn(n.from) = k PROVE FALSE
    <3>1. n.from \in Ends
      BY <2>3, PacketFacts
    <3>2. Host(n.from) = Other(s) /\ Settled(n.from)
      BY <2>1, <2>3 DEF LinkInv, LinkOK
    <3>3. Opener[k] = Other(s)
      BY <1>9, <1>13, OpenerFacts, HostFacts
    <3>4. n.from = f
      BY <1>7, <2>3, <3>1, <3>2, <3>3, EndFacts
    <3>5. QED
      BY <1>9, <1>13, <3>2, <3>4 DEF EndInv, EndOK, Settled
  <2>4. QED
    BY <1>2, <1>3, <1>6, <2>2, <2>3
<1>14. CASE Fresh(s, d, i, m) /\ j + d > Len(link[s])
  <2>1. i = Len(link'[s]) /\ i + d = Len(link[s]) + 1
    BY <1>5, <1>14 DEF Fresh
  <2>2. i = j
    BY <1>4, <1>14, <2>1
  <2>3. QED
    BY <1>1, <2>2
<1>15. QED
  BY <1>2, <1>3, <1>11, <1>12, <1>13, <1>14

LEMMA LinkKept ==
  ASSUME TypeOK, TypeOK', EndInv, Stable, LinkInv, LinkStep
  PROVE  LinkInv'
<1>1. SUFFICES ASSUME NEW s \in Hosts
               PROVE  LinkOrder(s)' /\ \A i \in 1..Len(link'[s]) : \E m : m = link'[s][i] /\ LinkOK(s, m)'
  BY DEF LinkInv
<1>2. PICK d \in {0, 1} :
        \A i \in 1..Len(link'[s]) : \E m \in Packet :
          /\ link'[s][i] = m
          /\ Old(s, d, i, m) \/ (i + d > Len(link[s]) /\ Fresh(s, d, i, m))
  BY DEF LinkStep
<1>3. LinkOrder(s)'
  BY <1>2, LinkOrderKept
<1>4. ASSUME NEW i \in 1..Len(link'[s])
      PROVE  \E m : m = link'[s][i] /\ LinkOK(s, m)'
  <2>1. PICK m \in Packet : /\ link'[s][i] = m
                            /\ Old(s, d, i, m) \/ Fresh(s, d, i, m)
    BY <1>2
  <2>2. CASE Old(s, d, i, m)
    <3>1. LinkOK(s, m) /\ (m.type = "connReq" => op'[<<m.conn, s>>] = "none")
      BY <2>2 DEF Old, LinkInv
    <3>2. LinkOK(s, m)'
      BY <3>1, LinkOKKept
    <3>3. QED
      BY <2>1, <3>2
  <2>3. CASE Fresh(s, d, i, m)
    BY <2>1, <2>3 DEF Fresh
  <2>4. QED
    BY <2>1, <2>2, <2>3
<1>5. QED
  BY <1>3, <1>4

LEMMA InboxKept ==
  ASSUME TypeOK, TypeOK', EndInv, Stable, LinkStep, InboxInv, InboxStep
  PROVE  InboxInv'
<1>1. SUFFICES ASSUME NEW e \in Ends, NEW i \in 1..Len(inbox'[e])
               PROVE  \E m : /\ m = inbox'[e][i] /\ InboxOK(e, m)'
                             /\ m.type = "discReq" => i = Len(inbox'[e]) /\ Unregistered(e)'
  BY DEF InboxInv
<1>2. inbox[e] \in Seq(Packet) /\ inbox'[e] \in Seq(Packet)
  BY DEF TypeOK
<1>3. ASSUME NEW j \in 1..Len(inbox[e]), inbox'[e][i] = inbox[e][j]
      PROVE  \E m : /\ m = inbox'[e][i] /\ InboxOK(e, m)'
                    /\ m.type = "discReq" => j = Len(inbox[e]) /\ Unregistered(e) /\ Unregistered(e)'
  <2>1. PICK m \in Packet : m = inbox[e][j]
    BY <1>2
  <2>2. op[e] # "none"
    BY <1>2 DEF EndInv, EndOK
  <2>3. InboxOK(e, m) /\ (m.type = "discReq" => j = Len(inbox[e]) /\ Unregistered(e))
    BY <2>1 DEF InboxInv
  <2>4. InboxOK(e, m)'
    BY <2>2, <2>3, InboxOKKept
  <2>5. Unregistered(e) => Unregistered(e)'
    BY <2>2 DEF Stable
  <2>6. QED
    BY <1>3, <2>1, <2>3, <2>4, <2>5
<1>4. CASE inbox'[e] = inbox[e]
  BY <1>3, <1>4
<1>5. CASE inbox[e] # <<>> /\ inbox'[e] = Tail(inbox[e])
  <2>1. i + 1 \in 1..Len(inbox[e]) /\ inbox'[e][i] = inbox[e][i + 1] /\ Len(inbox'[e]) = Len(inbox[e]) - 1
    BY <1>2, <1>5
  <2>2. PICK m : /\ m = inbox'[e][i] /\ InboxOK(e, m)'
                 /\ m.type = "discReq" => i + 1 = Len(inbox[e]) /\ Unregistered(e)'
    BY <1>3, <2>1
  <2>3. QED
    BY <1>2, <2>1, <2>2
<1>6. CASE inbox'[e] = <<>>
  BY <1>6
<1>7. ASSUME NEW m \in Packet, inbox'[e] = Append(inbox[e], m), InboxOK(e, m)',
             ~Unregistered(e), m.type = "discReq" => Unregistered(e)'
      PROVE  \E n : /\ n = inbox'[e][i] /\ InboxOK(e, n)'
                    /\ n.type = "discReq" => i = Len(inbox'[e]) /\ Unregistered(e)'
  <2>1. CASE i \in 1..Len(inbox[e])
    <3>1. inbox'[e][i] = inbox[e][i]
      BY <1>2, <1>7, <2>1
    <3>2. QED
      BY <1>3, <1>7, <2>1, <3>1
  <2>2. CASE i = Len(inbox[e]) + 1
    <3>1. inbox'[e][i] = m /\ i = Len(inbox'[e])
      BY <1>2, <1>7, <2>2
    <3>2. QED
      BY <1>7, <3>1
  <2>3. QED
    BY <1>2, <1>7, <2>1, <2>2
<1>8. QED
  BY <1>4, <1>5, <1>6, <1>7 DEF InboxStep

LEMMA ReceivedKept ==
  ASSUME TypeOK, EndInv, Stable, LinkStep, InboxInv, ReceivedInv, ReceivedStep
  PROVE  ReceivedInv'
<1>1. SUFFICES ASSUME NEW e \in Ends, NEW i \in 1..Len(received'[e])
               PROVE  \E m : m = received'[e][i] /\ m.type = "data" /\ DataOK(e, m)'
  BY DEF ReceivedInv
<1>2. received[e] \in Seq(Packet) /\ inbox[e] \in Seq(Packet)
  BY DEF TypeOK
<1>3. ASSUME NEW m \in Packet, m.type = "data", DataOK(e, m), op[e] # "none", m = received'[e][i]
      PROVE  \E n : n = received'[e][i] /\ n.type = "data" /\ DataOK(e, n)'
  BY <1>3, DataOKKept
<1>4. ASSUME i \in 1..Len(received[e]), received'[e][i] = received[e][i]
      PROVE  \E m : m = received'[e][i] /\ m.type = "data" /\ DataOK(e, m)'
  <2>1. PICK m \in Packet : m = received[e][i]
    BY <1>2, <1>4
  <2>2. op[e] # "none"
    BY <1>2, <1>4 DEF EndInv, EndOK
  <2>3. m.type = "data" /\ DataOK(e, m)
    BY <1>4, <2>1 DEF ReceivedInv
  <2>4. QED
    BY <1>3, <1>4, <2>1, <2>2, <2>3
<1>5. CASE received'[e] = received[e]
  BY <1>4, <1>5
<1>6. CASE inbox[e] # <<>> /\ inbox[e][1].type = "data" /\ received'[e] = Append(received[e], inbox[e][1])
  <2>1. PICK m \in Packet : m = inbox[e][1]
    BY <1>2, <1>6
  <2>2. op[e] # "none"
    BY <1>6 DEF EndInv, EndOK
  <2>3. m.type = "data" /\ DataOK(e, m)
    <3>1. 1 \in 1..Len(inbox[e])
      BY <1>2, <1>6
    <3>2. InboxOK(e, m)
      BY <2>1, <3>1 DEF InboxInv
    <3>3. QED
      BY <1>6, <2>1, <3>2 DEF InboxOK
  <2>4. (i \in 1..Len(received[e]) /\ received'[e][i] = received[e][i]) \/ received'[e][i] = m
    BY <1>2, <1>6, <2>1
  <2>5. QED
    BY <1>3, <1>4, <2>1, <2>2, <2>3, <2>4
<1>7. QED
  BY <1>5, <1>6 DEF ReceivedStep

LEMMA RemoteKept ==
  ASSUME EndInv, Stable, RemoteInv, RemoteStep
  PROVE  RemoteInv'
<1>1. SUFFICES ASSUME NEW e \in Ends, remote'[e] = remote[e], remote[e] # NoCid PROVE RemoteOK(e)'
  BY DEF RemoteInv, RemoteStep, RemoteOK
<1>2. local[e] # NoCid /\ local'[e] = local[e]
  BY <1>1 DEF EndInv, EndOK, Settled, Stable
<1>3. CASE remote[e] = local[Peer(e)]
  BY <1>1, <1>3, LocalKept, EndFacts DEF RemoteOK
<1>4. CASE \E g \in Ends : g # e /\ Host(g) = Host(e) /\ local[g] = local[e]
  BY <1>2, <1>4, LocalKept DEF RemoteOK
<1>5. QED
  BY <1>1, <1>3, <1>4 DEF RemoteInv, RemoteOK

LEMMA StepKeeps ==
  ASSUME Invs, TypeOK', EndInv', Step
  PROVE  Invs'
<1>1. /\ TypeOK /\ EndInv /\ TableInv /\ LinkInv /\ InboxInv /\ ReceivedInv /\ RemoteInv /\ LostInv
      /\ Stable /\ LinkStep /\ InboxStep /\ ReceivedStep /\ RemoteStep /\ TableStep /\ LostStep
  BY DEF Invs, Step
<1>2. TableInv' /\ LinkInv' /\ InboxInv'
  BY <1>1, TableKept, LinkKept, InboxKept
<1>3. ReceivedInv' /\ RemoteInv'
  BY <1>1, ReceivedKept, RemoteKept
<1>4. LostInv'
  BY <1>1 DEF LostInv, LostStep
<1>5. QED
  BY <1>2, <1>3, <1>4 DEF Invs

-----------------------------------------------------------------------------
(* A step of the task that owns the channel of e. *)
Others(e) ==
  \A f \in Ends \ {e} :
    /\ state'[f] = state[f] /\ remote'[f] = remote[f] /\ inbox'[f] = inbox[f]
    /\ op'[f] = op[f] /\ written'[f] = written[f] /\ received'[f] = received[f]

\* One of n packets that e sends.
Sent(e, m, n) ==
  /\ m.type = "connReq" => op[e] = "created" /\ m = ConnectionRequest(Conn(e), local[e]) /\ n = 1
  /\ m.type # "connRsp"
  /\ m.type = "data" => m.from = e /\ m.dcid = remote'[e] /\ Settled(e)'
  /\ m.type = "discReq" => m.dcid = remote'[e] /\ state'[e] \in Closing
  /\ m.type = "discRsp" => m.dcid = local[e] /\ ClosingTo(Other(Host(e)), local[e])

EndGoesOn(e) ==
  /\ op[e] \notin {"none", "dropped"} /\ op'[e] \notin {"none", "created"}
  /\ state'[e] # "none"
  /\ state'[e] = "idle" => op'[e] = "dropped"
  /\ op'[e] = "dropped" => state'[e] \in {"idle"} \cup Closing
  /\ op'[e] = "writing" => written'[e] < MaxWrites[e] /\ state'[e] # "open"
  /\ ~Settled(e)' => remote'[e] = NoCid
  /\ Settled(e) => Settled(e)' /\ remote'[e] = remote[e]
  /\ state[e] \in Closing => state'[e] \in Closing

EndStep(e, msgs) ==
  /\ local' = local /\ table' = table /\ Others(e) /\ EndGoesOn(e)
  /\ msgs \in Seq(Packet) /\ Send(Host(e), msgs)
  /\ \A i \in 1..Len(msgs) : Sent(e, msgs[i], Len(msgs))
  /\ remote'[e] = remote[e] \/ RemoteOK(e)'
  /\ inbox'[e] \in {inbox[e], <<>>} \/ (inbox[e] # <<>> /\ inbox'[e] = Tail(inbox[e]))
  /\ \/ received'[e] = received[e]
     \/ /\ inbox[e] # <<>> /\ inbox[e][1].type = "data"
        /\ received'[e] = Append(received[e], inbox[e][1])
  /\ Unregistered(e) /\ Released(e) => Released(e)'

LEMMA SendFacts ==
  ASSUME TypeOK, NEW s \in Hosts, NEW msgs \in Seq(Packet), Send(s, msgs)
  PROVE  /\ link' \in [Hosts -> Seq(Packet)]
         /\ link'[Other(s)] = link[Other(s)] \o msgs
         /\ link'[s] = link[s]
<1>1. PICK o \in Hosts : o = Other(s) /\ o # s
  BY HostFacts
<1>2. link \in [Hosts -> Seq(Packet)]
  BY DEF TypeOK
<1>3. link' = [link EXCEPT ![o] = link[o] \o msgs]
  BY <1>1 DEF Send
<1>4. link[o] \o msgs \in Seq(Packet)
  BY <1>2
<1>5. QED
  BY <1>1, <1>2, <1>3, <1>4

LEMMA EndStepEnds ==
  ASSUME TypeOK, EndInv, NEW e \in Ends, NEW msgs, EndStep(e, msgs)
  PROVE  EndInv' /\ Stable
<1>1. local' = local /\ table' = table /\ Others(e) /\ EndGoesOn(e)
  BY DEF EndStep
<1>2. ASSUME NEW f \in Ends, f # e PROVE EndOK(f)'
  <2>1. EndOK(f)
    BY DEF EndInv
  <2>2. PICK p \in Ends : p = Peer(f)
    BY EndFacts
  <2>3. op'[p] = op[p] \/ op'[p] \notin {"none", "created"}
    BY <1>1 DEF Others, EndGoesOn
  <2>4. QED
    BY <1>1, <1>2, <2>1, <2>2, <2>3 DEF EndOK, Others, Settled
<1>3. EndOK(e)'
  <2>1. EndOK(e)
    BY DEF EndInv
  <2>2. PICK p \in Ends : p = Peer(e) /\ p # e
    BY EndFacts
  <2>3. op'[p] = op[p]
    BY <1>1, <2>2 DEF Others
  <2>4. QED
    BY <1>1, <2>1, <2>2, <2>3 DEF EndOK, EndGoesOn
<1>4. Stable
  BY <1>1 DEF Stable, Others, EndGoesOn, Settled, Unregistered
<1>5. QED
  BY <1>2, <1>3, <1>4 DEF EndInv

LEMMA ReleasedElsewhere ==
  ASSUME Stable, NEW e \in Ends, local'[e] = local[e], Released(e),
         state'[e] = state[e], op'[e] = op[e], inbox'[e] = inbox[e]
  PROVE  Released(e)'
BY MixedUpKept DEF Released, EventTypes

LEMMA SentOK ==
  ASSUME TypeOK, EndInv, NEW e \in Ends, NEW msgs, EndStep(e, msgs), NEW i \in 1..Len(msgs)
  PROVE  \E m \in Packet :
           /\ m = msgs[i] /\ LinkOK(Other(Host(e)), m)'
           /\ m.type = "connReq" => op[<<m.conn, Opener[m.conn]>>] = "created" /\ Len(msgs) = 1
<1>1. local' = local /\ Others(e) /\ EndGoesOn(e) /\ Stable
  BY EndStepEnds DEF EndStep
<1>2. PICK s \in Hosts : s = Other(Host(e)) /\ Other(s) = Host(e)
  BY EndFacts, HostFacts
<1>3. PICK m \in Packet : m = msgs[i] /\ Sent(e, m, Len(msgs))
  BY DEF EndStep
<1>4. CASE m.type = "connReq"
  <2>1. m.conn = Conn(e) /\ m.scid = local[e] /\ op[e] = "created" /\ Len(msgs) = 1
    BY <1>3, <1>4 DEF Sent, ConnectionRequest
  <2>2. Host(e) = Opener[Conn(e)] /\ e = <<m.conn, Opener[m.conn]>>
    BY <2>1, EndFacts DEF EndInv, EndOK
  <2>3. PICK p \in Ends : p = Peer(e) /\ p = <<m.conn, s>> /\ p # e /\ Host(p) # Host(e) /\ Conn(p) = Conn(e)
                          /\ Peer(p) = e
    BY <1>2, <2>1, EndFacts DEF Peer
  <2>4. op[p] = "none"
    BY <2>1, <2>2, <2>3 DEF EndInv, EndOK
  <2>5. op'[p] = "none" /\ op'[e] \notin {"none", "created"}
    BY <1>1, <2>3, <2>4 DEF Others, EndGoesOn
  <2>6. RequestOK(s, m)'
    BY <1>1, <1>2, <2>1, <2>2, <2>3, <2>5, EndFacts DEF RequestOK
  <2>7. LinkOK(s, m)'
    BY <1>4, <2>6 DEF LinkOK
  <2>8. QED
    BY <1>2, <1>3, <2>1, <2>2, <2>7
<1>5. CASE m.type = "data"
  <2>1. m.from = e /\ m.dcid = remote'[e] /\ Settled(e)'
    BY <1>3, <1>5 DEF Sent
  <2>2. LinkOK(s, m)'
    BY <1>2, <1>5, <2>1 DEF LinkOK
  <2>3. QED
    BY <1>2, <1>3, <1>5, <2>2
<1>6. CASE m.type = "discReq"
  <2>1. m.dcid = remote'[e] /\ state'[e] \in Closing
    BY <1>3, <1>6 DEF Sent
  <2>2. PICK h \in Hosts : h = Host(e)
    BY EndFacts
  <2>3. ClosingTo(h, m.dcid)'
    BY <2>1, <2>2 DEF ClosingTo
  <2>4. LinkOK(s, m)'
    BY <1>2, <1>6, <2>2, <2>3 DEF LinkOK
  <2>5. QED
    BY <1>2, <1>3, <1>6, <2>4
<1>7. CASE m.type = "discRsp"
  <2>1. ClosingTo(s, m.dcid)
    BY <1>2, <1>3, <1>7 DEF Sent
  <2>2. ClosingTo(s, m.dcid)'
    BY <1>1, <2>1, ClosingToKept
  <2>3. LinkOK(s, m)'
    BY <1>7, <2>2 DEF LinkOK
  <2>4. QED
    BY <1>2, <1>3, <1>7, <2>3
<1>8. CASE m.type \in {"configReq", "configRsp"}
  <2>1. LinkOK(s, m)'
    BY <1>8 DEF LinkOK
  <2>2. QED
    BY <1>2, <1>3, <1>8, <2>1
<1>9. QED
  BY <1>3, <1>4, <1>5, <1>6, <1>7, <1>8, PacketFacts DEF Sent

LEMMA EndStepLinks ==
  ASSUME TypeOK, EndInv, LinkInv, NEW e \in Ends, NEW msgs, EndStep(e, msgs)
  PROVE  LinkStep
<1>1. msgs \in Seq(Packet) /\ Send(Host(e), msgs) /\ Others(e) /\ EndGoesOn(e)
  BY DEF EndStep
<1>2. PICK h \in Hosts : h = Host(e)
  BY EndFacts
<1>3. PICK o \in Hosts : o = Other(h) /\ o # h
  BY HostFacts
<1>4. link'[o] = link[o] \o msgs /\ link'[h] = link[h]
  BY <1>1, <1>2, <1>3, SendFacts
<1>5. ASSUME NEW s \in Hosts, NEW i \in 1..Len(link[s]), link'[s][i] = link[s][i]
      PROVE  \E m \in Packet : link'[s][i] = m /\ Old(s, 0, i, m)
  <2>1. PICK m \in Packet : m = link[s][i]
    <3>1. link[s] \in Seq(Packet)
      BY DEF TypeOK
    <3>2. QED
      BY <3>1
  <2>2. LinkOK(s, m)
    BY <2>1 DEF LinkInv
  <2>3. ASSUME m.type = "connReq" PROVE op'[<<m.conn, s>>] = "none"
    <3>1. PICK f \in Ends : f = <<m.conn, s>>
      BY <2>3, PacketFacts, EndIs
    <3>2. op[f] = "none"
      BY <2>2, <2>3, <3>1 DEF LinkOK, RequestOK
    <3>3. f # e
      BY <1>1, <3>2 DEF EndGoesOn
    <3>4. QED
      BY <1>1, <3>1, <3>2, <3>3 DEF Others
  <2>4. i + 0 = i /\ i + 0 \in 1..Len(link[s])
    <3>1. link[s] \in Seq(Packet)
      BY DEF TypeOK
    <3>2. Len(link[s]) \in Nat
      BY <3>1
    <3>3. QED
      BY <3>2
  <2>5. QED
    BY <1>5, <2>1, <2>3, <2>4 DEF Old
<1>6. ASSUME NEW i \in 1..Len(link'[o])
      PROVE  \E m \in Packet :
               /\ link'[o][i] = m
               /\ Old(o, 0, i, m) \/ (i + 0 > Len(link[o]) /\ Fresh(o, 0, i, m))
  <2>1. PICK n \in Nat, k \in Nat :
          /\ n = Len(link[o]) /\ k = Len(msgs) /\ Len(link'[o]) = n + k
          /\ \A j \in 1..n : link'[o][j] = link[o][j]
          /\ \A j \in 1..k : link'[o][n + j] = msgs[j]
    <3>1. link[o] \in Seq(Packet)
      BY DEF TypeOK
    <3>2. PICK p \in Seq(Packet), q \in Seq(Packet) : p = link[o] /\ q = msgs /\ link'[o] = p \o q
      BY <1>1, <1>4, <3>1
    <3>3. /\ Len(p) \in Nat /\ Len(q) \in Nat /\ Len(p \o q) = Len(p) + Len(q)
          /\ \A j \in 1..Len(p) : (p \o q)[j] = p[j]
          /\ \A j \in 1..Len(q) : (p \o q)[Len(p) + j] = q[j]
      OBVIOUS
    <3>4. WITNESS Len(p) \in Nat, Len(q) \in Nat
    <3>5. QED
      BY <3>2, <3>3
  <2>2. i \in 1..(n + k)
    BY <2>1
  <2>3. CASE i \in 1..n
    BY <1>5, <2>1, <2>3
  <2>4. CASE i \in (n + 1)..(n + k)
    <3>1. PICK j \in 1..k : i = n + j
      <4>1. i - n \in 1..k /\ i = n + (i - n)
        BY <2>1, <2>4
      <4>2. QED
        BY <4>1
    <3>2. link'[o][i] = msgs[j] /\ j \in 1..Len(msgs)
      BY <2>1, <3>1
    <3>3. PICK m \in Packet :
            /\ m = msgs[j] /\ LinkOK(Other(Host(e)), m)'
            /\ m.type = "connReq" => op[<<m.conn, Opener[m.conn]>>] = "created" /\ Len(msgs) = 1
      BY <3>2, SentOK
    <3>4. LinkOK(o, m)'
      BY <1>2, <1>3, <3>3
    <3>5. k = 1 => i = n + 1
      BY <3>1
    <3>6. i + 0 = i /\ i > n
      BY <2>1, <2>4
    <3>7. Fresh(o, 0, i, m)
      BY <2>1, <3>3, <3>4, <3>5, <3>6 DEF Fresh
    <3>8. QED
      BY <2>1, <3>2, <3>3, <3>6, <3>7
  <2>5. QED
    BY <2>2, <2>3, <2>4
<1>7. ASSUME NEW i \in 1..Len(link'[h])
      PROVE  \E m \in Packet :
               /\ link'[h][i] = m
               /\ Old(h, 0, i, m) \/ (i + 0 > Len(link[h]) /\ Fresh(h, 0, i, m))
  BY <1>4, <1>5, <1>7
<1>8. ASSUME NEW s \in Hosts
      PROVE  \A i \in 1..Len(link'[s]) : \E m \in Packet :
               /\ link'[s][i] = m
               /\ Old(s, 0, i, m) \/ (i + 0 > Len(link[s]) /\ Fresh(s, 0, i, m))
  <2>1. s = o \/ s = h
    BY <1>2, <1>3, HostFacts
  <2>2. QED
    BY <1>6, <1>7, <2>1
<1>9. QED
  BY <1>8 DEF LinkStep

LEMMA EndStepIsStep ==
  ASSUME Invs, NEW e \in Ends, NEW msgs, EndStep(e, msgs)
  PROVE  EndInv' /\ Step
<1>1. TypeOK /\ EndInv /\ LinkInv /\ InboxInv /\ local' = local /\ table' = table /\ Others(e) /\ EndGoesOn(e)
  BY DEF Invs, EndStep
<1>2. EndInv' /\ Stable /\ LinkStep
  BY <1>1, EndStepEnds, EndStepLinks
<1>3. InboxStep
  <2>1. \A f \in Ends \ {e} : inbox'[f] = inbox[f]
    BY <1>1 DEF Others
  <2>2. inbox'[e] = inbox[e] \/ inbox'[e] = <<>> \/ (inbox[e] # <<>> /\ inbox'[e] = Tail(inbox[e]))
    BY DEF EndStep
  <2>3. QED
    BY <2>1, <2>2 DEF InboxStep
<1>4. ReceivedStep
  BY <1>1 DEF ReceivedStep, Others, EndStep
<1>5. RemoteStep
  BY <1>1 DEF RemoteStep, Others, EndStep
<1>6. TableStep
  BY <1>1 DEF TableStep
<1>7. LostStep
  <2>1. ASSUME NEW f \in Ends PROVE Unregistered(f)' <=> Unregistered(f)
    BY <1>1 DEF Unregistered
  <2>2. ASSUME NEW f \in Ends, f # e, Released(f) PROVE Released(f)'
    BY <1>1, <1>2, <2>2, ReleasedElsewhere DEF Others
  <2>3. Unregistered(e) /\ Released(e) => Released(e)'
    BY DEF EndStep
  <2>4. ASSUME NEW f \in Ends PROVE op[f] = "none" => op'[f] = "none"
    BY <1>1 DEF Others, EndGoesOn
  <2>5. QED
    BY <2>1, <2>2, <2>3, <2>4 DEF LostStep
<1>8. QED
  BY <1>2, <1>3, <1>4, <1>5, <1>6, <1>7 DEF Step

-----------------------------------------------------------------------------
(* The calls of a task, one by one. *)
LEMMA SendNothing ==
  ASSUME TypeOK, NEW s \in Hosts, link' = link
  PROVE  Send(s, <<>>) /\ <<>> \in Seq(Packet)
<1>1. PICK o \in Hosts : o = Other(s)
  BY HostFacts
<1>2. link \in [Hosts -> Seq(Packet)]
  BY DEF TypeOK
<1>3. link[o] \o <<>> = link[o]
  BY <1>2
<1>4. link' = [link EXCEPT ![o] = link[o] \o <<>>]
  BY <1>2, <1>3
<1>5. Send(s, <<>>)
  BY <1>1, <1>4 DEF Send
<1>6. QED
  BY <1>5

LEMMA OnePacket ==
  ASSUME NEW m \in Packet
  PROVE  \E msgs \in Seq(Packet) : msgs = <<m>> /\ Len(msgs) = 1 /\ msgs[1] = m
<1>1. WITNESS <<m>> \in Seq(Packet)
<1>2. QED
  OBVIOUS

LEMMA TwoPackets ==
  ASSUME NEW m \in Packet, NEW n \in Packet
  PROVE  \E msgs \in Seq(Packet) :
           msgs = <<m>> \o <<n>> /\ Len(msgs) = 2 /\ msgs[1] = m /\ msgs[2] = n
<1>1. WITNESS <<m>> \o <<n>> \in Seq(Packet)
<1>2. QED
  OBVIOUS

LEMMA ReleasedOn ==
  ASSUME NEW e \in Ends, Others(e), local' = local, Released(e), inbox'[e] = inbox[e], op[e] # "dropped",
         state[e] \in Closing => state'[e] \in Closing,
         state[e] = "waitConnectRsp" => state'[e] \in {"waitConnectRsp"} \cup Closing
  PROVE  Released(e)'
<1>1. CASE MixedUp(e)
  BY <1>1 DEF Released, MixedUp, Others
<1>2. CASE ~MixedUp(e)
  BY <1>2 DEF Released, EventTypes
<1>3. QED
  BY <1>1, <1>2

LEMMA ConnectStep ==
  ASSUME Invs, NEW e \in Ends, Connect(e)
  PROVE  TypeOK' /\ EndInv' /\ Step
<1>1. TypeOK /\ EndOK(e)
  BY DEF Invs, EndInv
<1>2. PICK m \in Packet : m = ConnectionRequest(Conn(e), local[e])
  BY <1>1, PacketIs, EndFacts DEF TypeOK
<1>3. PICK msgs \in Seq(Packet) : msgs = <<m>> /\ Len(msgs) = 1 /\ msgs[1] = m
  BY OnePacket
<1>4. Send(Host(e), msgs)
  BY <1>2, <1>3 DEF Connect
<1>5. TypeOK'
  <2>1. link' \in [Hosts -> Seq(Packet)]
    BY <1>1, <1>4, SendFacts, EndFacts
  <2>2. state' \in [Ends -> States] /\ op' \in [Ends -> Ops]
    BY <1>1 DEF TypeOK, Connect, States, Ops, Polling
  <2>3. QED
    BY <1>1, <2>1, <2>2 DEF TypeOK, Connect
<1>6. Others(e)
  BY <1>1 DEF TypeOK, Connect, Others
<1>7. /\ op[e] = "created" /\ op'[e] = "connecting" /\ state'[e] = "waitConnectRsp" /\ state[e] = "idle"
      /\ local' = local /\ table' = table /\ remote' = remote /\ inbox' = inbox /\ received' = received
  BY <1>1 DEF TypeOK, Connect, EndOK
<1>8. remote[e] = NoCid
  BY <1>1, <1>7 DEF EndOK, Settled
<1>9. EndGoesOn(e)
  BY <1>7, <1>8 DEF EndGoesOn, Settled, Closing
<1>10. \A i \in 1..Len(msgs) : Sent(e, msgs[i], Len(msgs))
  BY <1>2, <1>3, <1>7 DEF Sent, ConnectionRequest
<1>11. Released(e) => Released(e)'
  BY <1>6, <1>7, ReleasedOn DEF Closing
<1>12. EndStep(e, msgs)
  BY <1>3, <1>4, <1>6, <1>7, <1>9, <1>10, <1>11 DEF EndStep
<1>13. QED
  BY <1>5, <1>12, EndStepIsStep

\* SendConfigure, whatever becomes of op.
LEMMA SendConfigureStep ==
  ASSUME Invs, NEW e \in Ends, SendConfigure(e), op[e] \in {"setup", "serving"}, op' = [op EXCEPT ![e] = "serving"],
         UNCHANGED <<local, remote, inbox, table, written, received>>, reconfigures' \in 0..MaxReconfigures
  PROVE  TypeOK' /\ EndInv' /\ Step
<1>1. TypeOK /\ EndOK(e)
  BY DEF Invs, EndInv
<1>2. PICK m \in Packet : m = ConfigureRequest(remote[e])
  BY <1>1, PacketIs DEF TypeOK
<1>3. PICK msgs \in Seq(Packet) : msgs = <<m>> /\ Len(msgs) = 1 /\ msgs[1] = m
  BY OnePacket
<1>4. Send(Host(e), msgs)
  BY <1>2, <1>3 DEF SendConfigure
<1>5. state[e] \in {"config", "sendConfig", "open"} /\ AfterConfigure[state[e]] \in {"configReqRsp", "configRsp"}
  BY DEF SendConfigure, AfterConfigure
<1>6. TypeOK'
  <2>1. link' \in [Hosts -> Seq(Packet)]
    BY <1>1, <1>4, SendFacts, EndFacts
  <2>2. state' \in [Ends -> States] /\ op' \in [Ends -> Ops]
    BY <1>1, <1>5 DEF TypeOK, SendConfigure, States, Connected, Configuring, Ops, Polling
  <2>3. QED
    BY <1>1, <2>1, <2>2 DEF TypeOK
<1>7. Others(e)
  BY <1>1 DEF TypeOK, SendConfigure, Others
<1>8. op'[e] = "serving" /\ state'[e] \in {"configReqRsp", "configRsp"}
  BY <1>1, <1>5 DEF TypeOK, SendConfigure
<1>9. EndGoesOn(e)
  BY <1>5, <1>8 DEF EndGoesOn, Settled, Closing
<1>10. \A i \in 1..Len(msgs) : Sent(e, msgs[i], Len(msgs))
  BY <1>2, <1>3 DEF Sent, ConfigureRequest
<1>11. Released(e) => Released(e)'
  BY <1>5, <1>7, ReleasedOn DEF Closing
<1>12. EndStep(e, msgs)
  BY <1>3, <1>4, <1>7, <1>9, <1>10, <1>11 DEF EndStep
<1>13. QED
  BY <1>6, <1>12, EndStepIsStep

LEMMA ConfigureSteps ==
  ASSUME Invs, NEW e \in Ends, Configure(e) \/ Reconfigure(e)
  PROVE  TypeOK' /\ EndInv' /\ Step
<1>1. TypeOK
  BY DEF Invs
<1>2. CASE Configure(e)
  BY <1>1, <1>2, SendConfigureStep DEF Configure, TypeOK
<1>3. CASE Reconfigure(e)
  <2>1. op' = [op EXCEPT ![e] = "serving"]
    BY <1>1, <1>3 DEF Reconfigure, TypeOK
  <2>2. reconfigures' \in 0..MaxReconfigures
    BY <1>1, <1>3, BoundsAssumption DEF Reconfigure, TypeOK
  <2>3. QED
    BY <1>3, <2>1, <2>2, SendConfigureStep DEF Reconfigure
<1>4. QED
  BY <1>2, <1>3

\* The task's call ends or waits; nothing is sent, the channel is as it was.
LEMMA WaitStep ==
  ASSUME Invs, NEW e \in Ends, op[e] \in Polling, NEW o \in {"writing", "ended"}, op' = [op EXCEPT ![e] = o],
         o = "writing" => written[e] < MaxWrites[e] /\ state[e] # "open",
         UNCHANGED <<state, local, remote, inbox, table, link, written, received, reconfigures>>
  PROVE  TypeOK' /\ EndInv' /\ Step
<1>1. TypeOK /\ EndOK(e)
  BY DEF Invs, EndInv
<1>2. Send(Host(e), <<>>) /\ <<>> \in Seq(Packet)
  BY <1>1, SendNothing, EndFacts
<1>3. op' \in [Ends -> Ops] /\ op'[e] = o
  BY <1>1 DEF TypeOK, Ops, Polling
<1>4. TypeOK'
  BY <1>1, <1>3 DEF TypeOK
<1>5. Others(e)
  BY <1>1 DEF TypeOK, Others
<1>6. EndGoesOn(e)
  BY <1>1, <1>3 DEF EndGoesOn, EndOK, Settled, Polling
<1>7. Released(e) => Released(e)'
  BY <1>5, ReleasedOn DEF Polling
<1>8. \A i \in 1..Len(<<>>) : Sent(e, <<>>[i], Len(<<>>))
  OBVIOUS
<1>9. EndStep(e, <<>>)
  BY <1>2, <1>5, <1>6, <1>7, <1>8 DEF EndStep
<1>10. QED
  BY <1>4, <1>9, EndStepIsStep

LEMMA DataIs ==
  ASSUME TypeOK, NEW e \in Ends, written[e] < MaxWrites[e]
  PROVE  NextData(e) \in Packet /\ NextData(e).type = "data" /\ NextData(e).from = e /\ NextData(e).dcid = remote[e]
<1>1. written[e] + 1 \in 1..MaxWrites[e]
  BY BoundsAssumption DEF TypeOK, Ends
<1>2. Data(remote[e], e, written[e] + 1) \in Packet
  BY <1>1, PacketIs DEF TypeOK
<1>3. QED
  BY <1>2 DEF NextData, Data

LEMMA WriteSteps ==
  ASSUME Invs, NEW e \in Ends, Write(e) \/ WriteTimesOut(e) \/ PollClosed(e)
  PROVE  TypeOK' /\ EndInv' /\ Step
<1>1. TypeOK /\ EndOK(e)
  BY DEF Invs, EndInv
<1>2. CASE WriteTimesOut(e) \/ PollClosed(e)
  BY <1>2, WaitStep DEF WriteTimesOut, PollClosed, Polling
<1>3. CASE Write(e) /\ ~MaySend(e)
  BY <1>3, WaitStep DEF Write, Polling, MaySend
<1>4. CASE Write(e) /\ MaySend(e)
  <2>1. /\ op[e] = "serving" /\ written[e] < MaxWrites[e] /\ state[e] = "open" /\ op' = op
        /\ Send(Host(e), <<NextData(e)>>) /\ written' = [written EXCEPT ![e] = written[e] + 1]
        /\ UNCHANGED <<state, local, remote, inbox, table, received, reconfigures>>
    BY <1>4 DEF Write, MaySend
  <2>2. PICK m \in Packet : m = NextData(e) /\ m.type = "data" /\ m.from = e /\ m.dcid = remote[e]
    BY <1>1, <2>1, DataIs
  <2>3. PICK msgs \in Seq(Packet) : msgs = <<m>> /\ Len(msgs) = 1 /\ msgs[1] = m
    BY OnePacket
  <2>4. Send(Host(e), msgs)
    BY <2>1, <2>2, <2>3
  <2>5. TypeOK'
    <3>1. link' \in [Hosts -> Seq(Packet)]
      BY <1>1, <2>4, SendFacts, EndFacts
    <3>2. written' \in [Ends -> Nat] /\ \A f \in Ends : written'[f] <= MaxWrites[f]
      BY <1>1, <2>1, BoundsAssumption DEF TypeOK, Ends
    <3>3. QED
      BY <1>1, <2>1, <3>1, <3>2 DEF TypeOK
  <2>6. Others(e)
    BY <1>1, <2>1 DEF TypeOK, Others
  <2>7. EndGoesOn(e)
    BY <2>1 DEF EndGoesOn, Settled
  <2>8. \A i \in 1..Len(msgs) : Sent(e, msgs[i], Len(msgs))
    BY <2>1, <2>2, <2>3 DEF Sent, Settled
  <2>9. Released(e) => Released(e)'
    BY <2>1, <2>6, ReleasedOn
  <2>10. EndStep(e, msgs)
    BY <2>1, <2>3, <2>4, <2>6, <2>7, <2>8, <2>9 DEF EndStep
  <2>11. QED
    BY <2>5, <2>10, EndStepIsStep
<1>5. QED
  BY <1>2, <1>3, <1>4

LEMMA DisconnectStep ==
  ASSUME Invs, NEW e \in Ends, Disconnect(e)
  PROVE  TypeOK' /\ EndInv' /\ Step
<1>1. TypeOK /\ EndOK(e)
  BY DEF Invs, EndInv
<1>2. PICK m \in Packet : m = DisconnectionRequest(remote[e], local[e])
  BY <1>1, PacketIs DEF TypeOK
<1>3. PICK msgs \in Seq(Packet) : msgs = <<m>> /\ Len(msgs) = 1 /\ msgs[1] = m
  BY OnePacket
<1>4. /\ Send(Host(e), msgs) /\ op[e] \in {"setup", "serving"} /\ state[e] \in Connected
      /\ UNCHANGED <<local, remote, inbox, table, written, received, reconfigures>>
  BY <1>2, <1>3 DEF Disconnect
<1>5. TypeOK'
  <2>1. link' \in [Hosts -> Seq(Packet)]
    BY <1>1, <1>4, SendFacts, EndFacts
  <2>2. state' \in [Ends -> States] /\ op' \in [Ends -> Ops]
    BY <1>1 DEF TypeOK, Disconnect, States, Ops, Polling
  <2>3. QED
    BY <1>1, <1>4, <2>1, <2>2 DEF TypeOK
<1>6. Others(e)
  BY <1>1 DEF TypeOK, Disconnect, Others
<1>7. op'[e] = "disconnecting" /\ state'[e] = "waitDisconnect"
  BY <1>1 DEF TypeOK, Disconnect
<1>8. EndGoesOn(e)
  BY <1>4, <1>7 DEF EndGoesOn, Settled, Closing
<1>9. \A i \in 1..Len(msgs) : Sent(e, msgs[i], Len(msgs))
  BY <1>2, <1>3, <1>4, <1>7 DEF Sent, DisconnectionRequest, Closing
<1>10. Released(e) => Released(e)'
  BY <1>4, <1>6, <1>7, ReleasedOn DEF Closing
<1>11. EndStep(e, msgs)
  BY <1>3, <1>4, <1>6, <1>8, <1>9, <1>10 DEF EndStep
<1>12. QED
  BY <1>5, <1>11, EndStepIsStep

\* A DisconnectionRequest in the inbox: the peer's host has a channel closing to e.
LEMMA AskedToDisconnect ==
  ASSUME Invs, NEW e \in Ends, "discReq" \in EventTypes(e)
  PROVE  ClosingTo(Other(Host(e)), local[e])
<1>1. PICK i \in 1..Len(inbox[e]) : inbox[e][i].type = "discReq"
  BY DEF EventTypes
<1>2. QED
  BY <1>1 DEF Invs, InboxInv, InboxOK

LEMMA DropStep ==
  ASSUME Invs, NEW e \in Ends, Drop(e)
  PROVE  TypeOK' /\ EndInv' /\ Step
<1>1. TypeOK /\ EndOK(e)
  BY DEF Invs, EndInv
<1>2. PICK req \in Packet, rsp \in Packet :
        /\ req = DisconnectionRequest(remote[e], local[e]) /\ rsp = DisconnectionResponse(local[e], remote[e])
        /\ req.type = "discReq" /\ req.dcid = remote[e] /\ rsp.type = "discRsp" /\ rsp.dcid = local[e]
  <2>1. DisconnectionRequest(remote[e], local[e]) \in Packet /\ DisconnectionResponse(local[e], remote[e]) \in Packet
    BY <1>1, PacketIs DEF TypeOK
  <2>2. QED
    BY <2>1 DEF DisconnectionRequest, DisconnectionResponse
<1>3. /\ op[e] \in Polling \cup {"created", "setup", "ended"}
      /\ UNCHANGED <<local, remote, table, written, received, reconfigures>>
  BY DEF Drop
<1>4. op'[e] = "dropped" /\ inbox'[e] = <<>>
  BY <1>1 DEF TypeOK, Drop
<1>5. IF state[e] \in Closed THEN state'[e] = state[e] ELSE state'[e] \in Closing
  BY <1>1 DEF TypeOK, Drop, Closing
<1>6. state'[e] \in States /\ state' = [state EXCEPT ![e] = state'[e]]
  BY <1>1, <1>5 DEF TypeOK, Drop, States, Closing, Closed
<1>7. PICK msgs \in Seq(Packet) :
        /\ msgs = DropReplies(e)
        /\ \A i \in 1..Len(msgs) : Sent(e, msgs[i], Len(msgs))
  <2>1. CASE state[e] \in Closed
    <3>1. DropReplies(e) = <<>>
      BY <2>1 DEF DropReplies
    <3>2. WITNESS <<>> \in Seq(Packet)
    <3>3. QED
      BY <3>1
  <2>2. CASE state[e] \notin Closed /\ "discReq" \in EventTypes(e)
    <3>1. DropReplies(e) = <<req>> \o <<rsp>>
      BY <1>2, <2>2 DEF DropReplies
    <3>2. PICK msgs \in Seq(Packet) :
            msgs = <<req>> \o <<rsp>> /\ Len(msgs) = 2 /\ msgs[1] = req /\ msgs[2] = rsp
      BY TwoPackets
    <3>3. Sent(e, req, 2) /\ Sent(e, rsp, 2)
      BY <1>2, <1>3, <1>5, <2>2, AskedToDisconnect DEF Sent
    <3>4. \A i \in 1..Len(msgs) : Sent(e, msgs[i], Len(msgs))
      BY <3>2, <3>3
    <3>5. QED
      BY <3>1, <3>2, <3>4
  <2>3. CASE state[e] \notin Closed /\ "discReq" \notin EventTypes(e)
    <3>1. DropReplies(e) = <<req>> \o <<>>
      BY <1>2, <2>3 DEF DropReplies
    <3>2. <<req>> \o <<>> = <<req>>
      OBVIOUS
    <3>3. PICK msgs \in Seq(Packet) : msgs = <<req>> /\ Len(msgs) = 1 /\ msgs[1] = req
      BY OnePacket
    <3>4. Sent(e, req, 1)
      BY <1>2, <1>3, <1>5, <2>3 DEF Sent
    <3>5. \A i \in 1..Len(msgs) : Sent(e, msgs[i], Len(msgs))
      BY <3>3, <3>4
    <3>6. QED
      BY <3>1, <3>2, <3>3, <3>5
  <2>4. QED
    BY <2>1, <2>2, <2>3
<1>8. Send(Host(e), msgs)
  BY <1>7 DEF Drop
<1>9. TypeOK'
  <2>1. link' \in [Hosts -> Seq(Packet)]
    BY <1>1, <1>8, SendFacts, EndFacts
  <2>2. state' \in [Ends -> States] /\ op' \in [Ends -> Ops] /\ inbox' \in [Ends -> Seq(Packet)]
    BY <1>1, <1>6 DEF TypeOK, Drop, Ops
  <2>3. QED
    BY <1>1, <1>3, <2>1, <2>2 DEF TypeOK
<1>10. Others(e)
  BY <1>1, <1>6 DEF TypeOK, Drop, Others
<1>11. EndGoesOn(e)
  BY <1>1, <1>3, <1>4, <1>5 DEF EndGoesOn, EndOK, Settled, Closing, Closed, Polling
<1>12. Released(e)'
  BY <1>4 DEF Released
<1>13. EndStep(e, msgs)
  BY <1>3, <1>4, <1>7, <1>8, <1>10, <1>11, <1>12 DEF EndStep
<1>14. QED
  BY <1>9, <1>13, EndStepIsStep

-----------------------------------------------------------------------------
(* Poll: the event, what the channel makes of it, what it answers. *)
LEMMA ReactionIs ==
  ASSUME NEW st \in States \ {"none", "idle"}, NEW m \in Packet
  PROVE  /\ Reaction(st, m) \in States \ {"none", "idle"}
         /\ st \in Closing => Reaction(st, m) \in Closing
         /\ st # "waitConnectRsp" => Reaction(st, m) # "waitConnectRsp"
         /\ st = "waitConnectRsp" =>
              \/ Reaction(st, m) = st
              \/ m.type = "connRsp" /\ m.success /\ Reaction(st, m) = "config"
              \/ Reaction(st, m) = "disconnected"
         /\ m.type = "discReq" => Reaction(st, m) \in {"waitConnectRsp", "disconnected"}
<1>1. st \in {"waitConnectRsp", "config", "sendConfig", "configReqRsp", "configRsp", "configReq", "open",
              "waitDisconnect", "disconnected"}
  BY DEF States, Connected, Configuring
<1>2. /\ DOMAIN AfterConfigReq = {"config", "configReqRsp", "configReq", "open"}
      /\ \A s \in DOMAIN AfterConfigReq : AfterConfigReq[s] \in {"sendConfig", "configRsp", "open"}
  BY DEF AfterConfigReq
<1>3. /\ DOMAIN AfterConfigRsp = {"configReqRsp", "configRsp"}
      /\ \A s \in DOMAIN AfterConfigRsp : AfterConfigRsp[s] \in {"configReq", "open"}
  BY DEF AfterConfigRsp
<1>4. PICK r : r = Reaction(st, m)
  OBVIOUS
<1>5. CASE m.type = "connRsp"
  <2>1. r = IF st = "waitConnectRsp" THEN (IF m.success THEN "config" ELSE "disconnected") ELSE st
    BY <1>4, <1>5 DEF Reaction
  <2>2. QED
    BY <1>1, <1>4, <1>5, <2>1 DEF States, Connected, Configuring, Closing
<1>6. CASE m.type = "configReq"
  <2>1. r = IF st \in DOMAIN AfterConfigReq THEN AfterConfigReq[st] ELSE st
    BY <1>4, <1>6 DEF Reaction
  <2>2. QED
    BY <1>1, <1>2, <1>4, <1>6, <2>1 DEF States, Connected, Configuring, Closing
<1>7. CASE m.type = "configRsp"
  <2>1. r = IF st \in DOMAIN AfterConfigRsp THEN AfterConfigRsp[st] ELSE st
    BY <1>4, <1>7 DEF Reaction
  <2>2. QED
    BY <1>1, <1>3, <1>4, <1>7, <2>1 DEF States, Connected, Configuring, Closing
<1>8. CASE m.type = "discReq"
  <2>1. r = IF st # "waitConnectRsp" THEN "disconnected" ELSE st
    BY <1>4, <1>8 DEF Reaction
  <2>2. QED
    BY <1>1, <1>4, <1>8, <2>1 DEF States, Connected, Configuring, Closing
<1>9. CASE m.type = "discRsp"
  <2>1. r = IF st = "waitDisconnect" THEN "disconnected" ELSE st
    BY <1>4, <1>9 DEF Reaction
  <2>2. QED
    BY <1>1, <1>4, <1>9, <2>1 DEF States, Connected, Configuring, Closing
<1>10. CASE m.type \in {"connReq", "data"}
  <2>1. r = st
    BY <1>4, <1>10 DEF Reaction
  <2>2. QED
    BY <1>1, <1>4, <1>10, <2>1 DEF States, Connected, Configuring
<1>11. QED
  BY <1>5, <1>6, <1>7, <1>8, <1>9, <1>10, PacketFacts

LEMMA OpAfterIs ==
  ASSUME NEW e \in Ends, op[e] \in Polling, NEW st \in States
  PROVE  /\ OpAfter(e, st) \in Polling \cup {"ended", "setup"}
         /\ OpAfter(e, st) = "writing" => op[e] = "writing" /\ (st = state[e] \/ st # "open")
BY DEF OpAfter, Polling

LEMMA BothSent ==
  ASSUME NEW e \in Ends, NEW p \in Seq(Packet), NEW q \in Seq(Packet),
         \A i \in 1..Len(p) : \A n \in Nat : Sent(e, p[i], n),
         \A i \in 1..Len(q) : \A n \in Nat : Sent(e, q[i], n)
  PROVE  /\ p \o q \in Seq(Packet)
         /\ \A i \in 1..Len(p \o q) : Sent(e, (p \o q)[i], Len(p \o q))
<1>1. p \o q \in Seq(Packet) /\ Len(p \o q) \in Nat
  OBVIOUS
<1>2. ASSUME NEW i \in 1..Len(p \o q) PROVE Sent(e, (p \o q)[i], Len(p \o q))
  <2>1. PICK n \in Nat : n = Len(p \o q)
    BY <1>1
  <2>2. CASE i \in 1..Len(p)
    <3>1. (p \o q)[i] = p[i]
      BY <2>2
    <3>2. QED
      BY <2>1, <2>2, <3>1
  <2>3. CASE i \notin 1..Len(p)
    <3>1. i - Len(p) \in 1..Len(q) /\ (p \o q)[i] = q[i - Len(p)]
      BY <2>3
    <3>2. QED
      BY <2>1, <3>1
  <2>4. QED
    BY <2>2, <2>3
<1>3. QED
  BY <1>1, <1>2

LEMMA RepliesSent ==
  ASSUME Invs, NEW e \in Ends, inbox[e] # <<>>, NEW m \in Packet, m = Head(inbox[e])
  PROVE  /\ Replies(e, m) \in Seq(Packet)
         /\ \A i \in 1..Len(Replies(e, m)) : \A n \in Nat : Sent(e, Replies(e, m)[i], n)
<1>1. TypeOK
  BY DEF Invs
<1>2. CASE m.type = "configReq" /\ state[e] \in DOMAIN AfterConfigReq
  <2>1. PICK r \in Packet : r = ConfigureResponse(remote[e])
    BY <1>1, PacketIs DEF TypeOK
  <2>2. Replies(e, m) = <<r>>
    BY <1>2, <2>1 DEF Replies
  <2>3. \A n \in Nat : Sent(e, r, n)
    BY <2>1 DEF Sent, ConfigureResponse
  <2>4. PICK msgs \in Seq(Packet) : msgs = <<r>> /\ Len(msgs) = 1 /\ msgs[1] = r
    BY OnePacket
  <2>5. QED
    <3>1. Replies(e, m) = msgs
      BY <2>2, <2>4
    <3>2. Replies(e, m) \in Seq(Packet)
      BY <3>1
    <3>3. \A i \in 1..Len(msgs) : \A n \in Nat : Sent(e, msgs[i], n)
      BY <2>3, <2>4
    <3>4. QED
      BY <3>1, <3>2, <3>3
<1>3. CASE m.type = "discReq" /\ state[e] # "waitConnectRsp"
  <2>1. PICK r \in Packet : r = DisconnectionResponse(local[e], remote[e])
    BY <1>1, PacketIs DEF TypeOK
  <2>2. Replies(e, m) = <<r>>
    BY <1>3, <2>1 DEF Replies
  <2>3. "discReq" \in EventTypes(e)
    <3>1. inbox[e] \in Seq(Packet)
      BY <1>1 DEF TypeOK
    <3>2. 1 \in 1..Len(inbox[e]) /\ inbox[e][1] = m
      BY <3>1
    <3>3. QED
      BY <1>3, <3>2 DEF EventTypes
  <2>4. \A n \in Nat : Sent(e, r, n)
    BY <2>1, <2>3, AskedToDisconnect DEF Sent, DisconnectionResponse
  <2>5. PICK msgs \in Seq(Packet) : msgs = <<r>> /\ Len(msgs) = 1 /\ msgs[1] = r
    BY OnePacket
  <2>6. QED
    <3>1. Replies(e, m) = msgs
      BY <2>2, <2>5
    <3>2. Replies(e, m) \in Seq(Packet)
      BY <3>1
    <3>3. \A i \in 1..Len(msgs) : \A n \in Nat : Sent(e, msgs[i], n)
      BY <2>4, <2>5
    <3>4. QED
      BY <3>1, <3>2, <3>3
<1>4. CASE ~(m.type = "configReq" /\ state[e] \in DOMAIN AfterConfigReq)
           /\ ~(m.type = "discReq" /\ state[e] # "waitConnectRsp")
  <2>1. PICK msgs : msgs = Replies(e, m)
    OBVIOUS
  <2>2. msgs = <<>>
    BY <1>4, <2>1 DEF Replies
  <2>3. msgs \in Seq(Packet) /\ Len(msgs) = 0
    BY <2>2
  <2>4. QED
    BY <2>1, <2>3
<1>5. QED
  BY <1>2, <1>3, <1>4

\* The last event a channel that still connects can ignore is a DisconnectionRequest.
LEMMA PollReleased ==
  ASSUME Invs, NEW e \in Ends, NEW m \in Packet, inbox[e] # <<>>, m = inbox[e][1], inbox'[e] = Tail(inbox[e]),
         op[e] # "dropped", local' = local, Others(e), Released(e),
         state[e] \in Closing => state'[e] \in Closing,
         m.type = "discReq" => state'[e] \in {"waitConnectRsp", "disconnected"}
  PROVE  Released(e)'
<1>1. inbox[e] \in Seq(Packet)
  BY DEF Invs, TypeOK
<1>2. CASE state[e] \in Closing
  BY <1>2 DEF Released
<1>3. CASE MixedUp(e)
  BY <1>3 DEF Released, MixedUp, Others
<1>4. CASE "discReq" \in EventTypes(e)
  <2>1. PICK i \in 1..Len(inbox[e]) : inbox[e][i].type = "discReq"
    BY <1>4 DEF EventTypes
  <2>2. i = Len(inbox[e])
    BY <2>1 DEF Invs, InboxInv
  <2>3. CASE i = 1
    <3>1. inbox'[e] = <<>>
      <4>1. PICK q \in Seq(Packet) : q = inbox[e] /\ Len(q) = 1 /\ inbox'[e] = Tail(q)
        BY <1>1, <2>2, <2>3
      <4>2. Tail(q) \in Seq(Packet) /\ Len(Tail(q)) = 0
        BY <4>1, HeadTailProperties
      <4>3. QED
        BY <4>1, <4>2, EmptySeq
    <3>2. state'[e] \in {"waitConnectRsp", "disconnected"}
      BY <2>1, <2>3
    <3>3. QED
      BY <3>1, <3>2 DEF Released, Closing
  <2>4. CASE i # 1
    <3>1. i - 1 \in 1..Len(inbox'[e]) /\ inbox'[e][i - 1] = inbox[e][i]
      <4>1. PICK q \in Seq(Packet) : q = inbox[e] /\ inbox'[e] = Tail(q)
        BY <1>1
      <4>2. i - 1 \in 1..(Len(q) - 1) /\ i \in 1..Len(q)
        BY <2>1, <2>4, <4>1
      <4>3. Len(Tail(q)) = Len(q) - 1 /\ \A j \in 1..(Len(q) - 1) : Tail(q)[j] = q[j + 1]
        BY <4>1, <4>2, HeadTailProperties
      <4>4. Tail(q)[i - 1] = q[(i - 1) + 1] /\ (i - 1) + 1 = i
        BY <4>2, <4>3
      <4>5. QED
        BY <4>1, <4>2, <4>3, <4>4
    <3>2. inbox'[e][i - 1].type = "discReq"
      BY <2>1, <3>1
    <3>3. "discReq" \in EventTypes(e)'
      BY <3>1, <3>2 DEF EventTypes
    <3>4. QED
      BY <3>3 DEF Released
  <2>5. QED
    BY <2>3, <2>4
<1>5. QED
  BY <1>2, <1>3, <1>4 DEF Released

LEMMA PollStep ==
  ASSUME Invs, NEW e \in Ends, Poll(e)
  PROVE  TypeOK' /\ EndInv' /\ Step
<1>1. TypeOK /\ EndOK(e) /\ InboxInv
  BY DEF Invs, EndInv
<1>2. inbox[e] \in Seq(Packet) /\ inbox[e] # <<>> /\ op[e] \in Polling
  BY <1>1 DEF TypeOK, Poll
<1>3. PICK m \in Packet : m = Head(inbox[e]) /\ m = inbox[e][1]
  BY <1>2
<1>4. InboxOK(e, m)
  <2>1. 1 \in 1..Len(inbox[e])
    BY <1>2
  <2>2. QED
    BY <1>1, <1>3, <2>1 DEF InboxInv
<1>5. state[e] \in States \ {"none", "idle"}
  BY <1>1, <1>2 DEF TypeOK, EndOK, Polling
<1>6. PICK st \in States \ {"none", "idle"} : st = Reaction(state[e], m)
  BY <1>5, ReactionIs
<1>7. /\ state[e] \in Closing => st \in Closing
      /\ state[e] # "waitConnectRsp" => st # "waitConnectRsp"
      /\ state[e] = "waitConnectRsp" =>
           st = state[e] \/ (m.type = "connRsp" /\ m.success /\ st = "config") \/ st = "disconnected"
      /\ m.type = "discReq" => st \in {"waitConnectRsp", "disconnected"}
  BY <1>5, <1>6, ReactionIs
<1>8. PICK sends \in BOOLEAN : sends <=> op[e] = "writing" /\ st = "open"
  OBVIOUS
<1>9. /\ state' = [state EXCEPT ![e] = st]
      /\ remote' = [remote EXCEPT ![e] =
                      IF st = "config" /\ state[e] = "waitConnectRsp" THEN m.dcid ELSE remote[e]]
      /\ op' = [op EXCEPT ![e] = OpAfter(e, st)]
      /\ Send(Host(e), Replies(e, m) \o IF sends THEN <<NextData(e)>> ELSE <<>>)
      /\ written' = [written EXCEPT ![e] = IF sends THEN written[e] + 1 ELSE written[e]]
      /\ received' = [received EXCEPT ![e] =
                        IF m.type = "data" /\ state[e] \in Connected /\ op[e] = "serving"
                        THEN Append(received[e], m) ELSE received[e]]
      /\ inbox' = [inbox EXCEPT ![e] = Tail(inbox[e])]
      /\ local' = local /\ table' = table /\ reconfigures' = reconfigures
  BY <1>3, <1>6, <1>8 DEF Poll
<1>10. /\ OpAfter(e, st) \in Polling \cup {"ended", "setup"}
       /\ OpAfter(e, st) = "writing" => op[e] = "writing" /\ (st = state[e] \/ st # "open")
  BY <1>2, OpAfterIs
<1>11. op[e] = "writing" => written[e] < MaxWrites[e] /\ state[e] # "open"
  BY <1>1 DEF EndOK
<1>12. st = "config" /\ state[e] = "waitConnectRsp" => m.type = "connRsp" /\ m.success /\ m.dcid \in AllCids
  BY <1>7, PacketFacts
<1>13. Others(e)
  BY <1>1, <1>9 DEF TypeOK, Others
<1>14. /\ state'[e] = st /\ op'[e] = OpAfter(e, st) /\ inbox'[e] = Tail(inbox[e])
       /\ written'[e] = IF sends THEN written[e] + 1 ELSE written[e]
       /\ remote'[e] = IF st = "config" /\ state[e] = "waitConnectRsp" THEN m.dcid ELSE remote[e]
       /\ \/ received'[e] = received[e]
          \/ m.type = "data" /\ received'[e] = Append(received[e], m)
  BY <1>1, <1>9 DEF TypeOK
<1>15. PICK more \in Seq(Packet) :
         /\ more = IF sends THEN <<NextData(e)>> ELSE <<>>
         /\ \A i \in 1..Len(more) : \A n \in Nat : Sent(e, more[i], n)
  <2>1. CASE sends
    <3>1. PICK d \in Packet : d = NextData(e) /\ d.type = "data" /\ d.from = e /\ d.dcid = remote[e]
      BY <1>1, <1>8, <1>11, <2>1, DataIs
    <3>2. remote'[e] = remote[e] /\ state'[e] = "open"
      BY <1>8, <1>14, <2>1
    <3>3. \A n \in Nat : Sent(e, d, n)
      BY <3>1, <3>2 DEF Sent, Settled
    <3>4. PICK msgs \in Seq(Packet) : msgs = <<d>> /\ Len(msgs) = 1 /\ msgs[1] = d
      BY OnePacket
    <3>5. \A i \in 1..Len(msgs) : \A n \in Nat : Sent(e, msgs[i], n)
      BY <3>3, <3>4
    <3>6. QED
      BY <2>1, <3>1, <3>4, <3>5
  <2>2. CASE ~sends
    <3>1. WITNESS <<>> \in Seq(Packet)
    <3>2. QED
      BY <2>2
  <2>3. QED
    BY <2>1, <2>2
<1>16. PICK msgs : msgs = Replies(e, m) \o more
  OBVIOUS
<1>17. msgs \in Seq(Packet) /\ Send(Host(e), msgs) /\ \A i \in 1..Len(msgs) : Sent(e, msgs[i], Len(msgs))
  <2>1. /\ Replies(e, m) \in Seq(Packet)
        /\ \A i \in 1..Len(Replies(e, m)) : \A n \in Nat : Sent(e, Replies(e, m)[i], n)
    BY <1>2, <1>3, RepliesSent
  <2>2. Send(Host(e), msgs)
    BY <1>9, <1>15, <1>16
  <2>3. QED
    BY <1>15, <1>16, <2>1, <2>2, BothSent
<1>18. TypeOK'
  <2>1. link' \in [Hosts -> Seq(Packet)]
    BY <1>1, <1>17, SendFacts, EndFacts
  <2>2. state' \in [Ends -> States] /\ inbox' \in [Ends -> Seq(Packet)]
    BY <1>1, <1>2, <1>9 DEF TypeOK
  <2>3. op' \in [Ends -> Ops]
    BY <1>1, <1>9, <1>10 DEF TypeOK, Ops
  <2>4. remote' \in [Ends -> AllCids]
    BY <1>1, <1>9, <1>12 DEF TypeOK
  <2>5. received' \in [Ends -> Seq(Packet)]
    BY <1>1, <1>9 DEF TypeOK
  <2>6. written' \in [Ends -> Nat] /\ \A f \in Ends : written'[f] <= MaxWrites[f]
    <3>1. MaxWrites[e] \in Nat /\ written[e] \in Nat /\ written[e] <= MaxWrites[e]
      BY <1>1, BoundsAssumption DEF TypeOK, Ends
    <3>2. written'[e] \in Nat /\ written'[e] <= MaxWrites[e]
      BY <1>8, <1>11, <1>14, <3>1
    <3>3. QED
      BY <1>1, <1>9, <1>14, <3>2 DEF TypeOK
  <2>7. QED
    BY <1>1, <1>9, <2>1, <2>2, <2>3, <2>4, <2>5, <2>6 DEF TypeOK
<1>19. EndGoesOn(e)
  <2>1. Settled(e) => Settled(e)' /\ remote'[e] = remote[e]
    BY <1>6, <1>7, <1>14 DEF Settled
  <2>2. ~Settled(e)' => remote'[e] = NoCid
    BY <1>1, <1>5, <1>6, <1>7, <1>14 DEF Settled, EndOK
  <2>3. op'[e] = "writing" => written'[e] < MaxWrites[e] /\ state'[e] # "open"
    BY <1>8, <1>10, <1>11, <1>14
  <2>4. QED
    BY <1>2, <1>6, <1>7, <1>10, <1>14, <2>1, <2>2, <2>3 DEF EndGoesOn, Polling
<1>20. remote'[e] = remote[e] \/ RemoteOK(e)'
  <2>1. CASE ~(st = "config" /\ state[e] = "waitConnectRsp")
    BY <1>14, <2>1
  <2>2. CASE st = "config" /\ state[e] = "waitConnectRsp"
    <3>1. remote'[e] = m.dcid /\ Answered(Host(e), m.dcid, local[e])
      BY <1>4, <1>12, <1>14, <2>2 DEF InboxOK
    <3>2. PICK g \in Ends : Host(g) = Host(e) /\ local[g] = local[e] /\ local[Peer(g)] = m.dcid
      BY <3>1 DEF Answered
    <3>3. QED
      BY <1>9, <3>1, <3>2 DEF RemoteOK
  <2>3. QED
    BY <2>1, <2>2
<1>21. Released(e) => Released(e)'
  BY <1>2, <1>3, <1>7, <1>9, <1>13, <1>14, PollReleased DEF Polling
<1>22. EndStep(e, msgs)
  BY <1>2, <1>3, <1>9, <1>13, <1>14, <1>17, <1>19, <1>20, <1>21 DEF EndStep
<1>23. QED
  BY <1>18, <1>22, EndStepIsStep

-----------------------------------------------------------------------------
(* new_channel and the servers. *)
LEMMA RetainedIs ==
  ASSUME TypeOK, NEW s \in Hosts
  PROVE  /\ table[s] \in [Cids[s] -> Ends \cup {None}]
         /\ Retained(s) \in [Cids[s] -> Ends \cup {None}]
         /\ \A c \in Cids[s] : \/ Retained(s)[c] = table[s][c]
                               \/ Retained(s)[c] = None /\ table[s][c] \in Ends /\ op[table[s][c]] = "dropped"
<1>1. table[s] \in [Cids[s] -> Ends \cup {None}]
  BY DEF TypeOK
<1>2. QED
  BY <1>1 DEF Retained

\* A table entry is dropped only when its channel is.
LEMMA RetainStep ==
  ASSUME TypeOK, EndInv, NEW s \in Hosts, table' = [table EXCEPT ![s] = Retained(s)], local' = local
  PROVE  /\ DOMAIN table' = Hosts
         /\ \A o \in Hosts : table'[o] \in [Cids[o] -> Ends \cup {None}]
         /\ TableStep
         /\ \A f \in Ends :
              op[f] # "none" => /\ Unregistered(f) => Unregistered(f)'
                                /\ Unregistered(f)' => Unregistered(f) \/ op[f] = "dropped"
<1>1. DOMAIN table = Hosts /\ \A o \in Hosts : table[o] \in [Cids[o] -> Ends \cup {None}]
  BY DEF TypeOK
<1>2. /\ Retained(s) \in [Cids[s] -> Ends \cup {None}]
      /\ \A c \in Cids[s] : \/ Retained(s)[c] = table[s][c]
                            \/ Retained(s)[c] = None /\ table[s][c] \in Ends /\ op[table[s][c]] = "dropped"
  BY RetainedIs
<1>3. \A o \in Hosts : table'[o] = IF o = s THEN Retained(s) ELSE table[o]
  BY <1>1
<1>4. ASSUME NEW f \in Ends, op[f] # "none"
      PROVE  /\ Unregistered(f) => Unregistered(f)'
             /\ Unregistered(f)' => Unregistered(f) \/ op[f] = "dropped"
  <2>1. PICK h \in Hosts : h = Host(f)
    BY EndFacts
  <2>2. PICK c \in Cids[h] : c = local[f]
    BY <1>4, <2>1 DEF TypeOK, EndInv, EndOK
  <2>3. (Unregistered(f) <=> table[h][c] # f) /\ (Unregistered(f)' <=> table'[h][c] # f)
    BY <2>1, <2>2 DEF Unregistered
  <2>4. f # None
    BY HostsAssumption DEF Ends
  <2>5. table'[h][c] = table[h][c] \/ (table'[h][c] = None /\ op[table[h][c]] = "dropped")
    BY <1>2, <1>3
  <2>6. QED
    BY <2>3, <2>4, <2>5
<1>5. TableStep
  BY <1>2, <1>3 DEF TableStep
<1>6. QED
  BY <1>1, <1>2, <1>3, <1>4, <1>5

LEMMA RegisterStep ==
  ASSUME TypeOK, EndInv, NEW e \in Ends, op[e] = "none", Free(Host(e)) # {}, Register(e)
  PROVE  /\ DOMAIN table' = Hosts
         /\ \A o \in Hosts : table'[o] \in [Cids[o] -> Ends \cup {None}]
         /\ local' = [local EXCEPT ![e] = NewCid(Host(e))]
         /\ NewCid(Host(e)) \in Cids[Host(e)] /\ NewCid(Host(e)) # NoCid
         /\ TableStep
         /\ ~Unregistered(e)'
         /\ \A f \in Ends \ {e} :
              op[f] # "none" => /\ Unregistered(f) => Unregistered(f)'
                                /\ Unregistered(f)' => Unregistered(f) \/ op[f] = "dropped"
<1>1. DOMAIN table = Hosts /\ \A o \in Hosts : table[o] \in [Cids[o] -> Ends \cup {None}]
  BY DEF TypeOK
<1>2. PICK s \in Hosts : s = Host(e)
  BY EndFacts
<1>3. PICK n \in Cids[s] : n = NewCid(s) /\ n # NoCid /\ Retained(s)[n] = None
  BY <1>2, NewCidFree
<1>4. /\ Retained(s) \in [Cids[s] -> Ends \cup {None}]
      /\ \A c \in Cids[s] : \/ Retained(s)[c] = table[s][c]
                            \/ Retained(s)[c] = None /\ table[s][c] \in Ends /\ op[table[s][c]] = "dropped"
  BY RetainedIs
<1>5. table' = [table EXCEPT ![s] = [Retained(s) EXCEPT ![n] = e]] /\ local' = [local EXCEPT ![e] = n]
  BY <1>2, <1>3 DEF Register
<1>6. \A o \in Hosts : o # s => table'[o] = table[o]
  BY <1>1, <1>5
<1>7. table'[s] \in [Cids[s] -> Ends \cup {None}]
      /\ \A c \in Cids[s] : table'[s][c] = IF c = n THEN e ELSE Retained(s)[c]
  BY <1>1, <1>4, <1>5
<1>8. local \in [Ends -> AllCids]
  BY DEF TypeOK
<1>9. ASSUME NEW f \in Ends \ {e}, op[f] # "none"
      PROVE  /\ Unregistered(f) => Unregistered(f)'
             /\ Unregistered(f)' => Unregistered(f) \/ op[f] = "dropped"
  <2>1. PICK h \in Hosts : h = Host(f)
    BY EndFacts
  <2>2. PICK c \in Cids[h] : c = local[f] /\ c = local'[f]
    BY <1>5, <1>8, <1>9, <2>1 DEF TypeOK, EndInv, EndOK
  <2>3. (Unregistered(f) <=> table[h][c] # f) /\ (Unregistered(f)' <=> table'[h][c] # f)
    BY <2>1, <2>2 DEF Unregistered
  <2>4. f # None /\ f # e
    BY HostsAssumption DEF Ends
  <2>5. CASE h # s
    BY <1>6, <2>3, <2>5
  <2>6. CASE h = s
    <3>1. table'[s][c] = table[s][c] \/ (table'[s][c] = None /\ op[table[s][c]] = "dropped") \/ c = n
      BY <1>4, <1>7, <2>6
    <3>2. c = n => table'[s][c] = e /\ (table[s][c] = None \/ op[table[s][c]] = "dropped")
      BY <1>3, <1>4, <1>7
    <3>3. QED
      BY <2>3, <2>4, <2>6, <3>1, <3>2
  <2>7. QED
    BY <2>5, <2>6
<1>10. Host(e) = s /\ local'[e] = n
  BY <1>2, <1>5, <1>8
<1>11. ~Unregistered(e)'
  BY <1>7, <1>10 DEF Unregistered
<1>12. TableStep
  <2>1. ASSUME NEW o \in Hosts, NEW c \in Cids[o]
        PROVE  \/ table'[o][c] \in {table[o][c], None}
               \/ Host(table'[o][c]) = o /\ local'[table'[o][c]] = c
    BY <1>4, <1>6, <1>7, <1>10
  <2>2. QED
    BY <2>1 DEF TableStep
<1>13. \A o \in Hosts : table'[o] \in [Cids[o] -> Ends \cup {None}]
  BY <1>1, <1>6, <1>7
<1>14. QED
  BY <1>1, <1>2, <1>3, <1>5, <1>9, <1>11, <1>12, <1>13

\* A new channel, made by its own task's server or for the peer's request.
LEMMA NewEndIsStep ==
  ASSUME Invs, NEW e \in Ends, op[e] = "none", Free(Host(e)) # {}, Register(e),
         Others(e), inbox' = inbox, received' = received, LinkStep, EndOK(e)', op'[e] # "none",
         \/ Host(e) = Opener[Conn(e)]
         \/ \E i \in 1..Len(link[Host(e)]) : Asks(link[Host(e)][i], Conn(e)),
         remote'[e] = remote[e] \/ RemoteOK(e)'
  PROVE  EndInv' /\ Step
<1>1. TypeOK /\ EndInv /\ local \in [Ends -> AllCids]
  BY DEF Invs, TypeOK
<1>2. /\ local' = [local EXCEPT ![e] = NewCid(Host(e))]
      /\ TableStep
      /\ ~Unregistered(e)'
      /\ \A f \in Ends \ {e} :
           op[f] # "none" => /\ Unregistered(f) => Unregistered(f)'
                             /\ Unregistered(f)' => Unregistered(f) \/ op[f] = "dropped"
  BY <1>1, RegisterStep
<1>3. \A f \in Ends \ {e} : local'[f] = local[f]
  BY <1>1, <1>2
<1>4. state[e] = "none"
  BY <1>1 DEF EndInv, EndOK
<1>5. EndInv'
  <2>1. ASSUME NEW f \in Ends, f # e PROVE EndOK(f)'
    <3>1. EndOK(f)
      BY <1>1 DEF EndInv
    <3>2. PICK p \in Ends : p = Peer(f)
      BY EndFacts
    <3>3. op'[p] = op[p] \/ op[p] = "none"
      BY DEF Others
    <3>4. QED
      BY <1>3, <2>1, <3>1, <3>2, <3>3 DEF EndOK, Others, Settled
  <2>2. QED
    BY <2>1 DEF EndInv
<1>6. Stable
  <2>1. ~Settled(e) /\ state[e] \notin Closing
    BY <1>4 DEF Settled, Closing
  <2>2. QED
    BY <1>2, <1>3, <2>1 DEF Stable, Others, Settled
<1>7. InboxStep /\ ReceivedStep
  BY DEF InboxStep, ReceivedStep
<1>8. RemoteStep
  BY DEF RemoteStep, Others
<1>9. LostStep
  <2>1. ASSUME NEW f \in Ends \ {e}, op[f] # "none", Unregistered(f)', Unregistered(f) => Released(f)
        PROVE  Released(f)'
    <3>1. Released(f)
      BY <1>2, <2>1 DEF Released
    <3>2. QED
      BY <1>3, <1>6, <3>1, ReleasedElsewhere DEF Others
  <2>2. ASSUME NEW f \in Ends \ {e}, op[f] # "none", Unregistered(f), Released(f)
        PROVE  Released(f)'
    BY <1>3, <1>6, <2>2, ReleasedElsewhere DEF Others
  <2>3. ASSUME NEW f \in Ends \ {e}, op[f] = "none" PROVE op'[f] = "none"
    BY <2>3 DEF Others
  <2>4. QED
    BY <1>2, <2>1, <2>2, <2>3 DEF LostStep
<1>10. QED
  BY <1>2, <1>5, <1>6, <1>7, <1>8, <1>9 DEF Step

LEMMA SameLink ==
  ASSUME TypeOK, LinkInv, NEW s \in Hosts, link'[s] = link[s],
         \A k \in Connections : Opener[k] # s /\ op[<<k, s>>] = "none" => op'[<<k, s>>] = "none"
  PROVE  \A i \in 1..Len(link'[s]) : \E m \in Packet : link'[s][i] = m /\ Old(s, 0, i, m)
<1>1. SUFFICES ASSUME NEW i \in 1..Len(link[s])
               PROVE  \E m \in Packet : link[s][i] = m /\ Old(s, 0, i, m)
  OBVIOUS
<1>2. PICK n \in Nat : n = Len(link[s])
  <2>1. link[s] \in Seq(Packet)
    BY DEF TypeOK
  <2>2. QED
    BY <2>1
<1>3. PICK m \in Packet : m = link[s][i]
  <2>1. link[s] \in Seq(Packet)
    BY DEF TypeOK
  <2>2. QED
    BY <2>1
<1>4. LinkOK(s, m)
  BY <1>3 DEF LinkInv
<1>5. m.type = "connReq" => op'[<<m.conn, s>>] = "none"
  BY <1>4, PacketFacts DEF LinkOK, RequestOK
<1>6. i + 0 = i /\ i \in 1..n
  BY <1>2
<1>7. QED
  BY <1>2, <1>3, <1>5, <1>6 DEF Old

LEMMA TailLink ==
  ASSUME TypeOK, LinkInv, NEW s \in Hosts, link[s] # <<>>, link'[s] = Tail(link[s]),
         \A k \in Connections : Opener[k] # s /\ op[<<k, s>>] = "none" /\ ~Asks(link[s][1], k) => op'[<<k, s>>] = "none"
  PROVE  \A i \in 1..Len(link'[s]) : \E m \in Packet : link'[s][i] = m /\ Old(s, 1, i, m)
<1>1. PICK q \in Seq(Packet) : q = link[s] /\ q # <<>> /\ link'[s] = Tail(q)
  <2>1. link[s] \in Seq(Packet)
    BY DEF TypeOK
  <2>2. QED
    BY <2>1
<1>2. PICK n \in Nat : n = Len(q) /\ n >= 1
  BY <1>1, EmptySeq
<1>3. Len(Tail(q)) = n - 1 /\ \A j \in 1..(n - 1) : Tail(q)[j] = q[j + 1]
  BY <1>1, <1>2, HeadTailProperties
<1>4. SUFFICES ASSUME NEW i \in 1..(n - 1)
               PROVE  \E m \in Packet : link'[s][i] = m /\ Old(s, 1, i, m)
  BY <1>1, <1>3
<1>5. i + 1 \in 1..n /\ i + 1 # 1 /\ 1 \in 1..n
  BY <1>2
<1>6. PICK m \in Packet : m = q[i + 1] /\ m = link'[s][i]
  BY <1>1, <1>2, <1>3, <1>5
<1>7. LinkOK(s, m)
  BY <1>1, <1>2, <1>5, <1>6 DEF LinkInv
<1>8. ASSUME m.type = "connReq" PROVE op'[<<m.conn, s>>] = "none"
  <2>1. m.conn \in Connections /\ Opener[m.conn] # s /\ op[<<m.conn, s>>] = "none"
    BY <1>7, <1>8, PacketFacts DEF LinkOK, RequestOK
  <2>2. ~Asks(q[1], m.conn)
    <3>1. Asks(link[s][1], link[s][i + 1].conn) => i + 1 = 1
      BY <1>1, <1>2, <1>5, <1>6, <1>8 DEF LinkInv, LinkOrder
    <3>2. QED
      BY <1>1, <1>5, <1>6, <3>1
  <2>3. QED
    BY <1>1, <2>1, <2>2
<1>9. QED
  BY <1>1, <1>2, <1>5, <1>6, <1>8 DEF Old

LEMMA NewChannelStep ==
  ASSUME Invs, NEW e \in Ends, NewChannel(e)
  PROVE  TypeOK' /\ EndInv' /\ Step
<1>1. TypeOK /\ EndInv /\ LinkInv /\ EndOK(e)
  BY DEF Invs, EndInv
<1>2. /\ Host(e) = Opener[Conn(e)] /\ op[e] = "none" /\ Free(Host(e)) # {} /\ Register(e)
      /\ state' = [state EXCEPT ![e] = "idle"] /\ op' = [op EXCEPT ![e] = "created"]
      /\ UNCHANGED <<remote, inbox, link, written, received, reconfigures>>
  BY DEF NewChannel
<1>3. Others(e)
  BY <1>1, <1>2 DEF TypeOK, Others
<1>4. PICK n : n = NewCid(Host(e))
  OBVIOUS
<1>5. /\ DOMAIN table' = Hosts /\ \A o \in Hosts : table'[o] \in [Cids[o] -> Ends \cup {None}]
      /\ local' = [local EXCEPT ![e] = n] /\ n \in Cids[Host(e)] /\ n # NoCid
  BY <1>1, <1>2, <1>4, RegisterStep
<1>6. op'[e] = "created" /\ state'[e] = "idle" /\ local'[e] = n
  BY <1>1, <1>2, <1>5 DEF TypeOK
<1>7. TypeOK'
  <2>1. state' \in [Ends -> States] /\ op' \in [Ends -> Ops]
    BY <1>1, <1>2 DEF TypeOK, States, Ops
  <2>2. local' \in [Ends -> AllCids] /\ \A f \in Ends : local'[f] \in Cids[Host(f)] \cup {NoCid}
    BY <1>1, <1>5, CidFacts, EndFacts DEF TypeOK
  <2>3. QED
    BY <1>1, <1>2, <1>5, <2>1, <2>2 DEF TypeOK
<1>8. EndOK(e)'
  BY <1>1, <1>2, <1>5, <1>6 DEF EndOK
<1>9. ASSUME NEW s \in Hosts, NEW k \in Connections, Opener[k] # s, op[<<k, s>>] = "none"
      PROVE  op'[<<k, s>>] = "none"
  <2>1. PICK f \in Ends : f = <<k, s>> /\ Conn(f) = k /\ Host(f) = s
    BY EndIs
  <2>2. f # e
    BY <1>2, <1>9, <2>1
  <2>3. QED
    BY <1>3, <1>9, <2>1, <2>2 DEF Others
<1>10. LinkStep
  <2>1. ASSUME NEW s \in Hosts
        PROVE  \A i \in 1..Len(link'[s]) : \E m \in Packet : link'[s][i] = m /\ Old(s, 0, i, m)
    BY <1>1, <1>2, <1>9, SameLink
  <2>2. QED
    BY <2>1 DEF LinkStep
<1>11. EndInv' /\ Step
  BY <1>2, <1>3, <1>6, <1>8, <1>10, NewEndIsStep
<1>12. QED
  BY <1>7, <1>11

\* No channel is made or told; the table may have lost dropped channels.
LEMMA NoEndIsStep ==
  ASSUME Invs, UNCHANGED <<channel, received>>, LinkStep, TableStep,
         \A f \in Ends : op[f] # "none" => /\ Unregistered(f) => Unregistered(f)'
                                           /\ Unregistered(f)' => Unregistered(f) \/ op[f] = "dropped",
         written' = written
  PROVE  EndInv' /\ Step
<1>1. TypeOK /\ EndInv
  BY DEF Invs
<1>2. state' = state /\ local' = local /\ remote' = remote /\ inbox' = inbox /\ op' = op /\ received' = received
  BY DEF channel
<1>3. EndInv'
  BY <1>1, <1>2 DEF EndInv, EndOK, Settled
<1>4. Stable
  BY <1>2 DEF Stable, Settled
<1>5. InboxStep /\ ReceivedStep /\ RemoteStep
  BY <1>2 DEF InboxStep, ReceivedStep, RemoteStep
<1>6. LostStep
  <2>1. ASSUME NEW f \in Ends, Released(f) PROVE Released(f)'
    BY <1>2, <1>4, <2>1, ReleasedElsewhere
  <2>2. \A f \in Ends : op[f] = "dropped" => Released(f)
    BY DEF Released
  <2>3. QED
    BY <1>2, <2>1, <2>2 DEF LostStep
<1>7. QED
  BY <1>3, <1>4, <1>5, <1>6 DEF Step

LEMMA StutterIsStep ==
  ASSUME Invs, UNCHANGED vars
  PROVE  TypeOK' /\ EndInv' /\ Step
<1>1. TypeOK /\ LinkInv
  BY DEF Invs
<1>2. /\ state' = state /\ local' = local /\ remote' = remote /\ inbox' = inbox /\ op' = op /\ received' = received
      /\ table' = table /\ link' = link /\ written' = written /\ reconfigures' = reconfigures
  BY DEF vars, channel
<1>3. TypeOK'
  BY <1>1, <1>2 DEF TypeOK
<1>4. LinkStep
  <2>1. ASSUME NEW s \in Hosts
        PROVE  \A i \in 1..Len(link'[s]) : \E m \in Packet : link'[s][i] = m /\ Old(s, 0, i, m)
    BY <1>1, <1>2, SameLink
  <2>2. QED
    BY <2>1 DEF LinkStep
<1>5. TableStep
  BY <1>2 DEF TableStep
<1>6. \A f \in Ends : Unregistered(f)' <=> Unregistered(f)
  BY <1>2 DEF Unregistered
<1>7. UNCHANGED <<channel, received>>
  BY <1>2 DEF channel
<1>8. EndInv' /\ Step
  BY <1>2, <1>4, <1>5, <1>6, <1>7, NoEndIsStep
<1>9. QED
  BY <1>3, <1>8

\* A ConnectionRequest leaves its link, and its response goes on the other.
LEMMA RespondLinks ==
  ASSUME Invs, NEW s \in Hosts, link[s] # <<>>, NEW m \in Packet, m = link[s][1], m.type = "connReq",
         NEW c \in AllCids, NEW ok \in BOOLEAN,
         link' = [o \in Hosts |-> IF o = s THEN Tail(link[o])
                                  ELSE Append(link[o], ConnectionResponse(c, m.scid, ok))],
         ok => Answered(Other(s), c, m.scid)',
         \A k \in Connections, o \in Hosts :
           op[<<k, o>>] = "none" /\ (o = s => k # m.conn) => op'[<<k, o>>] = "none"
  PROVE  link' \in [Hosts -> Seq(Packet)] /\ LinkStep
<1>1. TypeOK /\ LinkInv /\ link \in [Hosts -> Seq(Packet)] /\ m.scid \in AllCids
  BY PacketFacts DEF Invs, TypeOK
<1>2. PICK r \in Packet :
        r = ConnectionResponse(c, m.scid, ok) /\ r.type = "connRsp" /\ r.dcid = c /\ r.scid = m.scid /\ r.success = ok
  <2>1. ConnectionResponse(c, m.scid, ok) \in Packet
    BY <1>1, PacketIs
  <2>2. QED
    BY <2>1 DEF ConnectionResponse
<1>3. PICK p \in Hosts : p = Other(s) /\ p # s /\ Other(p) = s /\ \A o \in Hosts : o = s \/ o = p
  BY HostFacts
<1>4. link'[s] = Tail(link[s]) /\ link'[p] = Append(link[p], r)
  BY <1>2, <1>3
<1>5. link' \in [Hosts -> Seq(Packet)]
  <2>1. Tail(link[s]) \in Seq(Packet)
    BY <1>1, HeadTailProperties
  <2>2. Append(link[p], r) \in Seq(Packet)
    BY <1>1
  <2>3. \A o \in Hosts : link'[o] \in Seq(Packet)
    BY <1>3, <1>4, <2>1, <2>2
  <2>4. QED
    BY <2>3
<1>6. \A i \in 1..Len(link'[s]) : \E n \in Packet : link'[s][i] = n /\ Old(s, 1, i, n)
  <2>1. \A k \in Connections : op[<<k, s>>] = "none" /\ ~Asks(link[s][1], k) => op'[<<k, s>>] = "none"
    BY DEF Asks
  <2>2. QED
    BY <1>1, <1>4, <2>1, TailLink
<1>7. LinkOK(p, r)'
  BY <1>2, <1>3 DEF LinkOK
<1>8. PICK q \in Seq(Packet), n \in Nat : q = link[p] /\ n = Len(q)
  <2>1. link[p] \in Seq(Packet) /\ Len(link[p]) \in Nat
    BY <1>1
  <2>2. QED
    BY <2>1
<1>9. /\ Len(link'[p]) = n + 1 /\ link'[p][n + 1] = r
      /\ \A i \in 1..n : link'[p][i] = q[i]
  BY <1>4, <1>8, AppendProperties
<1>10. ASSUME NEW i \in 1..Len(link'[p])
       PROVE  \E x \in Packet :
                /\ link'[p][i] = x
                /\ Old(p, 0, i, x) \/ (i + 0 > Len(link[p]) /\ Fresh(p, 0, i, x))
  <2>1. i \in 1..(n + 1) /\ i + 0 = i
    BY <1>8, <1>9
  <2>2. CASE i \in 1..n
    <3>1. PICK x \in Packet : x = link[p][i]
      BY <1>8, <2>2
    <3>2. LinkOK(p, x)
      BY <1>1, <1>8, <2>2, <3>1 DEF LinkInv
    <3>3. x.type = "connReq" => op'[<<x.conn, p>>] = "none"
      BY <1>3, <3>2, PacketFacts DEF LinkOK, RequestOK
    <3>4. link'[p][i] = x /\ x = link[p][i + 0] /\ i + 0 \in 1..Len(link[p])
      BY <1>8, <1>9, <2>1, <2>2, <3>1
    <3>5. QED
      BY <3>3, <3>4 DEF Old
  <2>3. CASE i = n + 1
    <3>1. Fresh(p, 0, i, r)
      BY <1>2, <1>7 DEF Fresh
    <3>2. link'[p][i] = r /\ i + 0 > Len(link[p])
      BY <1>8, <1>9, <2>1, <2>3
    <3>3. QED
      BY <3>1, <3>2
  <2>4. QED
    BY <2>1, <2>2, <2>3
<1>11. ASSUME NEW o \in Hosts
       PROVE  \E d \in {0, 1} :
                \A i \in 1..Len(link'[o]) : \E x \in Packet :
                  /\ link'[o][i] = x
                  /\ Old(o, d, i, x) \/ (i + d > Len(link[o]) /\ Fresh(o, d, i, x))
  <2>1. CASE o = s
    <3>1. WITNESS 1 \in {0, 1}
    <3>2. QED
      BY <1>6, <2>1
  <2>2. CASE o = p
    <3>1. WITNESS 0 \in {0, 1}
    <3>2. QED
      BY <1>10, <2>2
  <2>3. QED
    BY <1>3, <2>1, <2>2
<1>12. LinkStep
  BY <1>11 DEF LinkStep
<1>13. QED
  BY <1>5, <1>12

LEMMA OnConnectionRequestStep ==
  ASSUME Invs, NEW s \in Hosts, link[s] # <<>>, NEW m \in Packet, m = Head(link[s]), m.type = "connReq",
         OnConnectionRequest(s, m), UNCHANGED <<written, received, reconfigures>>
  PROVE  TypeOK' /\ EndInv' /\ Step
<1>1. TypeOK /\ EndInv /\ LinkInv
  BY DEF Invs
<1>2. link[s] \in Seq(Packet) /\ m = link[s][1] /\ 1 \in 1..Len(link[s])
  <2>1. link[s] \in Seq(Packet)
    BY <1>1 DEF TypeOK
  <2>2. QED
    BY <2>1
<1>3. RequestOK(s, m) /\ m.conn \in Connections /\ m.scid \in AllCids
  BY <1>1, <1>2, PacketFacts DEF LinkInv, LinkOK
<1>4. PICK k \in Connections : k = m.conn
  BY <1>3
<1>5. PICK e \in Ends : e = <<k, s>> /\ Conn(e) = k /\ Host(e) = s
  BY EndIs
<1>6. PICK p \in Ends : p = Peer(e) /\ Peer(p) = e /\ p # e /\ Host(p) = Other(s) /\ Conn(p) = k /\ p = <<k, Host(p)>>
  BY <1>5, EndFacts
<1>7. Opener[k] # s /\ Opener[k] = Host(p)
  BY <1>3, <1>4, <1>6, OpenerFacts, HostFacts DEF RequestOK
<1>8. op[e] = "none" /\ op[p] \notin {"none", "created"} /\ m.scid = local[p] /\ m.scid # NoCid
  BY <1>1, <1>3, <1>4, <1>5, <1>6, <1>7 DEF RequestOK, EndInv, EndOK
<1>9. ASSUME link' = [o \in Hosts |-> IF o = s THEN Tail(link[o])
                                     ELSE Append(link[o], ConnectionResponse(NoCid, m.scid, FALSE))],
             op' = op
      PROVE  link' \in [Hosts -> Seq(Packet)] /\ LinkStep
  <2>1. NoCid \in AllCids
    BY CidFacts
  <2>2. PICK ok \in BOOLEAN : ok = FALSE
    OBVIOUS
  <2>3. link' = [o \in Hosts |-> IF o = s THEN Tail(link[o])
                                 ELSE Append(link[o], ConnectionResponse(NoCid, m.scid, ok))]
    BY <1>9, <2>2
  <2>4. ok => Answered(Other(s), NoCid, m.scid)'
    BY <2>2
  <2>5. QED
    BY <1>2, <1>9, <2>1, <2>3, <2>4, RespondLinks
<1>10. CASE /\ link' = [o \in Hosts |-> IF o = s THEN Tail(link[o])
                                        ELSE Append(link[o], ConnectionResponse(NoCid, m.scid, FALSE))]
            /\ UNCHANGED <<channel, table>>
  <2>1. state' = state /\ local' = local /\ remote' = remote /\ inbox' = inbox /\ op' = op /\ table' = table
    BY <1>10 DEF channel
  <2>2. link' \in [Hosts -> Seq(Packet)] /\ LinkStep
    BY <1>9, <1>10, <2>1
  <2>3. TypeOK'
    BY <1>1, <2>1, <2>2 DEF TypeOK
  <2>4. TableStep
    BY <2>1 DEF TableStep
  <2>5. \A f \in Ends : Unregistered(f)' <=> Unregistered(f)
    BY <2>1 DEF Unregistered
  <2>6. EndInv' /\ Step
    BY <1>10, <2>2, <2>4, <2>5, NoEndIsStep
  <2>7. QED
    BY <2>3, <2>6
<1>11. CASE /\ link' = [o \in Hosts |-> IF o = s THEN Tail(link[o])
                                        ELSE Append(link[o], ConnectionResponse(NoCid, m.scid, FALSE))]
            /\ table' = [table EXCEPT ![s] = Retained(s)]
            /\ UNCHANGED channel
  <2>1. state' = state /\ local' = local /\ remote' = remote /\ inbox' = inbox /\ op' = op
    BY <1>11 DEF channel
  <2>2. link' \in [Hosts -> Seq(Packet)] /\ LinkStep
    BY <1>9, <1>11, <2>1
  <2>3. /\ DOMAIN table' = Hosts
        /\ \A o \in Hosts : table'[o] \in [Cids[o] -> Ends \cup {None}]
        /\ TableStep
        /\ \A f \in Ends :
             op[f] # "none" => /\ Unregistered(f) => Unregistered(f)'
                               /\ Unregistered(f)' => Unregistered(f) \/ op[f] = "dropped"
    BY <1>1, <1>11, <2>1, RetainStep
  <2>4. TypeOK'
    BY <1>1, <2>1, <2>2, <2>3 DEF TypeOK
  <2>5. EndInv' /\ Step
    BY <1>11, <2>2, <2>3, NoEndIsStep
  <2>6. QED
    BY <2>4, <2>5
<1>12. ASSUME NEW accept \in BOOLEAN, Free(s) # {}, Register(e),
              link' = [o \in Hosts |-> IF o = s THEN Tail(link[o])
                                       ELSE Append(link[o], ConnectionResponse(NewCid(s), m.scid, accept))],
              remote' = [remote EXCEPT ![e] = m.scid],
              state' = [state EXCEPT ![e] = IF accept THEN "config" ELSE "disconnected"],
              op' = [op EXCEPT ![e] = IF accept THEN "setup" ELSE "dropped"], inbox' = inbox
       PROVE  TypeOK' /\ EndInv' /\ Step
  <2>1. PICK n \in Cids[s] : n = NewCid(s) /\ n # NoCid /\ n \in AllCids
    BY <1>12, NewCidFree
  <2>2. /\ DOMAIN table' = Hosts /\ \A o \in Hosts : table'[o] \in [Cids[o] -> Ends \cup {None}]
        /\ local' = [local EXCEPT ![e] = n]
    BY <1>1, <1>5, <1>8, <1>12, <2>1, RegisterStep
  <2>3. Others(e)
    BY <1>1, <1>12 DEF TypeOK, Others
  <2>4. /\ local'[e] = n /\ local'[p] = m.scid /\ remote'[e] = m.scid /\ op'[p] = op[p]
        /\ op'[e] \in {"setup", "dropped"} /\ state'[e] \in {"config", "disconnected"}
        /\ op'[e] = "dropped" => state'[e] = "disconnected"
    BY <1>1, <1>6, <1>8, <1>12, <2>2 DEF TypeOK
  <2>5. Answered(Other(s), n, m.scid)'
    BY <1>6, <1>8, <2>1, <2>4 DEF Answered
  <2>6. ASSUME NEW c \in Connections, NEW o \in Hosts, op[<<c, o>>] = "none", o = s => c # m.conn
        PROVE  op'[<<c, o>>] = "none"
    <3>1. PICK f \in Ends : f = <<c, o>> /\ Conn(f) = c /\ Host(f) = o
      BY EndIs
    <3>2. f # e
      BY <1>4, <1>5, <2>6, <3>1
    <3>3. QED
      BY <2>3, <2>6, <3>1, <3>2 DEF Others
  <2>7. link' \in [Hosts -> Seq(Packet)] /\ LinkStep
    BY <1>2, <1>12, <2>1, <2>5, <2>6, RespondLinks
  <2>8. TypeOK'
    <3>1. state' \in [Ends -> States] /\ op' \in [Ends -> Ops] /\ remote' \in [Ends -> AllCids]
      BY <1>1, <1>3, <1>12 DEF TypeOK, States, Connected, Configuring, Ops
    <3>2. local' \in [Ends -> AllCids] /\ \A f \in Ends : local'[f] \in Cids[Host(f)] \cup {NoCid}
      BY <1>1, <1>5, <2>1, <2>2 DEF TypeOK
    <3>3. QED
      BY <1>1, <1>12, <2>2, <2>7, <3>1, <3>2 DEF TypeOK
  <2>9. EndOK(e)'
    BY <1>6, <1>8, <2>1, <2>4 DEF EndOK, Settled, Closing
  <2>10. RemoteOK(e)'
    BY <1>6, <2>4 DEF RemoteOK
  <2>11. Asks(link[Host(e)][1], Conn(e)) /\ 1 \in 1..Len(link[Host(e)])
    BY <1>2, <1>4, <1>5 DEF Asks
  <2>12. EndInv' /\ Step
    BY <1>5, <1>8, <1>12, <2>3, <2>4, <2>7, <2>9, <2>10, <2>11, NewEndIsStep
  <2>13. QED
    BY <2>8, <2>12
<1>13. QED
  BY <1>4, <1>5, <1>10, <1>11, <1>12 DEF OnConnectionRequest

-----------------------------------------------------------------------------
(* A packet for a channel. *)
LEMMA ForwardLinks ==
  ASSUME Invs, NEW s \in Hosts, link[s] # <<>>, link' = [link EXCEPT ![s] = Tail(link[s])], op' = op
  PROVE  link' \in [Hosts -> Seq(Packet)] /\ LinkStep
<1>1. TypeOK /\ LinkInv /\ link \in [Hosts -> Seq(Packet)]
  BY DEF Invs, TypeOK
<1>2. link'[s] = Tail(link[s]) /\ \A o \in Hosts : o # s => link'[o] = link[o]
  BY <1>1
<1>3. link' \in [Hosts -> Seq(Packet)]
  <2>1. Tail(link[s]) \in Seq(Packet)
    BY <1>1, HeadTailProperties
  <2>2. QED
    BY <1>1, <2>1
<1>4. \A i \in 1..Len(link'[s]) : \E m \in Packet : link'[s][i] = m /\ Old(s, 1, i, m)
  BY <1>1, <1>2, TailLink
<1>5. ASSUME NEW o \in Hosts, o # s
      PROVE  \A i \in 1..Len(link'[o]) : \E m \in Packet : link'[o][i] = m /\ Old(o, 0, i, m)
  BY <1>1, <1>2, <1>5, SameLink
<1>6. LinkStep
  BY <1>4, <1>5 DEF LinkStep
<1>7. QED
  BY <1>3, <1>6

\* The event that a packet becomes, for the channel registered under its id.
LEMMA EventOK ==
  ASSUME Invs, NEW s \in Hosts, link[s] # <<>>, NEW m \in Packet, m = link[s][1], NEW c \in Cids[s],
         NEW e \in Ends, table[s][c] = e, Host(e) = s, local[e] = c, op[e] # "none",
         m.type \in {"connRsp", "configRsp"} => c = m.scid,
         m.type \in {"configReq", "discReq", "discRsp", "data"} => c = m.dcid
  PROVE  InboxOK(e, m)
<1>1. TypeOK /\ EndInv /\ LinkInv
  BY DEF Invs
<1>2. link[s] \in Seq(Packet) /\ 1 \in 1..Len(link[s]) /\ Len(link[s]) \in Nat
  <2>1. link[s] \in Seq(Packet)
    BY <1>1 DEF TypeOK
  <2>2. QED
    BY <2>1
<1>3. LinkOK(s, m) /\ LinkOrder(s)
  BY <1>1, <1>2 DEF LinkInv
<1>4. CASE m.type = "data"
  <2>1. PICK f \in Ends : f = m.from
    BY <1>4, PacketFacts
  <2>2. Host(f) = Other(s) /\ remote[f] = c /\ Settled(f)
    BY <1>3, <1>4, <2>1 DEF LinkOK
  <2>3. PICK p \in Ends : p = Peer(f) /\ Host(p) = s
    BY <2>2, EndFacts, HostFacts
  <2>4. Known(f)
    <3>1. Other(Host(f)) = s
      BY <2>2, HostFacts
    <3>2. ASSUME NEW i \in 1..Len(link[s]), Asks(link[s][i], Conn(f)) PROVE FALSE
      <4>1. i < 1
        BY <1>2, <1>3, <1>4, <2>1, <3>2 DEF LinkOrder, Asks
      <4>2. QED
        BY <1>2, <4>1
    <3>3. QED
      BY <3>1, <3>2 DEF Known
  <2>5. p = e \/ local[p] # local[e] \/ Unregistered(p)
    BY <2>3 DEF Unregistered
  <2>6. DataOK(e, m)
    BY <2>1, <2>2, <2>3, <2>4, <2>5 DEF DataOK
  <2>7. QED
    BY <1>4, <2>6 DEF InboxOK
<1>5. CASE m.type # "data"
  BY <1>3, <1>5 DEF LinkOK, InboxOK
<1>6. QED
  BY <1>4, <1>5

\* The registered channel, if there is one, gets the event, and its entry goes or not.
LEMMA PostStep ==
  ASSUME Invs, NEW s \in Hosts, link[s] # <<>>, NEW m \in Packet, m = link[s][1],
         link' = [link EXCEPT ![s] = Tail(link[s])],
         UNCHANGED <<state, local, remote, op, written, received, reconfigures>>,
         NEW c \in Cids[s], NEW e \in Ends, table[s][c] = e, Post(e, m),
         table' = table \/ table' = [table EXCEPT ![s][c] = None],
         m.type \in {"connRsp", "configRsp"} => c = m.scid,
         m.type \in {"configReq", "discReq", "discRsp", "data"} => c = m.dcid,
         m.type = "discReq" => table' # table,
         table' # table => op[e] = "dropped" \/ m.type \in {"discReq", "discRsp"}
  PROVE  TypeOK' /\ EndInv' /\ Step
<1>1. TypeOK /\ EndInv /\ TableInv /\ LinkInv
  BY DEF Invs
<1>2. DOMAIN table = Hosts /\ table[s] \in [Cids[s] -> Ends \cup {None}] /\ inbox \in [Ends -> Seq(Packet)]
  BY <1>1 DEF TypeOK
<1>3. e # None
  BY HostsAssumption DEF Ends
<1>4. Host(e) = s /\ local[e] = c /\ ~Unregistered(e)
  BY <1>1, <1>3 DEF TableInv, Unregistered
<1>5. op[e] # "none"
  BY <1>1, <1>4, CidFacts DEF EndInv, EndOK
<1>6. InboxOK(e, m)
  BY <1>4, <1>5, EventOK
<1>7. link' \in [Hosts -> Seq(Packet)] /\ LinkStep
  BY ForwardLinks
<1>8. /\ DOMAIN table' = Hosts /\ \A o \in Hosts : table'[o] \in [Cids[o] -> Ends \cup {None}]
      /\ \A o \in Hosts : \A d \in Cids[o] :
           \/ table'[o][d] = table[o][d]
           \/ table'[o][d] = None /\ o = s /\ d = c /\ table' # table
      /\ table' # table => table'[s][c] = None
  <2>1. \A o \in Hosts : table[o] \in [Cids[o] -> Ends \cup {None}]
    BY <1>1 DEF TypeOK
  <2>2. CASE table' = table
    BY <1>2, <2>1, <2>2
  <2>3. CASE table' = [table EXCEPT ![s][c] = None]
    <3>1. table' = [table EXCEPT ![s] = [table[s] EXCEPT ![c] = None]]
      BY <2>3
    <3>2. table'[s] = [table[s] EXCEPT ![c] = None] /\ \A o \in Hosts : o # s => table'[o] = table[o]
      BY <1>2, <3>1
    <3>3. table'[s][c] = None /\ \A d \in Cids[s] : d # c => table'[s][d] = table[s][d]
      BY <1>2, <3>2
    <3>4. table' # table
      BY <1>3, <3>3
    <3>5. QED
      BY <1>2, <2>1, <3>1, <3>2, <3>3, <3>4
  <2>4. QED
    BY <2>2, <2>3
<1>9. \/ inbox' = inbox /\ op[e] = "dropped"
      \/ inbox' = [inbox EXCEPT ![e] = Append(inbox[e], m)] /\ op[e] # "dropped"
  BY DEF Post
<1>10. TypeOK'
  <2>1. Append(inbox[e], m) \in Seq(Packet)
    BY <1>2
  <2>2. inbox' \in [Ends -> Seq(Packet)]
    BY <1>2, <1>9, <2>1
  <2>3. state \in [Ends -> States] /\ op \in [Ends -> Ops] /\ received \in [Ends -> Seq(Packet)]
    BY <1>1 DEF TypeOK
  <2>4. QED
    BY <1>1, <1>7, <1>8, <2>2, <2>3 DEF TypeOK
<1>11. EndInv'
  <2>1. \A f \in Ends : inbox[f] = <<>> /\ op[f] = "none" => inbox'[f] = <<>>
    BY <1>2, <1>5, <1>9
  <2>2. ASSUME NEW f \in Ends PROVE EndOK(f)'
    <3>1. EndOK(f)
      BY <1>1 DEF EndInv
    <3>2. PICK p : p = Peer(f)
      OBVIOUS
    <3>3. op[f] = "none" => inbox'[f] = <<>>
      BY <2>1, <3>1 DEF EndOK
    <3>4. QED
      BY <3>1, <3>2, <3>3 DEF EndOK, Settled
  <2>3. QED
    BY <2>2 DEF EndInv
<1>12. ASSUME NEW f \in Ends, op[f] # "none"
       PROVE  /\ Unregistered(f) => Unregistered(f)'
              /\ Unregistered(f)' => Unregistered(f) \/ (f = e /\ table' # table)
  <2>1. PICK h \in Hosts : h = Host(f)
    BY EndFacts
  <2>2. PICK d \in Cids[h] : d = local[f]
    BY <1>1, <1>12, <2>1 DEF TypeOK, EndInv, EndOK
  <2>3. (Unregistered(f) <=> table[h][d] # f) /\ (Unregistered(f)' <=> table'[h][d] # f)
    BY <2>1, <2>2 DEF Unregistered
  <2>4. f # None
    BY HostsAssumption DEF Ends
  <2>5. QED
    BY <1>8, <2>1, <2>2, <2>3, <2>4
<1>13. Stable
  BY <1>12 DEF Stable, Settled
<1>14. InboxOK(e, m)'
  BY <1>1, <1>5, <1>6, <1>7, <1>13, InboxOKKept
<1>15. table' # table => Unregistered(e)'
  BY <1>3, <1>4, <1>8 DEF Unregistered
<1>16. InboxStep
  <2>1. \A f \in Ends : f # e => inbox'[f] = inbox[f]
    BY <1>2, <1>9
  <2>2. \/ inbox'[e] = inbox[e]
        \/ /\ inbox'[e] = Append(inbox[e], m) /\ InboxOK(e, m)'
           /\ op[e] # "none" /\ ~Unregistered(e)
           /\ m.type = "discReq" => Unregistered(e)'
    BY <1>2, <1>4, <1>5, <1>9, <1>14, <1>15
  <2>3. QED
    BY <2>1, <2>2 DEF InboxStep
<1>17. ReceivedStep /\ RemoteStep
  BY DEF ReceivedStep, RemoteStep
<1>18. TableStep
  BY <1>8 DEF TableStep
<1>19. LostStep
  <2>1. ASSUME NEW f \in Ends, f # e, Released(f) PROVE Released(f)'
    <3>1. inbox'[f] = inbox[f]
      BY <1>2, <1>9, <2>1
    <3>2. QED
      BY <1>13, <2>1, <3>1, ReleasedElsewhere
  <2>2. ASSUME table' # table PROVE Released(e)'
    <3>1. CASE op[e] = "dropped"
      BY <3>1 DEF Released
    <3>2. CASE op[e] # "dropped" /\ m.type = "discReq"
      <4>1. PICK q \in Seq(Packet) : q = inbox[e] /\ inbox'[e] = Append(q, m)
        BY <1>2, <1>9, <3>2
      <4>2. Len(inbox'[e]) \in 1..Len(inbox'[e]) /\ inbox'[e][Len(inbox'[e])] = m
        BY <4>1, AppendProperties
      <4>3. "discReq" \in EventTypes(e)'
        BY <3>2, <4>2 DEF EventTypes
      <4>4. QED
        BY <4>3 DEF Released
    <3>3. CASE m.type = "discRsp"
      <4>1. 1 \in 1..Len(link[s])
        <5>1. link[s] \in Seq(Packet)
          BY <1>1 DEF TypeOK
        <5>2. QED
          BY <5>1
      <4>2. ClosingTo(s, c)
        BY <1>1, <3>3, <4>1 DEF LinkInv, LinkOK
      <4>3. PICK f \in Ends : Host(f) = s /\ remote[f] = c /\ state[f] \in Closing
        BY <4>2 DEF ClosingTo
      <4>4. QED
        BY <1>4, <4>3 DEF Released, MixedUp
    <3>4. QED
      BY <2>2, <3>1, <3>2, <3>3
  <2>3. QED
    BY <1>4, <1>12, <2>1, <2>2 DEF LostStep
<1>20. QED
  BY <1>7, <1>10, <1>11, <1>13, <1>16, <1>17, <1>18, <1>19 DEF Step

\* A packet for an id that no channel has.
LEMMA NobodyStep ==
  ASSUME Invs, NEW s \in Hosts, link[s] # <<>>, link' = [link EXCEPT ![s] = Tail(link[s])],
         UNCHANGED <<channel, table, written, received, reconfigures>>
  PROVE  TypeOK' /\ EndInv' /\ Step
<1>1. TypeOK
  BY DEF Invs
<1>2. state' = state /\ local' = local /\ remote' = remote /\ inbox' = inbox /\ op' = op
  BY DEF channel
<1>3. link' \in [Hosts -> Seq(Packet)] /\ LinkStep
  BY <1>2, ForwardLinks
<1>4. TypeOK'
  BY <1>1, <1>2, <1>3 DEF TypeOK
<1>5. TableStep
  BY <1>2 DEF TableStep
<1>6. \A f \in Ends : Unregistered(f)' <=> Unregistered(f)
  BY <1>2 DEF Unregistered
<1>7. EndInv' /\ Step
  BY <1>3, <1>5, <1>6, NoEndIsStep
<1>8. QED
  BY <1>4, <1>7

LEMMA ForwardStep ==
  ASSUME Invs, NEW s \in Hosts, link[s] # <<>>, NEW m \in Packet, m = Head(link[s]), m.type # "connReq",
         Forward(s, m), UNCHANGED <<written, received, reconfigures>>
  PROVE  TypeOK' /\ EndInv' /\ Step
<1>1. TypeOK
  BY DEF Invs
<1>2. m = link[s][1] /\ table[s] \in [Cids[s] -> Ends \cup {None}]
  <2>1. link[s] \in Seq(Packet)
    BY <1>1 DEF TypeOK
  <2>2. QED
    BY <1>1, <2>1 DEF TypeOK
<1>3. link' = [link EXCEPT ![s] = Tail(link[s])] /\ UNCHANGED <<state, local, remote, op>>
  BY DEF Forward
<1>4. PICK c : /\ m.type \in {"discReq", "discRsp", "configReq", "data"} => c = m.dcid
               /\ m.type \in {"connRsp", "configRsp"} => c = m.scid
  OBVIOUS
<1>5. \/ m.type \in {"discReq", "discRsp"} /\ FinalMsg(s, c, m)
      \/ m.type \notin {"discReq", "discRsp"} /\ ChannelMsg(s, c, m)
  <2>1. CASE m.type \in {"discReq", "discRsp"}
    BY <1>4, <2>1 DEF Forward
  <2>2. CASE m.type \in {"connRsp", "configRsp"}
    BY <1>4, <2>2 DEF Forward
  <2>3. CASE m.type \in {"configReq", "data"}
    BY <1>4, <2>3 DEF Forward
  <2>4. QED
    BY <2>1, <2>2, <2>3, PacketFacts
<1>6. CASE ~Registered(s, c)
  <2>1. UNCHANGED <<inbox, table>>
    BY <1>5, <1>6 DEF FinalMsg, ChannelMsg
  <2>2. UNCHANGED <<channel, table, written, received, reconfigures>>
    BY <1>3, <2>1 DEF channel
  <2>3. QED
    BY <1>3, <2>2, NobodyStep
<1>7. CASE Registered(s, c)
  <2>1. PICK e \in Ends : e = table[s][c] /\ c \in Cids[s]
    BY <1>2, <1>7 DEF Registered
  <2>2. /\ Post(e, m)
        /\ table' = table \/ table' = [table EXCEPT ![s][c] = None]
        /\ m.type \in {"discReq", "discRsp"} => table' = [table EXCEPT ![s][c] = None]
        /\ table' # table => op[e] = "dropped" \/ m.type \in {"discReq", "discRsp"}
    BY <1>5, <1>7, <2>1 DEF FinalMsg, ChannelMsg
  <2>3. m.type = "discReq" => table' # table
    <3>1. [table EXCEPT ![s][c] = None][s][c] = None
      BY <1>1, <1>2, <2>1 DEF TypeOK
    <3>2. e # None
      BY HostsAssumption DEF Ends
    <3>3. QED
      BY <2>1, <2>2, <3>1, <3>2
  <2>4. QED
    BY <1>2, <1>3, <1>4, <2>1, <2>2, <2>3, PostStep
<1>8. QED
  BY <1>6, <1>7

-----------------------------------------------------------------------------
LEMMA InitOK == Init => Invs
<1>1. SUFFICES ASSUME Init PROVE Invs
  OBVIOUS
<1>2. TypeOK
  <2>1. \A e \in Ends : Host(e) \in Hosts /\ MaxWrites[e] \in Nat
    BY EndFacts, BoundsAssumption DEF Ends
  <2>2. NoCid \in AllCids /\ MaxReconfigures \in Nat
    BY BoundsAssumption DEF AllCids
  <2>3. local \in [Ends -> AllCids] /\ remote \in [Ends -> AllCids]
    BY <1>1, <2>2 DEF Init
  <2>4. state \in [Ends -> States] /\ op \in [Ends -> Ops]
    BY <1>1 DEF Init, States, Ops
  <2>5. inbox \in [Ends -> Seq(Packet)] /\ received \in [Ends -> Seq(Packet)] /\ link \in [Hosts -> Seq(Packet)]
    BY <1>1 DEF Init
  <2>6. QED
    BY <2>1, <2>2, <2>3, <2>4, <2>5, <1>1 DEF Init, TypeOK
<1>3. EndInv
  BY <1>1 DEF Init, EndInv, EndOK, Settled
<1>4. TableInv
  BY <1>1 DEF Init, TableInv
<1>5. LinkInv
  BY <1>1 DEF Init, LinkInv, LinkOrder
<1>6. InboxInv
  BY <1>1 DEF Init, InboxInv
<1>7. ReceivedInv
  BY <1>1 DEF Init, ReceivedInv
<1>8. RemoteInv
  BY <1>1 DEF Init, RemoteInv, RemoteOK
<1>9. LostInv
  BY <1>1 DEF Init, LostInv
<1>10. QED
  BY <1>2, <1>3, <1>4, <1>5, <1>6, <1>7, <1>8, <1>9 DEF Invs

LEMMA NextStep == Invs /\ [Next]_vars => TypeOK' /\ EndInv' /\ Step
<1>1. SUFFICES ASSUME Invs, [Next]_vars PROVE TypeOK' /\ EndInv' /\ Step
  OBVIOUS
<1>2. ASSUME NEW e \in Ends, TaskStep(e) PROVE TypeOK' /\ EndInv' /\ Step
  <2>1. CASE NewChannel(e)
    BY <1>1, <2>1, NewChannelStep
  <2>2. CASE Connect(e)
    BY <1>1, <2>2, ConnectStep
  <2>3. CASE Configure(e) \/ Reconfigure(e)
    BY <1>1, <2>3, ConfigureSteps
  <2>4. CASE Write(e) \/ WriteTimesOut(e) \/ PollClosed(e)
    BY <1>1, <2>4, WriteSteps
  <2>5. CASE Disconnect(e)
    BY <1>1, <2>5, DisconnectStep
  <2>6. CASE Drop(e)
    BY <1>1, <2>6, DropStep
  <2>7. CASE Poll(e)
    BY <1>1, <2>7, PollStep
  <2>8. QED
    BY <1>2, <2>1, <2>2, <2>3, <2>4, <2>5, <2>6, <2>7 DEF TaskStep
<1>3. ASSUME NEW s \in Hosts, Deliver(s) PROVE TypeOK' /\ EndInv' /\ Step
  <2>1. PICK m : m = Head(link[s])
    OBVIOUS
  <2>2. link[s] # <<>> /\ UNCHANGED <<written, received, reconfigures>>
    BY <1>3 DEF Deliver
  <2>3. m \in Packet
    <3>1. link[s] \in Seq(Packet)
      BY <1>1 DEF Invs, TypeOK
    <3>2. QED
      BY <2>1, <2>2, <3>1, HeadTailProperties
  <2>4. CASE m.type = "connReq"
    <3>1. OnConnectionRequest(s, m)
      BY <1>3, <2>1, <2>4 DEF Deliver
    <3>2. QED
      BY <1>1, <2>1, <2>2, <2>3, <2>4, <3>1, OnConnectionRequestStep
  <2>5. CASE m.type # "connReq"
    <3>1. Forward(s, m)
      BY <1>3, <2>1, <2>5 DEF Deliver
    <3>2. QED
      BY <1>1, <2>1, <2>2, <2>3, <2>5, <3>1, ForwardStep
  <2>6. QED
    BY <2>4, <2>5
<1>4. CASE UNCHANGED vars
  BY <1>1, <1>4, StutterIsStep
<1>5. QED
  BY <1>1, <1>2, <1>3, <1>4 DEF Next

LEMMA NextOK == Invs /\ [Next]_vars => Invs'
BY NextStep, StepKeeps

LEMMA InvsHold == Spec => []Invs
BY InitOK, NextOK, PTL DEF Spec

(* Every variable keeps its type. *)
THEOREM TypesCorrect == Spec => []TypeOK
<1>1. Invs => TypeOK
  BY DEF Invs
<1>2. QED
  BY <1>1, InvsHold, PTL

(* A channel the server no longer delivers to was released: its entry went  *)
(* by a disconnection, unless a DisconnectionResponse was mixed up.         *)
THEOREM LostByCollision == Spec => []UnregisteredOnlyByCollision
<1>1. ASSUME Invs PROVE UnregisteredOnlyByCollision
  <2>1. SUFFICES ASSUME NEW e \in Ends, state[e] \in Connected, "discReq" \notin EventTypes(e), Unregistered(e)
                 PROVE  MixedUp(e)
    BY DEF UnregisteredOnlyByCollision
  <2>2. EndOK(e)
    BY <1>1 DEF Invs, EndInv
  <2>3. op[e] # "none" /\ op[e] # "dropped" /\ state[e] \notin Closing /\ state[e] # "waitConnectRsp"
    BY <2>1, <2>2 DEF EndOK, Connected, Configuring, Closing
  <2>4. Released(e)
    BY <1>1, <2>1, <2>3 DEF Invs, LostInv
  <2>5. QED
    BY <2>1, <2>3, <2>4 DEF Released
<1>2. Invs => UnregisteredOnlyByCollision
  BY <1>1
<1>3. QED
  BY <1>2, InvsHold, PTL

(* A packet reaches another channel than its own only when an id was handed *)
(* out again.                                                               *)
THEOREM Misdelivered == Spec => []MisdeliveredOnlyOnReuse
<1>1. ASSUME Invs PROVE MisdeliveredOnlyOnReuse
  <2>1. SUFFICES ASSUME NEW e \in Ends, NEW i \in 1..Len(received[e]), NEW f, f = received[e][i].from,
                        NEW p, p = Peer(f), p # e
                 PROVE  \/ local[p] = local[e] /\ Released(p)
                        \/ /\ remote[f] # local[p]
                           /\ \E g \in Ends : g # f /\ Host(g) = Host(f) /\ local[g] = local[f]
    BY DEF MisdeliveredOnlyOnReuse
  <2>2. received[e] \in Seq(Packet) /\ Len(received[e]) \in Nat
    <3>1. received[e] \in Seq(Packet)
      BY <1>1 DEF Invs, TypeOK
    <3>2. QED
      BY <3>1
  <2>3. received[e][i].type = "data" /\ DataOK(e, received[e][i])
    BY <1>1 DEF Invs, ReceivedInv
  <2>4. f \in Ends
    BY <2>1, <2>2, <2>3, PacketFacts
  <2>5. /\ remote[f] = local[e] /\ Settled(f)
        /\ local[p] # local[e] \/ Unregistered(p)
    BY <2>1, <2>3 DEF DataOK
  <2>6. p \in Ends
    BY <2>1, <2>4, EndFacts
  <2>7. local[e] # NoCid /\ op[e] # "none"
    BY <1>1, <2>2 DEF Invs, EndInv, EndOK
  <2>8. CASE local[p] # local[e]
    <3>1. RemoteOK(f)
      BY <1>1, <2>4 DEF Invs, RemoteInv
    <3>2. QED
      BY <2>1, <2>5, <2>7, <2>8, <3>1 DEF RemoteOK
  <2>9. CASE local[p] = local[e]
    <3>1. op[p] # "none"
      BY <1>1, <2>6, <2>7, <2>9 DEF Invs, EndInv, EndOK
    <3>2. Released(p)
      BY <1>1, <2>5, <2>6, <2>9, <3>1 DEF Invs, LostInv
    <3>3. QED
      BY <2>9, <3>2
  <2>10. QED
    BY <2>8, <2>9
<1>2. Invs => MisdeliveredOnlyOnReuse
  BY <1>1
<1>3. QED
  BY <1>2, InvsHold, PTL

-----------------------------------------------------------------------------
(* The handshake and the data, as long as no channel is reconfigured and no *)
(* id is handed out again.  A packet is then for one channel only, and what *)
(* a channel has yet to take in comes from its peer: the request and the    *)
(* response of the configuration, once each, and the data in order.         *)
Clean == reconfigures = 0 /\ IdsOnce

Has(q, m) == \E i \in 1..Len(q) : q[i] = m
Before(q, m, n) == \E i, j \in 1..Len(q) : i < j /\ q[i] = m /\ q[j] = n

Live(e) == op[e] \notin {"none", "dropped"} /\ state[e] \notin Closing

\* What e has yet to take in; a channel that is closing does not care.
Stream(e) ==
  IF ~Live(e) THEN <<>> ELSE IF Unregistered(e) THEN inbox[e] ELSE inbox[e] \o link[Host(e)]

\* What counts in the stream of a channel with the id c and the peer p.
Counted(c, p) ==
  {ConfigureRequest(c), ConfigureResponse(c)} \cup {Data(c, p, k) : k \in Nat}

Early == {"none", "idle", "waitConnectRsp", "config"}
Asked == {"configReqRsp", "configRsp", "configReq", "open"} \cup Closing
Answering == {"configRsp", "open"} \cup Closing

\* The stream q of a channel in state st, with n packets read, whose peer is in
\* state ps and has written w.
Orderly(q, c, p, st, ps, n, w) ==
  /\ Has(q, ConfigureRequest(c)) =>
       /\ st \notin {"configRsp", "open"} /\ ps \in Asked
       /\ ~Before(q, ConfigureRequest(c), ConfigureRequest(c))
  /\ Has(q, ConfigureResponse(c)) =>
       /\ st \in {"configReqRsp", "configRsp"} /\ ps \in Answering
       /\ ~Before(q, ConfigureResponse(c), ConfigureResponse(c))
  /\ \A k \in Nat : Has(q, Data(c, p, k)) =>
       /\ n < k /\ k <= w
       /\ st # "open" => Before(q, ConfigureResponse(c), Data(c, p, k))
       /\ \A j \in Nat : n < j /\ j < k => Before(q, Data(c, p, j), Data(c, p, k))
       /\ \A j \in Nat : j <= k => ~Before(q, Data(c, p, k), Data(c, p, j))

\* Nothing written is missing from it, unless the channel was unregistered.
Whole(q, c, p, n, w, lost) ==
  /\ n <= w
  /\ ~lost => \A k \in Nat : n < k /\ k <= w => Has(q, Data(c, p, k))

\* A channel in state st has its peer's response, or has given its own.
Agree(st, ps, w, told) ==
  /\ st # "sendConfig"
  /\ st \in {"configReq", "open"} => ps \in Answering
  /\ st \in {"configRsp", "open"} => ps \in Asked /\ (ps \in {"configReqRsp", "configRsp"} => told)
  /\ w > 0 => st \in {"open"} \cup Closing /\ ps \in Answering

Told(e) == Unregistered(e) \/ Has(Stream(e), ConfigureResponse(local[e]))

InPhase(e) == Agree(state[e], state[Peer(e)], written[e], Told(Peer(e)))
StreamOK(e) ==
  Orderly(Stream(e), local[e], Peer(e), state[e], state[Peer(e)], Len(received[e]), written[Peer(e)])
NothingMissing(e) ==
  Live(e) => Whole(Stream(e), local[e], Peer(e), Len(received[e]), written[Peer(e)], Unregistered(e))
ReadOK(e) ==
  \A i \in 1..Len(received[e]) : received[e][i].from = Peer(e) /\ received[e][i].seq = i

CleanOK(e) == InPhase(e) /\ StreamOK(e) /\ NothingMissing(e) /\ ReadOK(e)

Kinds == {"configReq", "configRsp", "data"}
Cid(m) == IF m.type = "configRsp" THEN m.scid ELSE m.dcid

\* What a task does in each state, and what its channel was sent.
CallOK(e) ==
  /\ op[e] = "setup" <=> state[e] = "config"
  /\ op[e] = "connecting" => state[e] = "waitConnectRsp"
  /\ state[e] = "waitConnectRsp" => op[e] \in {"connecting", "ended"}
  /\ op[e] = "disconnecting" => state[e] \in Closing
  /\ state[e] \in Connected => remote[e] # NoCid
  /\ \A i \in 1..Len(inbox[e]) : inbox[e][i].type \in Kinds => Cid(inbox[e][i]) = local[e]

\* The ids on a link are those of channels.
NamedOK(s) ==
  \A i \in 1..Len(link[s]) : link[s][i].type \in Kinds =>
    /\ Cid(link[s][i]) # NoCid
    /\ \E g \in Ends : Host(g) = s /\ local[g] = Cid(link[s][i])

CallInv == \A e \in Ends : CallOK(e)
CleanInv ==
  Clean => (\A e \in Ends : CleanOK(e)) /\ (\A s \in Hosts : NamedOK(s))

LEMMA Concat ==
  ASSUME NEW a \in Seq(Packet), NEW b \in Seq(Packet)
  PROVE  /\ a \o b \in Seq(Packet)
         /\ \A y : Has(a \o b, y) <=> Has(a, y) \/ Has(b, y)
         /\ \A y, z : Before(a \o b, y, z) <=> Before(a, y, z) \/ Before(b, y, z) \/ (Has(a, y) /\ Has(b, z))
<1>1. PICK n \in Nat, k \in Nat : n = Len(a) /\ k = Len(b)
  <2>1. Len(a) \in Nat /\ Len(b) \in Nat
    OBVIOUS
  <2>2. QED
    BY <2>1
<1>2. PICK c \in Seq(Packet) : c = a \o b
  <2>1. a \o b \in Seq(Packet)
    OBVIOUS
  <2>2. QED
    BY <2>1
<1>3. /\ Len(c) = n + k
      /\ \A i \in 1..n : c[i] = a[i] /\ i \in 1..Len(c)
      /\ \A i \in 1..k : c[n + i] = b[i] /\ n + i \in 1..Len(c)
  BY <1>1, <1>2
<1>4. \A i \in 1..Len(c) : \/ i \in 1..n
                           \/ i > n /\ \E j \in 1..k : i = n + j
  <2>1. SUFFICES ASSUME NEW i \in 1..Len(c), i > n PROVE \E j \in 1..k : i = n + j
    BY <1>1, <1>3
  <2>2. i - n \in 1..k /\ i = n + (i - n)
    BY <1>1, <1>3, <2>1
  <2>3. QED
    BY <2>2
<1>5. ASSUME NEW y PROVE Has(c, y) <=> Has(a, y) \/ Has(b, y)
  <2>1. Has(c, y) => Has(a, y) \/ Has(b, y)
    BY <1>1, <1>3, <1>4 DEF Has
  <2>2. Has(a, y) => Has(c, y)
    BY <1>1, <1>3 DEF Has
  <2>3. Has(b, y) => Has(c, y)
    BY <1>1, <1>3 DEF Has
  <2>4. QED
    BY <2>1, <2>2, <2>3
<1>6. ASSUME NEW y, NEW z
      PROVE  Before(c, y, z) <=> Before(a, y, z) \/ Before(b, y, z) \/ (Has(a, y) /\ Has(b, z))
  <2>1. ASSUME Before(c, y, z) PROVE Before(a, y, z) \/ Before(b, y, z) \/ (Has(a, y) /\ Has(b, z))
    <3>1. PICK i \in 1..Len(c), j \in 1..Len(c) : i < j /\ c[i] = y /\ c[j] = z
      BY <2>1 DEF Before
    <3>2. CASE i \in 1..n /\ j \in 1..n
      BY <1>1, <1>3, <3>1, <3>2 DEF Before
    <3>3. CASE i \in 1..n /\ j > n
      <4>1. PICK v \in 1..k : j = n + v
        <5>1. ~(j \in 1..n)
          BY <1>1, <3>3
        <5>2. QED
          BY <1>4, <3>1, <5>1
      <4>2. a[i] = y /\ b[v] = z
        BY <1>1, <1>3, <3>1, <3>3, <4>1
      <4>3. QED
        BY <1>1, <3>3, <4>2 DEF Has
    <3>4. CASE i > n
      <4>1. PICK u \in 1..k : i = n + u
        BY <1>1, <1>4, <3>1, <3>4
      <4>2. PICK v \in 1..k : j = n + v
        BY <1>1, <1>4, <3>1, <3>4
      <4>3. u < v /\ b[u] = y /\ b[v] = z
        BY <1>1, <1>3, <3>1, <4>1, <4>2
      <4>4. QED
        BY <1>1, <4>3 DEF Before
    <3>5. QED
      BY <1>1, <1>4, <3>1, <3>2, <3>3, <3>4
  <2>2. Before(a, y, z) => Before(c, y, z)
    BY <1>1, <1>3 DEF Before
  <2>3. ASSUME Before(b, y, z) PROVE Before(c, y, z)
    <3>1. PICK u \in 1..k, v \in 1..k : u < v /\ b[u] = y /\ b[v] = z
      BY <1>1, <2>3 DEF Before
    <3>2. PICK i, j : i = n + u /\ j = n + v
      OBVIOUS
    <3>3. i < j /\ i \in 1..Len(c) /\ j \in 1..Len(c) /\ c[i] = y /\ c[j] = z
      BY <1>1, <1>3, <3>1, <3>2
    <3>4. QED
      BY <3>3 DEF Before
  <2>4. ASSUME Has(a, y), Has(b, z) PROVE Before(c, y, z)
    <3>1. PICK i \in 1..n, v \in 1..k : a[i] = y /\ b[v] = z
      BY <1>1, <2>4 DEF Has
    <3>2. PICK j : j = n + v
      OBVIOUS
    <3>3. i < j /\ i \in 1..Len(c) /\ j \in 1..Len(c) /\ c[i] = y /\ c[j] = z
      BY <1>1, <1>3, <3>1, <3>2
    <3>4. QED
      BY <3>3 DEF Before
  <2>5. QED
    BY <2>1, <2>2, <2>3, <2>4
<1>7. QED
  BY <1>2, <1>5, <1>6

LEMMA BothThere ==
  \A q, y, z : Before(q, y, z) => Has(q, y) /\ Has(q, z)
BY DEF Has, Before

LEMMA NothingThere ==
  \A y, z : ~Has(<<>>, y) /\ ~Before(<<>>, y, z)
BY DEF Has, Before

LEMMA Single ==
  ASSUME NEW x \in Packet
  PROVE  /\ <<x>> \in Seq(Packet)
         /\ \A y : Has(<<x>>, y) <=> y = x
         /\ \A y, z : ~Before(<<x>>, y, z)
<1>1. PICK q \in Seq(Packet) : q = <<x>> /\ Len(q) = 1 /\ q[1] = x
  BY OnePacket
<1>2. QED
  BY <1>1 DEF Has, Before

LEMMA Appended ==
  ASSUME NEW q \in Seq(Packet), NEW x \in Packet
  PROVE  /\ Append(q, x) \in Seq(Packet)
         /\ \A y : Has(Append(q, x), y) <=> Has(q, y) \/ y = x
         /\ \A y, z : Before(Append(q, x), y, z) <=> Before(q, y, z) \/ (Has(q, y) /\ z = x)
<1>1. Append(q, x) = q \o <<x>>
  OBVIOUS
<1>2. PICK t \in Seq(Packet) : t = <<x>> /\ (\A y : Has(t, y) <=> y = x) /\ (\A y, z : ~Before(t, y, z))
  BY Single
<1>3. /\ q \o t \in Seq(Packet)
      /\ \A y : Has(q \o t, y) <=> Has(q, y) \/ Has(t, y)
      /\ \A y, z : Before(q \o t, y, z) <=> Before(q, y, z) \/ Before(t, y, z) \/ (Has(q, y) /\ Has(t, z))
  BY Concat
<1>4. QED
  BY <1>1, <1>2, <1>3

LEMMA HeadFirst ==
  ASSUME NEW q \in Seq(Packet), q # <<>>, NEW x, x = Head(q)
  PROVE  /\ x \in Packet /\ Tail(q) \in Seq(Packet)
         /\ \A y : Has(q, y) <=> Has(Tail(q), y) \/ y = x
         /\ \A y, z : Before(q, y, z) <=> Before(Tail(q), y, z) \/ (y = x /\ Has(Tail(q), z))
<1>1. PICK t \in Seq(Packet) : t = Tail(q) /\ x \in Packet
  BY HeadTailProperties
<1>2. q = <<x>> \o t
  BY <1>1
<1>3. PICK h \in Seq(Packet) : h = <<x>> /\ (\A y : Has(h, y) <=> y = x) /\ (\A y, z : ~Before(h, y, z))
  BY <1>1, Single
<1>4. /\ \A y : Has(h \o t, y) <=> Has(h, y) \/ Has(t, y)
      /\ \A y, z : Before(h \o t, y, z) <=> Before(h, y, z) \/ Before(t, y, z) \/ (Has(h, y) /\ Has(t, z))
  BY Concat
<1>5. QED
  BY <1>1, <1>2, <1>3, <1>4

-----------------------------------------------------------------------------
(* What becomes of a stream q when it turns into r, as far as T counts. *)
Same(r, q, T) ==
  \A y, z \in T : (Has(r, y) <=> Has(q, y)) /\ (Before(r, y, z) <=> Before(q, y, z))

\* Some of it is not coming any more.
Thinned(r, q, T) ==
  \A y, z \in T : /\ Has(r, y) => Has(q, y)
                  /\ Before(r, y, z) => Before(q, y, z)
                  /\ Has(r, z) /\ Before(q, y, z) /\ ~Before(q, z, z) => Before(r, y, z)

\* Its peer sent x.
Gained(r, q, x, T) ==
  \A y, z \in T : /\ Has(r, y) <=> Has(q, y) \/ y = x
                  /\ Before(r, y, z) <=> Before(q, y, z) \/ (Has(q, y) /\ z = x)

\* The channel took in x.
TookIn(r, q, x, T) ==
  \A y, z \in T : /\ Has(q, y) <=> Has(r, y) \/ y = x
                  /\ Before(q, y, z) <=> Before(r, y, z) \/ (y = x /\ Has(r, z))

\* A state changes before the configuration or ends it.
Moves(st, s1) == s1 = st \/ (st \in Early /\ s1 \in Early) \/ s1 \in Closing

LEMMA CountedFacts ==
  ASSUME NEW c, NEW p
  PROVE  /\ ConfigureRequest(c) \in Counted(c, p) /\ ConfigureResponse(c) \in Counted(c, p)
         /\ \A k \in Nat : Data(c, p, k) \in Counted(c, p)
         /\ ConfigureRequest(c) # ConfigureResponse(c)
         /\ \A k \in Nat : Data(c, p, k) # ConfigureRequest(c) /\ Data(c, p, k) # ConfigureResponse(c)
         /\ \A j, k \in Nat : Data(c, p, j) = Data(c, p, k) => j = k
         /\ \A m \in Counted(c, p) : m.type \in Kinds /\ Cid(m) = c
<1>1. /\ ConfigureRequest(c).type = "configReq" /\ ConfigureRequest(c).dcid = c
      /\ ConfigureResponse(c).type = "configRsp" /\ ConfigureResponse(c).scid = c
  BY DEF ConfigureRequest, ConfigureResponse
<1>2. \A k \in Nat : Data(c, p, k).type = "data" /\ Data(c, p, k).dcid = c /\ Data(c, p, k).seq = k
  BY DEF Data
<1>3. \A m \in Counted(c, p) : m.type \in Kinds /\ Cid(m) = c
  BY <1>1, <1>2 DEF Counted, Kinds, Cid
<1>4. /\ ConfigureRequest(c) # ConfigureResponse(c)
      /\ \A k \in Nat : Data(c, p, k) # ConfigureRequest(c) /\ Data(c, p, k) # ConfigureResponse(c)
      /\ \A j, k \in Nat : Data(c, p, j) = Data(c, p, k) => j = k
  BY <1>1, <1>2
<1>5. QED
  BY <1>3, <1>4 DEF Counted

LEMMA SameIsThinned ==
  ASSUME NEW r, NEW q, NEW T, Same(r, q, T)
  PROVE  Thinned(r, q, T)
BY DEF Same, Thinned

\* Nothing in the stream counts.
LEMMA NothingComing ==
  ASSUME NEW q, NEW c, NEW p, NEW st, NEW ps, NEW n, NEW w, \A y \in Counted(c, p) : ~Has(q, y)
  PROVE  Orderly(q, c, p, st, ps, n, w)
BY CountedFacts DEF Orderly

LEMMA OrderlyQuiet ==
  ASSUME NEW q, NEW r, NEW c, NEW p, NEW st, NEW s1, NEW ps, NEW t1, NEW n \in Nat, NEW w,
         Orderly(q, c, p, st, ps, n, w), Thinned(r, q, Counted(c, p)),
         Moves(st, s1), Moves(ps, t1), s1 \in Closing => r = <<>>
  PROVE  Orderly(r, c, p, s1, t1, n, w)
<1>1. CASE s1 \in Closing
  BY <1>1, NothingThere, NothingComing
<1>2. CASE s1 \notin Closing
  <2>1. /\ s1 = st \/ (st \in Early /\ s1 \in Early)
        /\ t1 = ps \/ (ps \in Early /\ t1 \in Early) \/ t1 \in Closing
    BY <1>2 DEF Moves
  <2>2. PICK rq, rs : rq = ConfigureRequest(c) /\ rs = ConfigureResponse(c)
    OBVIOUS
  <2>3. rq \in Counted(c, p) /\ rs \in Counted(c, p) /\ \A k \in Nat : Data(c, p, k) \in Counted(c, p)
    BY <2>2, CountedFacts
  <2>4. Has(r, rq) => s1 \notin {"configRsp", "open"} /\ t1 \in Asked /\ ~Before(r, rq, rq)
    <3>1. ps \in Asked => t1 \in Asked
      BY <2>1 DEF Early, Asked, Closing
    <3>2. st \notin {"configRsp", "open"} => s1 \notin {"configRsp", "open"}
      BY <2>1 DEF Early
    <3>3. (Has(r, rq) => Has(q, rq)) /\ (Before(r, rq, rq) => Before(q, rq, rq))
      BY <2>3 DEF Thinned
    <3>4. QED
      BY <2>2, <3>1, <3>2, <3>3 DEF Orderly
  <2>5. Has(r, rs) => s1 \in {"configReqRsp", "configRsp"} /\ t1 \in Answering /\ ~Before(r, rs, rs)
    <3>1. ps \in Answering => t1 \in Answering
      BY <2>1 DEF Early, Answering, Closing
    <3>2. st \in {"configReqRsp", "configRsp"} => s1 = st
      BY <2>1 DEF Early
    <3>3. (Has(r, rs) => Has(q, rs)) /\ (Before(r, rs, rs) => Before(q, rs, rs))
      BY <2>3 DEF Thinned
    <3>4. QED
      BY <2>2, <3>1, <3>2, <3>3 DEF Orderly
  <2>6. ASSUME NEW k \in Nat, Has(r, Data(c, p, k))
        PROVE  /\ n < k /\ k <= w
               /\ s1 # "open" => Before(r, rs, Data(c, p, k))
               /\ \A j \in Nat : n < j /\ j < k => Before(r, Data(c, p, j), Data(c, p, k))
               /\ \A j \in Nat : j <= k => ~Before(r, Data(c, p, k), Data(c, p, j))
    <3>1. PICK d \in Counted(c, p) : d = Data(c, p, k) /\ Has(r, d)
      BY <2>3, <2>6
    <3>2. Has(q, d)
      BY <3>1 DEF Thinned
    <3>3. /\ n < k /\ k <= w
          /\ st # "open" => Before(q, rs, d)
          /\ \A j \in Nat : n < j /\ j < k => Before(q, Data(c, p, j), d)
          /\ \A j \in Nat : j <= k => ~Before(q, d, Data(c, p, j))
      BY <2>2, <3>1, <3>2 DEF Orderly
    <3>4. ~Before(q, d, d)
      BY <3>1, <3>3
    <3>5. \A y \in Counted(c, p) : /\ Before(q, y, d) => Before(r, y, d)
                                   /\ Before(r, d, y) => Before(q, d, y)
      BY <3>1, <3>4 DEF Thinned
    <3>6. s1 # "open" => st # "open"
      BY <2>1 DEF Early
    <3>7. QED
      BY <2>3, <3>1, <3>3, <3>5, <3>6
  <2>7. QED
    BY <2>2, <2>4, <2>5, <2>6 DEF Orderly
<1>3. QED
  BY <1>1, <1>2

\* Its peer has sent its request.
LEMMA OrderlyRequested ==
  ASSUME NEW q, NEW r, NEW c, NEW p, NEW st, NEW ps, NEW t1, NEW n \in Nat, NEW w,
         Orderly(q, c, p, st, ps, n, w), Gained(r, q, ConfigureRequest(c), Counted(c, p)),
         st \notin {"configRsp", "open"}, ps \notin Asked, t1 \in Asked
  PROVE  Orderly(r, c, p, st, t1, n, w)
<1>1. PICK rq, rs : rq = ConfigureRequest(c) /\ rs = ConfigureResponse(c)
  OBVIOUS
<1>2. /\ rq \in Counted(c, p) /\ rs \in Counted(c, p) /\ rq # rs
      /\ \A k \in Nat : Data(c, p, k) \in Counted(c, p) /\ Data(c, p, k) # rq
  BY <1>1, CountedFacts
<1>3. ~Has(q, rq) /\ ~Has(q, rs)
  BY <1>1 DEF Orderly, Asked, Answering
<1>4. ~Before(r, rq, rq) /\ ~Has(r, rs)
  BY <1>1, <1>2, <1>3, BothThere DEF Gained
<1>5. \A k \in Nat : Has(r, Data(c, p, k)) => Has(q, Data(c, p, k))
  BY <1>1, <1>2 DEF Gained
<1>6. \A j, k \in Nat : Before(r, Data(c, p, j), Data(c, p, k)) <=> Before(q, Data(c, p, j), Data(c, p, k))
  BY <1>1, <1>2 DEF Gained
<1>7. \A k \in Nat : Before(q, rs, Data(c, p, k)) => Before(r, rs, Data(c, p, k))
  BY <1>1, <1>2 DEF Gained
<1>8. QED
  BY <1>1, <1>4, <1>5, <1>6, <1>7 DEF Orderly

\* Its peer has sent its response, and no data yet.
LEMMA OrderlyAnswered ==
  ASSUME NEW q, NEW r, NEW c, NEW p, NEW st, NEW ps, NEW t1, NEW n \in Nat,
         Orderly(q, c, p, st, ps, n, 0), Gained(r, q, ConfigureResponse(c), Counted(c, p)),
         st \in {"configReqRsp", "configRsp"}, ps \notin Answering, t1 \in Answering
  PROVE  Orderly(r, c, p, st, t1, n, 0)
<1>1. PICK rq, rs : rq = ConfigureRequest(c) /\ rs = ConfigureResponse(c)
  OBVIOUS
<1>2. /\ rq \in Counted(c, p) /\ rs \in Counted(c, p) /\ rq # rs
      /\ \A k \in Nat : Data(c, p, k) \in Counted(c, p) /\ Data(c, p, k) # rs
  BY <1>1, CountedFacts
<1>3. ~Has(q, rs) /\ \A k \in Nat : ~Has(q, Data(c, p, k))
  BY <1>1 DEF Orderly
<1>4. ~Before(r, rs, rs) /\ \A k \in Nat : ~Has(r, Data(c, p, k))
  BY <1>1, <1>2, <1>3, BothThere DEF Gained
<1>5. (Has(r, rq) => Has(q, rq)) /\ (Before(r, rq, rq) => Before(q, rq, rq))
  BY <1>1, <1>2 DEF Gained
<1>6. t1 \in Asked
  BY DEF Answering, Asked
<1>7. QED
  BY <1>1, <1>4, <1>5, <1>6 DEF Orderly

\* Its peer has written the next packet.
LEMMA OrderlyWritten ==
  ASSUME NEW q, NEW r, NEW c, NEW p, NEW st, NEW ps, NEW n \in Nat, NEW w \in Nat,
         Orderly(q, c, p, st, ps, n, w), Whole(q, c, p, n, w, FALSE),
         Gained(r, q, Data(c, p, w + 1), Counted(c, p)),
         st # "open" => Has(q, ConfigureResponse(c))
  PROVE  Orderly(r, c, p, st, ps, n, w + 1) /\ Whole(r, c, p, n, w + 1, FALSE)
<1>1. PICK rq, rs : rq = ConfigureRequest(c) /\ rs = ConfigureResponse(c)
  OBVIOUS
<1>2. PICK v, x : v \in Nat /\ v = w + 1 /\ x = Data(c, p, v)
  <2>1. w + 1 \in Nat
    OBVIOUS
  <2>2. QED
    BY <2>1
<1>3. /\ rq \in Counted(c, p) /\ rs \in Counted(c, p) /\ rq # rs /\ x \in Counted(c, p)
      /\ \A k \in Nat : Data(c, p, k) \in Counted(c, p) /\ Data(c, p, k) # rq /\ Data(c, p, k) # rs
      /\ \A k \in Nat : Data(c, p, k) = x => k = v
  BY <1>1, <1>2, CountedFacts
<1>4. \A y, z \in Counted(c, p) : /\ Has(r, y) <=> Has(q, y) \/ y = x
                                  /\ Before(r, y, z) <=> Before(q, y, z) \/ (Has(q, y) /\ z = x)
  BY <1>2 DEF Gained
<1>5. n <= w /\ \A k \in Nat : n < k /\ k <= w => Has(q, Data(c, p, k))
  BY DEF Whole
<1>6. Has(r, rq) => st \notin {"configRsp", "open"} /\ ps \in Asked /\ ~Before(r, rq, rq)
  BY <1>1, <1>2, <1>3, <1>4 DEF Orderly
<1>7. Has(r, rs) => st \in {"configReqRsp", "configRsp"} /\ ps \in Answering /\ ~Before(r, rs, rs)
  BY <1>1, <1>2, <1>3, <1>4 DEF Orderly
<1>8. ~Has(q, x) /\ \A y : ~Before(q, x, y)
  <2>1. ~Has(q, x)
    BY <1>2 DEF Orderly
  <2>2. QED
    BY <2>1, BothThere
<1>9. ASSUME NEW k \in Nat, Has(r, Data(c, p, k))
      PROVE  /\ n < k /\ k <= v
             /\ st # "open" => Before(r, rs, Data(c, p, k))
             /\ \A j \in Nat : n < j /\ j < k => Before(r, Data(c, p, j), Data(c, p, k))
             /\ \A j \in Nat : j <= k => ~Before(r, Data(c, p, k), Data(c, p, j))
  <2>1. CASE Has(q, Data(c, p, k))
    <3>1. /\ n < k /\ k <= w
          /\ st # "open" => Before(q, rs, Data(c, p, k))
          /\ \A j \in Nat : n < j /\ j < k => Before(q, Data(c, p, j), Data(c, p, k))
          /\ \A j \in Nat : j <= k => ~Before(q, Data(c, p, k), Data(c, p, j))
      BY <1>1, <2>1 DEF Orderly
    <3>2. \A j \in Nat : j <= k => Data(c, p, j) # x
      BY <1>2, <1>3, <3>1
    <3>3. \A j \in Nat : j <= k => ~Before(r, Data(c, p, k), Data(c, p, j))
      BY <1>3, <1>4, <3>1, <3>2
    <3>4. st # "open" => Before(r, rs, Data(c, p, k))
      BY <1>3, <1>4, <3>1
    <3>5. \A j \in Nat : n < j /\ j < k => Before(r, Data(c, p, j), Data(c, p, k))
      BY <1>3, <1>4, <3>1
    <3>6. n < k /\ k <= v
      BY <1>2, <3>1
    <3>7. QED
      BY <3>3, <3>4, <3>5, <3>6
  <2>2. CASE ~Has(q, Data(c, p, k))
    <3>1. Data(c, p, k) = x /\ k = v
      BY <1>3, <1>4, <1>9, <2>2
    <3>2. n < k /\ k <= v
      BY <1>2, <1>5, <3>1
    <3>3. st # "open" => Before(r, rs, x)
      BY <1>1, <1>3, <1>4
    <3>4. ASSUME NEW j \in Nat, n < j, j < k PROVE Before(r, Data(c, p, j), x)
      <4>1. Has(q, Data(c, p, j))
        BY <1>2, <1>5, <3>1, <3>4
      <4>2. QED
        BY <1>3, <1>4, <4>1
    <3>5. \A j \in Nat : ~Before(r, x, Data(c, p, j))
      BY <1>3, <1>4, <1>8
    <3>6. QED
      BY <3>1, <3>2, <3>3, <3>4, <3>5
  <2>3. QED
    BY <2>1, <2>2
<1>10. Orderly(r, c, p, st, ps, n, v)
  BY <1>1, <1>6, <1>7, <1>9 DEF Orderly
<1>11. Whole(r, c, p, n, v, FALSE)
  <2>1. n <= v
    BY <1>2, <1>5
  <2>2. ASSUME NEW k \in Nat, n < k, k <= v PROVE Has(r, Data(c, p, k))
    <3>1. CASE k = v
      BY <1>2, <1>3, <1>4, <3>1
    <3>2. CASE k # v
      <4>1. k <= w
        BY <1>2, <2>2, <3>2
      <4>2. QED
        BY <1>3, <1>4, <1>5, <2>2, <4>1
    <3>3. QED
      BY <3>1, <3>2
  <2>3. QED
    BY <2>1, <2>2 DEF Whole
<1>12. QED
  BY <1>2, <1>10, <1>11

\* The channel takes in its peer's request.
LEMMA OrderlyTakesRequest ==
  ASSUME NEW q, NEW r, NEW c, NEW p, NEW st, NEW s1, NEW ps, NEW n \in Nat, NEW w,
         Orderly(q, c, p, st, ps, n, w), TookIn(r, q, ConfigureRequest(c), Counted(c, p)),
         s1 = st \/ (st = "configReqRsp" /\ s1 = "configRsp") \/ (st = "configReq" /\ s1 = "open")
  PROVE  /\ st \notin {"configRsp", "open"} /\ ps \in Asked
         /\ Orderly(r, c, p, s1, ps, n, w)
<1>1. PICK rq, rs : rq = ConfigureRequest(c) /\ rs = ConfigureResponse(c)
  OBVIOUS
<1>2. /\ rq \in Counted(c, p) /\ rs \in Counted(c, p) /\ rq # rs
      /\ \A k \in Nat : Data(c, p, k) \in Counted(c, p) /\ Data(c, p, k) # rq
  BY <1>1, CountedFacts
<1>3. \A y, z \in Counted(c, p) : /\ Has(q, y) <=> Has(r, y) \/ y = rq
                                  /\ Before(q, y, z) <=> Before(r, y, z) \/ (y = rq /\ Has(r, z))
  BY <1>1 DEF TookIn
<1>4. st \notin {"configRsp", "open"} /\ ps \in Asked /\ ~Before(q, rq, rq)
  BY <1>1, <1>2, <1>3 DEF Orderly
<1>5. ~Has(r, rq)
  BY <1>2, <1>3, <1>4
<1>6. Has(r, rs) => s1 \in {"configReqRsp", "configRsp"} /\ ps \in Answering /\ ~Before(r, rs, rs)
  <2>1. ASSUME Has(r, rs)
        PROVE  st \in {"configReqRsp", "configRsp"} /\ ps \in Answering /\ ~Before(r, rs, rs)
    BY <1>1, <1>2, <1>3, <2>1 DEF Orderly
  <2>2. QED
    BY <2>1
<1>7. \A k \in Nat : Has(r, Data(c, p, k)) => Has(q, Data(c, p, k))
  BY <1>2, <1>3
<1>8. \A k, j \in Nat : Before(q, Data(c, p, j), Data(c, p, k)) <=> Before(r, Data(c, p, j), Data(c, p, k))
  BY <1>2, <1>3
<1>9. \A k \in Nat : Before(q, rs, Data(c, p, k)) => Before(r, rs, Data(c, p, k))
  BY <1>2, <1>3
<1>10. s1 # "open" => st # "open"
  OBVIOUS
<1>11. ASSUME NEW k \in Nat, Has(r, Data(c, p, k))
       PROVE  /\ n < k /\ k <= w
              /\ s1 # "open" => Before(r, rs, Data(c, p, k))
              /\ \A j \in Nat : n < j /\ j < k => Before(r, Data(c, p, j), Data(c, p, k))
              /\ \A j \in Nat : j <= k => ~Before(r, Data(c, p, k), Data(c, p, j))
  BY <1>1, <1>7, <1>8, <1>9, <1>10, <1>11 DEF Orderly
<1>12. QED
  BY <1>1, <1>4, <1>5, <1>6, <1>11 DEF Orderly

\* The channel takes in its peer's response.
LEMMA OrderlyTakesResponse ==
  ASSUME NEW q, NEW r, NEW c, NEW p, NEW st, NEW s1, NEW ps, NEW n \in Nat, NEW w \in Nat,
         Orderly(q, c, p, st, ps, n, w), TookIn(r, q, ConfigureResponse(c), Counted(c, p)),
         st = "configReqRsp" => s1 = "configReq" /\ w = 0,
         st = "configRsp" => s1 = "open"
  PROVE  /\ st \in {"configReqRsp", "configRsp"} /\ ps \in Answering
         /\ Orderly(r, c, p, s1, ps, n, w)
<1>1. PICK rq, rs : rq = ConfigureRequest(c) /\ rs = ConfigureResponse(c)
  OBVIOUS
<1>2. /\ rq \in Counted(c, p) /\ rs \in Counted(c, p) /\ rq # rs
      /\ \A k \in Nat : Data(c, p, k) \in Counted(c, p) /\ Data(c, p, k) # rs
  BY <1>1, CountedFacts
<1>3. \A y, z \in Counted(c, p) : /\ Has(q, y) <=> Has(r, y) \/ y = rs
                                  /\ Before(q, y, z) <=> Before(r, y, z) \/ (y = rs /\ Has(r, z))
  BY <1>1 DEF TookIn
<1>4. st \in {"configReqRsp", "configRsp"} /\ ps \in Answering /\ ~Before(q, rs, rs)
  BY <1>1, <1>2, <1>3 DEF Orderly
<1>5. ~Has(r, rs)
  BY <1>2, <1>3, <1>4
<1>6. Has(r, rq) => s1 \notin {"configRsp", "open"} /\ ps \in Asked /\ ~Before(r, rq, rq)
  <2>1. ASSUME Has(r, rq)
        PROVE  st \notin {"configRsp", "open"} /\ ps \in Asked /\ ~Before(r, rq, rq)
    BY <1>1, <1>2, <1>3, <2>1 DEF Orderly
  <2>2. QED
    BY <1>4, <2>1
<1>7. \A k \in Nat : Has(r, Data(c, p, k)) => Has(q, Data(c, p, k))
  BY <1>2, <1>3
<1>8. \A k, j \in Nat : Before(q, Data(c, p, j), Data(c, p, k)) <=> Before(r, Data(c, p, j), Data(c, p, k))
  BY <1>2, <1>3
<1>9. ASSUME NEW k \in Nat, Has(r, Data(c, p, k))
      PROVE  /\ n < k /\ k <= w
             /\ s1 # "open" => Before(r, rs, Data(c, p, k))
             /\ \A j \in Nat : n < j /\ j < k => Before(r, Data(c, p, j), Data(c, p, k))
             /\ \A j \in Nat : j <= k => ~Before(r, Data(c, p, k), Data(c, p, j))
  <2>1. /\ n < k /\ k <= w
        /\ \A j \in Nat : n < j /\ j < k => Before(q, Data(c, p, j), Data(c, p, k))
        /\ \A j \in Nat : j <= k => ~Before(q, Data(c, p, k), Data(c, p, j))
    BY <1>7, <1>9 DEF Orderly
  <2>2. s1 = "open"
    BY <1>4, <2>1
  <2>3. QED
    BY <1>8, <2>1, <2>2
<1>10. QED
  BY <1>1, <1>4, <1>5, <1>6, <1>9 DEF Orderly

\* The channel takes in a packet: it is the next, and the channel is open.
LEMMA OrderlyTakesData ==
  ASSUME NEW q, NEW r, NEW c, NEW p, NEW st, NEW ps, NEW n \in Nat, NEW w \in Nat, NEW v \in Nat,
         Orderly(q, c, p, st, ps, n, w), TookIn(r, q, Data(c, p, v), Counted(c, p))
  PROVE  /\ st = "open" /\ v = n + 1 /\ v <= w
         /\ Orderly(r, c, p, st, ps, v, w)
         /\ \A lost : Whole(q, c, p, n, w, lost) => Whole(r, c, p, v, w, lost)
<1>1. PICK rq, rs, x : rq = ConfigureRequest(c) /\ rs = ConfigureResponse(c) /\ x = Data(c, p, v)
  OBVIOUS
<1>2. /\ rq \in Counted(c, p) /\ rs \in Counted(c, p) /\ x \in Counted(c, p) /\ x # rq /\ x # rs
      /\ \A k \in Nat : Data(c, p, k) \in Counted(c, p)
      /\ \A k \in Nat : Data(c, p, k) = x => k = v
  BY <1>1, CountedFacts
<1>3. \A y, z \in Counted(c, p) : /\ Has(q, y) <=> Has(r, y) \/ y = x
                                  /\ Before(q, y, z) <=> Before(r, y, z) \/ (y = x /\ Has(r, z))
  BY <1>1 DEF TookIn
<1>4. /\ n < v /\ v <= w
      /\ st # "open" => Before(q, rs, x)
      /\ \A j \in Nat : n < j /\ j < v => Before(q, Data(c, p, j), x)
      /\ \A j \in Nat : j <= v => ~Before(q, x, Data(c, p, j))
  BY <1>1, <1>2, <1>3 DEF Orderly
<1>5. ~Has(r, x)
  <2>1. ~Before(q, x, x)
    BY <1>1, <1>4
  <2>2. QED
    BY <1>2, <1>3, <2>1
<1>6. \A y \in Counted(c, p) : Before(q, y, x) => y = x
  BY <1>2, <1>3, <1>5, BothThere
<1>7. st = "open"
  BY <1>2, <1>4, <1>6
<1>8. v = n + 1
  <2>1. CASE v > n + 1
    <3>1. PICK j \in Nat : j = n + 1
      OBVIOUS
    <3>2. Before(q, Data(c, p, j), x) /\ j # v
      BY <1>4, <2>1, <3>1
    <3>3. QED
      BY <1>2, <1>6, <3>2
  <2>2. QED
    BY <1>4, <2>1
<1>9. Has(r, rq) => st \notin {"configRsp", "open"} /\ ps \in Asked /\ ~Before(r, rq, rq)
  BY <1>1, <1>2, <1>3 DEF Orderly
<1>10. Has(r, rs) => st \in {"configReqRsp", "configRsp"} /\ ps \in Answering /\ ~Before(r, rs, rs)
  BY <1>1, <1>2, <1>3 DEF Orderly
<1>11. ASSUME NEW k \in Nat, Has(r, Data(c, p, k))
       PROVE  /\ v < k /\ k <= w
              /\ \A j \in Nat : v < j /\ j < k => Before(r, Data(c, p, j), Data(c, p, k))
              /\ \A j \in Nat : j <= k => ~Before(r, Data(c, p, k), Data(c, p, j))
  <2>1. Has(q, Data(c, p, k)) /\ Data(c, p, k) # x
    BY <1>2, <1>3, <1>5, <1>11
  <2>2. /\ n < k /\ k <= w
        /\ \A j \in Nat : n < j /\ j < k => Before(q, Data(c, p, j), Data(c, p, k))
        /\ \A j \in Nat : j <= k => ~Before(q, Data(c, p, k), Data(c, p, j))
    BY <2>1 DEF Orderly
  <2>3. k # v
    BY <1>1, <2>1
  <2>4. v < k
    BY <1>8, <2>2, <2>3
  <2>5. ASSUME NEW j \in Nat, v < j, j < k PROVE Before(r, Data(c, p, j), Data(c, p, k))
    <3>1. Data(c, p, j) # x
      BY <1>2, <2>5
    <3>2. Before(q, Data(c, p, j), Data(c, p, k))
      BY <1>4, <2>2, <2>5
    <3>3. QED
      BY <1>2, <1>3, <3>1, <3>2
  <2>6. \A j \in Nat : j <= k => ~Before(r, Data(c, p, k), Data(c, p, j))
    BY <1>2, <1>3, <2>2
  <2>7. QED
    BY <2>2, <2>4, <2>5, <2>6
<1>12. Orderly(r, c, p, st, ps, v, w)
  BY <1>1, <1>7, <1>9, <1>10, <1>11 DEF Orderly
<1>13. ASSUME NEW lost, Whole(q, c, p, n, w, lost) PROVE Whole(r, c, p, v, w, lost)
  <2>1. ASSUME ~lost, NEW k \in Nat, v < k, k <= w PROVE Has(r, Data(c, p, k))
    <3>1. n < k /\ Data(c, p, k) # x
      BY <1>2, <1>4, <2>1
    <3>2. Has(q, Data(c, p, k))
      BY <1>13, <2>1, <3>1 DEF Whole
    <3>3. QED
      BY <1>2, <1>3, <3>1, <3>2
  <2>2. QED
    BY <1>4, <2>1 DEF Whole
<1>14. QED
  BY <1>4, <1>7, <1>8, <1>12, <1>13

-----------------------------------------------------------------------------
(* A step in which an end neither configures nor moves data. *)
Quiet(e) ==
  /\ local'[e] = local[e] /\ Moves(state[e], state'[e])
  /\ written'[e] = written[e] /\ received'[e] = received[e]
  /\ Live(e)' =>
       /\ Live(e)
       /\ Thinned(Stream(e)', Stream(e), Counted(local[e], Peer(e)))
       /\ \/ Unregistered(e)'
          \/ /\ ~Unregistered(e)
             /\ \A y \in Counted(local[e], Peer(e)) : Has(Stream(e), y) => Has(Stream(e)', y)

\* A step that makes its channel; no packet for it is on its way.
Begins(e) ==
  /\ state[e] = "none" /\ Moves(state[e], state'[e])
  /\ written'[e] = written[e] /\ received[e] = <<>> /\ received'[e] = <<>>
  /\ Live(e)' => \A y \in Counted(local'[e], Peer(e)) : ~Has(Stream(e)', y)

LEMMA AgreeQuiet ==
  ASSUME NEW st, NEW s1, NEW ps, NEW t1, NEW w, NEW told \in BOOLEAN, NEW told1 \in BOOLEAN,
         Agree(st, ps, w, told), Moves(st, s1), Moves(ps, t1),
         s1 \notin Closing /\ t1 = ps /\ t1 \in {"configReqRsp", "configRsp"} /\ told => told1
  PROVE  Agree(s1, t1, w, told1)
<1>1. (ps \in Asked => t1 \in Asked) /\ (ps \in Answering => t1 \in Answering)
  BY DEF Moves, Early, Asked, Answering, Closing
<1>2. s1 # "sendConfig"
  BY DEF Moves, Early, Closing, Agree
<1>3. s1 \in {"configReq", "configRsp", "open"} => s1 = st /\ s1 \notin Closing
  BY DEF Moves, Early, Closing
<1>4. t1 \in {"configReqRsp", "configRsp"} => t1 = ps
  BY DEF Moves, Early, Closing
<1>5. st \in {"open"} \cup Closing => s1 \in {"open"} \cup Closing
  BY DEF Moves, Early, Closing
<1>6. s1 \in {"configReq", "open"} => t1 \in Answering
  BY <1>1, <1>3 DEF Agree
<1>7. s1 \in {"configRsp", "open"} => t1 \in Asked /\ (t1 \in {"configReqRsp", "configRsp"} => told1)
  BY <1>1, <1>3, <1>4 DEF Agree
<1>8. w > 0 => s1 \in {"open"} \cup Closing /\ t1 \in Answering
  BY <1>1, <1>5 DEF Agree
<1>9. QED
  BY <1>2, <1>6, <1>7, <1>8 DEF Agree

\* A channel half-way through its configuration is alive.
LEMMA HalfWayLives ==
  ASSUME EndInv, NEW e \in Ends, state[e] \in Connected
  PROVE  Live(e)
BY DEF EndInv, EndOK, Live, Connected, Configuring, Closing

LEMMA QuietKeeps ==
  ASSUME TypeOK, EndInv', NEW e \in Ends, CleanOK(e), CleanOK(Peer(e)),
         Quiet(e) \/ Begins(e), Quiet(Peer(e)) \/ Begins(Peer(e))
  PROVE  CleanOK(e)'
<1>1. PICK p \in Ends : p = Peer(e) /\ Peer(p) = e
  BY EndFacts
<1>2. /\ Agree(state[e], state[p], written[e], Told(p))
      /\ Agree(state[p], state[e], written[p], Told(e))
      /\ Orderly(Stream(e), local[e], p, state[e], state[p], Len(received[e]), written[p])
      /\ Live(e) => Whole(Stream(e), local[e], p, Len(received[e]), written[p], Unregistered(e))
      /\ \A i \in 1..Len(received[e]) : received[e][i].from = p /\ received[e][i].seq = i
  BY <1>1 DEF CleanOK, InPhase, StreamOK, NothingMissing, ReadOK
<1>3. /\ Moves(state[e], state'[e]) /\ Moves(state[p], state'[p])
      /\ written'[e] = written[e] /\ written'[p] = written[p] /\ received'[e] = received[e]
  BY <1>1 DEF Quiet, Begins
<1>4. written[p] \in Nat /\ Len(received[e]) \in Nat
  <2>1. received[e] \in Seq(Packet) /\ written[p] \in Nat
    BY DEF TypeOK
  <2>2. QED
    BY <2>1
<1>5. Agree(state'[e], state'[p], written[e], Told(p)')
  <2>1. Told(p) \in BOOLEAN /\ Told(p)' \in BOOLEAN
    BY DEF Told
  <2>2. ASSUME state'[p] = state[p], state'[p] \in {"configReqRsp", "configRsp"}, Told(p) PROVE Told(p)'
    <3>1. Live(p)'
      BY <2>2 DEF EndInv, EndOK, Live, Closing
    <3>2. Quiet(p)
      BY <1>1, <2>2 DEF Begins
    <3>3. /\ local'[p] = local[p]
          /\ \/ Unregistered(p)'
             \/ /\ ~Unregistered(p)
                /\ \A y \in Counted(local[p], Peer(p)) : Has(Stream(p), y) => Has(Stream(p)', y)
      BY <3>1, <3>2 DEF Quiet
    <3>4. ConfigureResponse(local[p]) \in Counted(local[p], Peer(p))
      BY CountedFacts
    <3>5. QED
      BY <2>2, <3>3, <3>4 DEF Told
  <2>3. QED
    BY <1>2, <1>3, <2>1, <2>2, AgreeQuiet
<1>6. Orderly(Stream(e)', local'[e], p, state'[e], state'[p], Len(received[e]), written[p])
  <2>1. ~Live(e)' => Stream(e)' = <<>>
    BY DEF Stream
  <2>2. CASE Begins(e)
    <3>1. \A y \in Counted(local'[e], p) : ~Has(Stream(e)', y)
      BY <1>1, <2>1, <2>2, NothingThere DEF Begins
    <3>2. QED
      BY <3>1, NothingComing
  <2>3. CASE Quiet(e)
    <3>1. Thinned(Stream(e)', Stream(e), Counted(local[e], p))
      <4>1. CASE Live(e)'
        BY <1>1, <2>3, <4>1 DEF Quiet
      <4>2. CASE ~Live(e)'
        BY <2>1, <4>2, NothingThere DEF Thinned
      <4>3. QED
        BY <4>1, <4>2
    <3>2. state'[e] \in Closing => Stream(e)' = <<>>
      BY <2>1 DEF Live
    <3>3. local'[e] = local[e]
      BY <2>3 DEF Quiet
    <3>4. QED
      BY <1>2, <1>3, <1>4, <3>1, <3>2, <3>3, OrderlyQuiet
  <2>4. QED
    BY <2>2, <2>3
<1>7. Live(e)' => Whole(Stream(e)', local'[e], p, Len(received[e]), written[p], Unregistered(e)')
  <2>1. CASE Begins(e)
    <3>1. Len(received[e]) = 0
      BY <2>1 DEF Begins
    <3>2. written[p] = 0
      BY <1>2, <1>4, <2>1 DEF Begins, Agree, Answering, Closing
    <3>3. QED
      BY <3>1, <3>2 DEF Whole
  <2>2. ASSUME Quiet(e), Live(e)'
        PROVE  Whole(Stream(e)', local'[e], p, Len(received[e]), written[p], Unregistered(e)')
    <3>1. /\ local'[e] = local[e] /\ Live(e)
          /\ \/ Unregistered(e)'
             \/ ~Unregistered(e) /\ \A y \in Counted(local[e], p) : Has(Stream(e), y) => Has(Stream(e)', y)
      BY <1>1, <2>2 DEF Quiet
    <3>2. \A j \in Nat : Data(local[e], p, j) \in Counted(local[e], p)
      BY CountedFacts
    <3>3. QED
      BY <1>2, <3>1, <3>2 DEF Whole
  <2>3. QED
    BY <2>1, <2>2
<1>8. QED
  BY <1>1, <1>2, <1>3, <1>5, <1>6, <1>7 DEF CleanOK, InPhase, StreamOK, NothingMissing, ReadOK

-----------------------------------------------------------------------------
(* A step of the task of e that sends msgs. *)
Talk(e, msgs) ==
  /\ local' = local /\ table' = table /\ reconfigures' = reconfigures /\ Others(e)
  /\ msgs \in Seq(Packet) /\ Send(Host(e), msgs)
  /\ \A i \in 1..Len(msgs) : msgs[i].type \in Kinds => Cid(msgs[i]) = remote[e] /\ remote[e] # NoCid

LEMMA StreamIs ==
  ASSUME TypeOK, NEW e \in Ends
  PROVE  Stream(e) \in Seq(Packet) /\ inbox[e] \in Seq(Packet) /\ link[Host(e)] \in Seq(Packet)
<1>1. inbox[e] \in Seq(Packet) /\ link[Host(e)] \in Seq(Packet)
  BY EndFacts DEF TypeOK
<1>2. inbox[e] \o link[Host(e)] \in Seq(Packet)
  BY <1>1, Concat
<1>3. QED
  BY <1>1, <1>2 DEF Stream

LEMMA TalkStreams ==
  ASSUME TypeOK, NEW e \in Ends, NEW msgs, Talk(e, msgs), NEW g \in Ends, g # e
  PROVE  /\ (Live(g)' <=> Live(g)) /\ (Unregistered(g)' <=> Unregistered(g)) /\ local'[g] = local[g]
         /\ Stream(g)' = IF Host(g) # Host(e) /\ Live(g) /\ ~Unregistered(g) THEN Stream(g) \o msgs ELSE Stream(g)
<1>1. /\ local' = local /\ table' = table /\ msgs \in Seq(Packet) /\ Send(Host(e), msgs)
      /\ state'[g] = state[g] /\ op'[g] = op[g] /\ inbox'[g] = inbox[g]
  BY DEF Talk, Others
<1>2. PICK h \in Hosts, s \in Hosts : h = Host(e) /\ s = Host(g)
  BY EndFacts
<1>3. PICK o \in Hosts : o = Other(h) /\ o # h /\ \A t \in Hosts : t = h \/ t = o
  BY HostFacts
<1>4. link'[o] = link[o] \o msgs /\ link'[h] = link[h]
  BY <1>1, <1>2, <1>3, SendFacts
<1>5. (Live(g)' <=> Live(g)) /\ (Unregistered(g)' <=> Unregistered(g)) /\ local'[g] = local[g]
  BY <1>1 DEF Live, Unregistered
<1>6. inbox[g] \in Seq(Packet) /\ link[s] \in Seq(Packet)
  BY <1>2, StreamIs
<1>7. Stream(g)' = IF ~Live(g) THEN <<>> ELSE IF Unregistered(g) THEN inbox[g] ELSE inbox[g] \o link'[s]
  BY <1>1, <1>2, <1>5 DEF Stream
<1>8. CASE s = h
  <2>1. Host(g) = Host(e) /\ link'[s] = link[s]
    BY <1>2, <1>4, <1>8
  <2>2. Stream(g)' = Stream(g)
    BY <1>2, <1>7, <2>1 DEF Stream
  <2>3. QED
    BY <1>5, <2>1, <2>2
<1>9. CASE s = o
  <2>1. PICK a \in Seq(Packet), b \in Seq(Packet), c \in Seq(Packet) : a = inbox[g] /\ b = link[s] /\ c = msgs
    BY <1>1, <1>6
  <2>2. a \o (b \o c) = (a \o b) \o c
    BY ConcatAssociative
  <2>3. Host(g) # Host(e) /\ link'[s] = b \o c
    BY <1>2, <1>3, <1>4, <1>9, <2>1
  <2>4. Stream(g) = IF ~Live(g) THEN <<>> ELSE IF Unregistered(g) THEN a ELSE a \o b
    BY <1>2, <2>1 DEF Stream
  <2>5. Stream(g)' = IF ~Live(g) THEN <<>> ELSE IF Unregistered(g) THEN a ELSE (a \o b) \o c
    BY <1>7, <2>1, <2>2, <2>3
  <2>6. QED
    BY <1>5, <2>1, <2>3, <2>4, <2>5
<1>10. QED
  BY <1>3, <1>8, <1>9

\* As long as no id is handed out again, a settled remote id is the peer's.
LEMMA RemoteIsPeers ==
  ASSUME RemoteInv, EndInv, IdsOnce, NEW e \in Ends, remote[e] # NoCid
  PROVE  /\ remote[e] = local[Peer(e)]
         /\ \A g \in Ends : Host(g) # Host(e) /\ local[g] = remote[e] => g = Peer(e)
<1>1. RemoteOK(e) /\ EndOK(e)
  BY DEF RemoteInv, EndInv
<1>2. local[e] # NoCid
  BY <1>1 DEF EndOK, Settled
<1>3. remote[e] = local[Peer(e)]
  BY <1>1, <1>2 DEF RemoteOK, IdsOnce
<1>4. ASSUME NEW g \in Ends, Host(g) # Host(e), local[g] = remote[e] PROVE g = Peer(e)
  <2>1. Peer(e) \in Ends /\ Host(Peer(e)) = Host(g)
    BY <1>4, EndFacts, HostFacts
  <2>2. QED
    BY <1>3, <1>4, <2>1 DEF IdsOnce
<1>5. QED
  BY <1>3, <1>4

\* A packet that counts for g, sent by an end, is for its peer.
LEMMA CountedIsPeers ==
  ASSUME RemoteInv, EndInv, IdsOnce, NEW e \in Ends, NEW msgs, Talk(e, msgs),
         NEW g \in Ends, Host(g) # Host(e), NEW y \in Counted(local[g], Peer(g)), Has(msgs, y)
  PROVE  g = Peer(e)
<1>1. PICK i \in 1..Len(msgs) : msgs[i] = y
  BY DEF Has
<1>2. y.type \in Kinds /\ Cid(y) = local[g]
  BY CountedFacts
<1>3. local[g] = remote[e] /\ remote[e] # NoCid
  BY <1>1, <1>2 DEF Talk
<1>4. QED
  BY <1>3, RemoteIsPeers

LEMMA Bystander ==
  ASSUME TypeOK, RemoteInv, EndInv, IdsOnce, NEW e \in Ends, NEW msgs, Talk(e, msgs), NEW g \in Ends, g # e,
         g = Peer(e) => \A i \in 1..Len(msgs) : msgs[i].type \notin Kinds
  PROVE  Quiet(g)
<1>1. /\ (Live(g)' <=> Live(g)) /\ (Unregistered(g)' <=> Unregistered(g)) /\ local'[g] = local[g]
      /\ Stream(g)' = IF Host(g) # Host(e) /\ Live(g) /\ ~Unregistered(g) THEN Stream(g) \o msgs ELSE Stream(g)
  BY TalkStreams
<1>2. state'[g] = state[g] /\ written'[g] = written[g] /\ received'[g] = received[g] /\ msgs \in Seq(Packet)
  BY DEF Talk, Others
<1>3. Host(g) # Host(e) => \A y \in Counted(local[g], Peer(g)) : ~Has(msgs, y)
  <2>1. SUFFICES ASSUME Host(g) # Host(e), NEW y \in Counted(local[g], Peer(g)), Has(msgs, y) PROVE FALSE
    OBVIOUS
  <2>2. g = Peer(e)
    BY <2>1, CountedIsPeers
  <2>3. y.type \in Kinds
    BY CountedFacts
  <2>4. QED
    BY <2>1, <2>2, <2>3 DEF Has
<1>4. Same(Stream(g)', Stream(g), Counted(local[g], Peer(g)))
  <2>1. CASE Stream(g)' = Stream(g)
    BY <2>1 DEF Same
  <2>2. CASE Stream(g)' = Stream(g) \o msgs /\ Host(g) # Host(e)
    <3>1. PICK q \in Seq(Packet) : q = Stream(g)
      BY StreamIs
    <3>2. /\ \A y : Has(q \o msgs, y) <=> Has(q, y) \/ Has(msgs, y)
          /\ \A y, z : Before(q \o msgs, y, z) <=> Before(q, y, z) \/ Before(msgs, y, z) \/ (Has(q, y) /\ Has(msgs, z))
      BY <1>2, Concat
    <3>3. QED
      BY <1>3, <2>2, <3>1, <3>2, BothThere DEF Same
  <2>3. QED
    BY <1>1, <2>1, <2>2
<1>5. Thinned(Stream(g)', Stream(g), Counted(local[g], Peer(g)))
  BY <1>4, SameIsThinned
<1>6. \A y \in Counted(local[g], Peer(g)) : Has(Stream(g), y) => Has(Stream(g)', y)
  BY <1>4 DEF Same
<1>7. QED
  BY <1>1, <1>2, <1>5, <1>6 DEF Quiet, Moves

LEMMA NamedGoesOn ==
  ASSUME TypeOK, EndInv, RemoteInv, IdsOnce, NEW e \in Ends, NEW msgs, Talk(e, msgs), \A s \in Hosts : NamedOK(s)
  PROVE  \A s \in Hosts : NamedOK(s)'
<1>1. local' = local /\ msgs \in Seq(Packet) /\ Send(Host(e), msgs)
  BY DEF Talk
<1>2. PICK h \in Hosts : h = Host(e)
  BY EndFacts
<1>3. PICK o \in Hosts : o = Other(h) /\ o # h /\ \A t \in Hosts : t = h \/ t = o
  BY HostFacts
<1>4. link'[o] = link[o] \o msgs /\ link'[h] = link[h]
  BY <1>1, <1>2, <1>3, SendFacts
<1>5. NamedOK(h)'
  BY <1>1, <1>4 DEF NamedOK
<1>6. ASSUME NEW i \in 1..Len(link'[o]), link'[o][i].type \in Kinds
      PROVE  /\ Cid(link'[o][i]) # NoCid
             /\ \E g \in Ends : Host(g) = o /\ local[g] = Cid(link'[o][i])
  <2>1. PICK q \in Seq(Packet), r \in Seq(Packet) : q = link[o] /\ r = msgs
    BY <1>1 DEF TypeOK
  <2>2. PICK m : m = link'[o][i]
    OBVIOUS
  <2>3. Has(q \o r, m)
    BY <1>4, <2>1, <2>2 DEF Has
  <2>4. Has(q, m) \/ Has(r, m)
    BY <2>3, Concat
  <2>5. CASE Has(q, m)
    <3>1. PICK j \in 1..Len(q) : q[j] = m
      BY <2>5 DEF Has
    <3>2. NamedOK(o)
      OBVIOUS
    <3>3. QED
      BY <1>6, <2>1, <2>2, <3>1, <3>2 DEF NamedOK
  <2>6. CASE Has(r, m)
    <3>1. Cid(m) = remote[e] /\ remote[e] # NoCid
      BY <1>6, <2>1, <2>2, <2>6 DEF Has, Talk
    <3>2. remote[e] = local[Peer(e)] /\ Peer(e) \in Ends /\ Host(Peer(e)) = o
      BY <1>2, <1>3, <3>1, RemoteIsPeers, EndFacts
    <3>3. QED
      BY <2>2, <3>1, <3>2
  <2>7. QED
    BY <2>4, <2>5, <2>6
<1>7. NamedOK(o)'
  BY <1>1, <1>6 DEF NamedOK
<1>8. QED
  BY <1>3, <1>5, <1>7

\* What is left to show for a step of a task.
LEMMA TalkIsClean ==
  ASSUME Invs, Clean, CleanInv, EndInv', NEW e \in Ends, NEW msgs, Talk(e, msgs),
         CleanOK(e)', CleanOK(Peer(e))'
  PROVE  (\A g \in Ends : CleanOK(g)') /\ (\A s \in Hosts : NamedOK(s)')
<1>1. /\ TypeOK /\ RemoteInv /\ EndInv /\ IdsOnce
      /\ \A g \in Ends : CleanOK(g)
      /\ \A s \in Hosts : NamedOK(s)
  BY DEF Invs, Clean, CleanInv
<1>2. ASSUME NEW g \in Ends, g # e, g # Peer(e) PROVE CleanOK(g)'
  <2>1. Peer(g) \in Ends /\ Peer(Peer(g)) = g
    BY EndFacts
  <2>2. Peer(g) # e /\ Peer(g) # Peer(e)
    BY <1>2, <2>1, EndFacts
  <2>3. Quiet(g) /\ Quiet(Peer(g))
    BY <1>1, <1>2, <2>1, <2>2, Bystander
  <2>4. QED
    BY <1>1, <2>1, <2>3, QuietKeeps
<1>3. QED
  BY <1>1, <1>2, NamedGoesOn

LEMMA QuietTalkIsClean ==
  ASSUME Invs, Clean, CleanInv, EndInv', NEW e \in Ends, NEW msgs, Talk(e, msgs), Quiet(e),
         \A i \in 1..Len(msgs) : msgs[i].type \notin Kinds
  PROVE  (\A g \in Ends : CleanOK(g)') /\ (\A s \in Hosts : NamedOK(s)')
<1>1. /\ TypeOK /\ RemoteInv /\ EndInv /\ IdsOnce
      /\ \A g \in Ends : CleanOK(g)
  BY DEF Invs, Clean, CleanInv
<1>2. Peer(e) \in Ends /\ Peer(e) # e /\ Peer(Peer(e)) = e
  BY EndFacts
<1>3. Quiet(Peer(e))
  BY <1>1, <1>2, Bystander
<1>4. CleanOK(e)' /\ CleanOK(Peer(e))'
  BY <1>1, <1>2, <1>3, QuietKeeps
<1>5. QED
  BY <1>4, TalkIsClean

-----------------------------------------------------------------------------
(* What the tasks do in each state. *)
LEMMA ReactionCases ==
  ASSUME NEW st \in States \ {"none", "idle"}, NEW m \in Packet, NEW s1, s1 = Reaction(st, m)
  PROVE  \/ s1 = st
         \/ m.type = "connRsp" /\ st = "waitConnectRsp" /\ s1 = "config" /\ m.success
         \/ s1 = "disconnected" /\ m.type \notin Kinds
         \/ /\ m.type = "configReq"
            /\ \/ st = "configReqRsp" /\ s1 = "configRsp"
               \/ st = "configReq" /\ s1 = "open"
               \/ st \in {"config", "open"} /\ s1 = "sendConfig"
         \/ /\ m.type = "configRsp"
            /\ \/ st = "configReqRsp" /\ s1 = "configReq"
               \/ st = "configRsp" /\ s1 = "open"
<1>1. /\ DOMAIN AfterConfigReq = {"config", "configReqRsp", "configReq", "open"}
      /\ AfterConfigReq["config"] = "sendConfig" /\ AfterConfigReq["configReqRsp"] = "configRsp"
      /\ AfterConfigReq["configReq"] = "open" /\ AfterConfigReq["open"] = "sendConfig"
  BY DEF AfterConfigReq
<1>2. /\ DOMAIN AfterConfigRsp = {"configReqRsp", "configRsp"}
      /\ AfterConfigRsp["configReqRsp"] = "configReq" /\ AfterConfigRsp["configRsp"] = "open"
  BY DEF AfterConfigRsp
<1>3. CASE m.type = "connRsp"
  <2>1. s1 = IF st = "waitConnectRsp" THEN (IF m.success THEN "config" ELSE "disconnected") ELSE st
    BY <1>3 DEF Reaction
  <2>2. QED
    BY <1>3, <2>1 DEF Kinds
<1>4. CASE m.type = "configReq"
  <2>1. s1 = IF st \in DOMAIN AfterConfigReq THEN AfterConfigReq[st] ELSE st
    BY <1>4 DEF Reaction
  <2>2. QED
    BY <1>1, <1>4, <2>1
<1>5. CASE m.type = "configRsp"
  <2>1. s1 = IF st \in DOMAIN AfterConfigRsp THEN AfterConfigRsp[st] ELSE st
    BY <1>5 DEF Reaction
  <2>2. QED
    BY <1>2, <1>5, <2>1
<1>6. CASE m.type \in {"discReq", "discRsp"}
  <2>1. s1 \in {st, "disconnected"}
    BY <1>6 DEF Reaction
  <2>2. QED
    BY <1>6, <2>1 DEF Kinds
<1>7. CASE m.type \in {"connReq", "data"}
  BY <1>7 DEF Reaction
<1>8. QED
  BY <1>3, <1>4, <1>5, <1>6, <1>7, PacketFacts

Duty(e) ==
  /\ op[e] = "setup" <=> state[e] = "config"
  /\ op[e] = "connecting" => state[e] = "waitConnectRsp"
  /\ state[e] = "waitConnectRsp" => op[e] \in {"connecting", "ended"}
  /\ op[e] = "disconnecting" => state[e] \in Closing
  /\ state[e] \in Connected => remote[e] # NoCid

LEMMA CallsElsewhere ==
  ASSUME NEW e \in Ends, Others(e), CallInv, CallOK(e)', \A g \in Ends : g # e => local'[g] = local[g]
  PROVE  CallInv'
<1>1. ASSUME NEW g \in Ends, g # e PROVE CallOK(g)'
  <2>1. CallOK(g)
    BY DEF CallInv
  <2>2. QED
    BY <1>1, <2>1 DEF CallOK, Others
<1>2. QED
  BY <1>1 DEF CallInv

LEMMA CallOfTask ==
  ASSUME TypeOK, NEW e \in Ends, local' = local, Others(e), CallInv, Duty(e)',
         inbox'[e] \in {inbox[e], <<>>} \/ (inbox[e] # <<>> /\ inbox'[e] = Tail(inbox[e]))
  PROVE  CallInv'
<1>1. CallOK(e)
  BY DEF CallInv
<1>2. PICK q \in Seq(Packet) : q = inbox[e]
  BY DEF TypeOK
<1>3. \A i \in 1..Len(inbox'[e]) : \E j \in 1..Len(q) : inbox'[e][i] = q[j]
  <2>1. CASE inbox'[e] = q
    BY <2>1
  <2>2. CASE inbox'[e] = <<>>
    BY <2>2
  <2>3. CASE q # <<>> /\ inbox'[e] = Tail(q)
    <3>1. PICK n \in Nat : n = Len(q) /\ n >= 1
      BY <1>2, <2>3, EmptySeq
    <3>2. Len(Tail(q)) = n - 1 /\ \A j \in 1..(n - 1) : Tail(q)[j] = q[j + 1]
      BY <2>3, <3>1, HeadTailProperties
    <3>3. \A j \in 1..(n - 1) : j + 1 \in 1..n
      BY <3>1
    <3>4. QED
      BY <2>3, <3>1, <3>2, <3>3
  <2>4. QED
    BY <1>2, <2>1, <2>2, <2>3
<1>4. \A i \in 1..Len(inbox'[e]) : inbox'[e][i].type \in Kinds => Cid(inbox'[e][i]) = local'[e]
  BY <1>1, <1>2, <1>3 DEF CallOK
<1>5. CallOK(e)'
  BY <1>4 DEF CallOK, Duty
<1>6. QED
  BY <1>5, CallsElsewhere

LEMMA PollDuty ==
  ASSUME Invs, NEW e \in Ends, CallOK(e), Poll(e)
  PROVE  Duty(e)'
<1>1. TypeOK /\ EndOK(e) /\ InboxInv
  BY DEF Invs, EndInv
<1>2. inbox[e] \in Seq(Packet) /\ inbox[e] # <<>> /\ op[e] \in Polling
  BY <1>1 DEF TypeOK, Poll
<1>3. PICK m \in Packet : m = Head(inbox[e]) /\ m = inbox[e][1] /\ 1 \in 1..Len(inbox[e])
  BY <1>2
<1>4. InboxOK(e, m)
  BY <1>1, <1>3 DEF InboxInv
<1>5. state[e] \in States \ {"none", "idle"}
  BY <1>1, <1>2 DEF TypeOK, EndOK, Polling
<1>6. PICK st \in States \ {"none", "idle"} : st = Reaction(state[e], m)
  BY <1>5, ReactionIs
<1>7. /\ state'[e] = st /\ op'[e] = OpAfter(e, st)
      /\ remote'[e] = IF st = "config" /\ state[e] = "waitConnectRsp" THEN m.dcid ELSE remote[e]
  BY <1>1, <1>3, <1>6 DEF TypeOK, Poll
<1>8. \/ st = state[e]
      \/ m.type = "connRsp" /\ state[e] = "waitConnectRsp" /\ st = "config" /\ m.success
      \/ st = "disconnected"
      \/ /\ state[e] \in {"config", "open", "configReqRsp", "configReq", "configRsp"}
         /\ st \in {"configRsp", "open", "sendConfig", "configReq"}
  BY <1>5, <1>6, ReactionCases
<1>9. op[e] # "ended" /\ op[e] # "setup" /\ state[e] # "config"
  BY <1>2 DEF Polling, CallOK
<1>10. CASE st = state[e]
  <2>1. op'[e] = op[e] /\ remote'[e] = remote[e]
    BY <1>7, <1>9, <1>10 DEF OpAfter
  <2>2. QED
    BY <1>7, <1>10, <2>1 DEF CallOK, Duty
<1>11. CASE st = "disconnected" /\ st # state[e]
  <2>1. op'[e] = "ended"
    BY <1>7, <1>11 DEF OpAfter
  <2>2. QED
    BY <1>7, <1>11, <2>1 DEF Duty, Connected, Configuring
<1>12. CASE m.type = "connRsp" /\ state[e] = "waitConnectRsp" /\ st = "config" /\ m.success
  <2>1. op[e] = "connecting"
    BY <1>9, <1>12 DEF CallOK
  <2>2. op'[e] = "setup"
    BY <1>7, <1>12, <2>1 DEF OpAfter
  <2>3. remote'[e] # NoCid
    BY <1>4, <1>7, <1>12 DEF InboxOK, Answered
  <2>4. QED
    BY <1>7, <1>12, <2>2, <2>3 DEF Duty
<1>13. CASE /\ state[e] \in {"config", "open", "configReqRsp", "configReq", "configRsp"}
            /\ st \in {"configRsp", "open", "sendConfig", "configReq"} /\ st # state[e]
  <2>1. op[e] \notin {"connecting", "disconnecting", "setup"} /\ remote[e] # NoCid
    BY <1>9, <1>13 DEF CallOK, Closing, Connected, Configuring
  <2>2. op'[e] \in {op[e], "serving"}
    BY <1>7, <1>13, <2>1 DEF OpAfter
  <2>3. remote'[e] = remote[e]
    BY <1>7, <1>13
  <2>4. QED
    BY <1>7, <1>13, <2>1, <2>2, <2>3 DEF Duty
<1>14. QED
  BY <1>8, <1>10, <1>11, <1>12, <1>13

LEMMA CallsGoOn ==
  ASSUME Invs, CallInv, NEW e \in Ends, TaskStep(e), ~NewChannel(e)
  PROVE  CallInv'
<1>1. TypeOK /\ EndOK(e) /\ CallOK(e)
  BY DEF Invs, EndInv, CallInv
<1>2. CASE Connect(e)
  <2>1. state'[e] = "waitConnectRsp" /\ op'[e] = "connecting" /\ inbox' = inbox /\ local' = local
    BY <1>1, <1>2 DEF Connect, TypeOK
  <2>2. Others(e)
    BY <1>1, <1>2 DEF Connect, TypeOK, Others
  <2>3. Duty(e)'
    BY <2>1 DEF Duty, Connected, Configuring
  <2>4. QED
    BY <1>1, <2>1, <2>2, <2>3, CallOfTask
<1>3. CASE Configure(e) \/ Reconfigure(e)
  <2>1. /\ state[e] \in {"config", "sendConfig", "open"} /\ state'[e] \in {"configReqRsp", "configRsp"}
        /\ op'[e] = "serving" /\ remote' = remote /\ inbox' = inbox /\ local' = local
    BY <1>1, <1>3 DEF Configure, Reconfigure, SendConfigure, AfterConfigure, TypeOK
  <2>2. Others(e)
    BY <1>1, <1>3 DEF Configure, Reconfigure, SendConfigure, TypeOK, Others
  <2>3. Duty(e)'
    BY <1>1, <2>1 DEF Duty, CallOK, Connected, Configuring
  <2>4. QED
    BY <1>1, <2>1, <2>2, <2>3, CallOfTask
<1>4. CASE Write(e) \/ WriteTimesOut(e) \/ PollClosed(e)
  <2>1. /\ op[e] \in Polling /\ op'[e] \in {op[e], "writing", "ended"}
        /\ op'[e] = "writing" => op[e] # "connecting"
        /\ state'[e] = state[e] /\ remote'[e] = remote[e] /\ inbox' = inbox /\ local' = local
    BY <1>1, <1>4 DEF Write, WriteTimesOut, PollClosed, TypeOK, Polling
  <2>2. Others(e)
    BY <1>1, <1>4 DEF Write, WriteTimesOut, PollClosed, TypeOK, Others
  <2>3. Duty(e)'
    BY <1>1, <2>1 DEF Duty, CallOK, Polling
  <2>4. QED
    BY <1>1, <2>1, <2>2, <2>3, CallOfTask
<1>5. CASE Disconnect(e)
  <2>1. state'[e] = "waitDisconnect" /\ op'[e] = "disconnecting" /\ inbox' = inbox /\ local' = local
    BY <1>1, <1>5 DEF Disconnect, TypeOK
  <2>2. Others(e)
    BY <1>1, <1>5 DEF Disconnect, TypeOK, Others
  <2>3. Duty(e)'
    BY <2>1 DEF Duty, Connected, Configuring, Closing
  <2>4. QED
    BY <1>1, <2>1, <2>2, <2>3, CallOfTask
<1>6. CASE Drop(e)
  <2>1. /\ state'[e] \in Closed \cup Closing /\ op'[e] = "dropped" /\ inbox'[e] = <<>> /\ local' = local
    BY <1>1, <1>6 DEF Drop, TypeOK, Closing
  <2>2. Others(e)
    BY <1>1, <1>6 DEF Drop, TypeOK, Others
  <2>3. Duty(e)'
    BY <2>1 DEF Duty, Connected, Configuring, Closed, Closing
  <2>4. QED
    BY <1>1, <2>1, <2>2, <2>3, CallOfTask
<1>7. CASE Poll(e)
  <2>1. inbox[e] # <<>> /\ inbox'[e] = Tail(inbox[e]) /\ local' = local
    BY <1>1, <1>7 DEF Poll, TypeOK
  <2>2. Others(e)
    BY <1>1, <1>7 DEF Poll, TypeOK, Others
  <2>3. Duty(e)'
    BY <1>1, <1>7, PollDuty
  <2>4. QED
    BY <1>1, <2>1, <2>2, <2>3, CallOfTask
<1>8. QED
  BY <1>2, <1>3, <1>4, <1>5, <1>6, <1>7 DEF TaskStep

-----------------------------------------------------------------------------
(* new_channel and the servers move packets and do not configure. *)
LEMMA NamedStays ==
  ASSUME TypeOK, NEW s \in Hosts, NamedOK(s), \A g \in Ends : local[g] # NoCid => local'[g] = local[g],
         \/ link'[s] = link[s]
         \/ link[s] # <<>> /\ link'[s] = Tail(link[s])
         \/ \E m \in Packet : m.type \notin Kinds /\ link'[s] = Append(link[s], m)
  PROVE  NamedOK(s)'
<1>1. PICK q \in Seq(Packet) : q = link[s]
  BY DEF TypeOK
<1>2. \A y : Has(link'[s], y) /\ y.type \in Kinds => Has(q, y)
  <2>1. CASE link'[s] = q
    BY <2>1
  <2>2. CASE q # <<>> /\ link'[s] = Tail(q)
    BY <2>2, HeadFirst
  <2>3. CASE \E m \in Packet : m.type \notin Kinds /\ link'[s] = Append(q, m)
    <3>1. PICK m \in Packet : m.type \notin Kinds /\ link'[s] = Append(q, m)
      BY <2>3
    <3>2. QED
      BY <3>1, Appended
  <2>4. QED
    BY <1>1, <2>1, <2>2, <2>3
<1>3. ASSUME NEW i \in 1..Len(link'[s]), link'[s][i].type \in Kinds
      PROVE  /\ Cid(link'[s][i]) # NoCid
             /\ \E g \in Ends : Host(g) = s /\ local'[g] = Cid(link'[s][i])
  <2>1. PICK m : m = link'[s][i]
    OBVIOUS
  <2>2. Has(q, m)
    BY <1>2, <1>3, <2>1 DEF Has
  <2>3. PICK j \in 1..Len(link[s]) : link[s][j] = m
    BY <1>1, <2>2 DEF Has
  <2>4. Cid(m) # NoCid /\ \E g \in Ends : Host(g) = s /\ local[g] = Cid(m)
    BY <1>3, <2>1, <2>3 DEF NamedOK
  <2>5. QED
    BY <2>1, <2>4
<1>4. QED
  BY <1>3 DEF NamedOK

\* The link of a channel's host loses a packet that is not for the channel, or
\* gains one that does not count.
LEMMA UnheardIsQuiet ==
  ASSUME TypeOK, NEW g \in Ends, state'[g] = state[g], op'[g] = op[g], local'[g] = local[g],
         inbox'[g] = inbox[g], written'[g] = written[g], received'[g] = received[g],
         op[g] # "none" => /\ Unregistered(g) => Unregistered(g)'
                           /\ Unregistered(g)' => Unregistered(g) \/ op[g] = "dropped",
         NEW s, s = Host(g),
         \/ link'[s] = link[s]
         \/ /\ link[s] # <<>> /\ link'[s] = Tail(link[s])
            /\ op[g] # "none" /\ ~Unregistered(g) => Head(link[s]) \notin Counted(local[g], Peer(g))
         \/ \E m \in Packet : m.type \notin Kinds /\ link'[s] = Append(link[s], m)
  PROVE  Quiet(g)
<1>1. Live(g)' <=> Live(g)
  BY DEF Live
<1>2. ASSUME Live(g)
      PROVE  Same(Stream(g)', Stream(g), Counted(local[g], Peer(g))) /\ (Unregistered(g)' <=> Unregistered(g))
  <2>1. op[g] # "none" /\ (Unregistered(g)' <=> Unregistered(g))
    BY <1>2 DEF Live
  <2>2. CASE Unregistered(g)
    BY <1>1, <1>2, <2>1, <2>2 DEF Stream, Same
  <2>3. CASE ~Unregistered(g)
    <3>1. PICK a \in Seq(Packet), q \in Seq(Packet) : a = inbox[g] /\ q = link[s]
      BY StreamIs
    <3>2. Stream(g) = a \o q /\ Stream(g)' = a \o link'[s]
      BY <1>1, <1>2, <2>1, <2>3, <3>1 DEF Stream
    <3>3. CASE link'[s] = q
      BY <2>1, <3>2, <3>3 DEF Same
    <3>4. CASE q # <<>> /\ link'[s] = Tail(q) /\ Head(q) \notin Counted(local[g], Peer(g))
      <4>1. PICK t, x : t \in Seq(Packet) /\ t = Tail(q) /\ x = Head(q)
        BY <3>4, HeadFirst
      <4>2. \A y, z \in Counted(local[g], Peer(g)) :
              (Has(q, y) <=> Has(t, y)) /\ (Before(q, y, z) <=> Before(t, y, z))
        BY <3>4, <4>1, HeadFirst
      <4>3. /\ \A y : Has(a \o q, y) <=> Has(a, y) \/ Has(q, y)
            /\ \A y, z : Before(a \o q, y, z) <=> Before(a, y, z) \/ Before(q, y, z) \/ (Has(a, y) /\ Has(q, z))
        BY Concat
      <4>4. /\ \A y : Has(a \o t, y) <=> Has(a, y) \/ Has(t, y)
            /\ \A y, z : Before(a \o t, y, z) <=> Before(a, y, z) \/ Before(t, y, z) \/ (Has(a, y) /\ Has(t, z))
        BY <4>1, Concat
      <4>5. link'[s] = t
        BY <3>4, <4>1
      <4>6. QED
        BY <2>1, <3>2, <4>2, <4>3, <4>4, <4>5 DEF Same
    <3>5. CASE \E m \in Packet : m.type \notin Kinds /\ link'[s] = Append(q, m)
      <4>1. PICK m \in Packet : m.type \notin Kinds /\ link'[s] = Append(q, m)
        BY <3>5
      <4>2. PICK t \in Seq(Packet) : t = Append(q, m)
        BY Appended
      <4>3. m \notin Counted(local[g], Peer(g))
        BY <4>1, CountedFacts
      <4>4. \A y, z \in Counted(local[g], Peer(g)) :
              (Has(t, y) <=> Has(q, y)) /\ (Before(t, y, z) <=> Before(q, y, z))
        BY <4>2, <4>3, Appended
      <4>5. /\ \A y : Has(a \o q, y) <=> Has(a, y) \/ Has(q, y)
            /\ \A y, z : Before(a \o q, y, z) <=> Before(a, y, z) \/ Before(q, y, z) \/ (Has(a, y) /\ Has(q, z))
        BY Concat
      <4>6. /\ \A y : Has(a \o t, y) <=> Has(a, y) \/ Has(t, y)
            /\ \A y, z : Before(a \o t, y, z) <=> Before(a, y, z) \/ Before(t, y, z) \/ (Has(a, y) /\ Has(t, z))
        BY Concat
      <4>7. link'[s] = t
        BY <4>1, <4>2
      <4>8. QED
        BY <2>1, <3>2, <4>4, <4>5, <4>6, <4>7 DEF Same
    <3>6. QED
      BY <2>1, <2>3, <3>1, <3>3, <3>4, <3>5
  <2>4. QED
    BY <2>1, <2>2, <2>3
<1>3. QED
  BY <1>1, <1>2, SameIsThinned DEF Quiet, Moves, Same

\* The packet moves from the link to the inbox; the channel may lose the rest.
LEMMA PostedIsQuiet ==
  ASSUME TypeOK, NEW e \in Ends, state'[e] = state[e], op'[e] = op[e], local'[e] = local[e],
         written'[e] = written[e], received'[e] = received[e], ~Unregistered(e),
         NEW s, s = Host(e), link[s] # <<>>, link'[s] = Tail(link[s]), NEW m, m = Head(link[s]),
         inbox'[e] = Append(inbox[e], m), Unregistered(e)' => m.type \notin Kinds
  PROVE  Quiet(e)
<1>1. Live(e)' <=> Live(e)
  BY DEF Live
<1>2. PICK T : T = Counted(local[e], Peer(e))
  OBVIOUS
<1>3. PICK a \in Seq(Packet), q \in Seq(Packet) : a = inbox[e] /\ q = link[s]
  BY StreamIs
<1>4. PICK t \in Seq(Packet), b \in Seq(Packet) : t = Tail(q) /\ m \in Packet /\ b = Append(a, m)
  BY <1>3, HeadFirst, Appended
<1>5. /\ \A y : Has(q, y) <=> Has(t, y) \/ y = m
      /\ \A y, z : Before(q, y, z) <=> Before(t, y, z) \/ (y = m /\ Has(t, z))
  BY <1>3, <1>4, HeadFirst
<1>6. /\ \A y : Has(b, y) <=> Has(a, y) \/ y = m
      /\ \A y, z : Before(b, y, z) <=> Before(a, y, z) \/ (Has(a, y) /\ z = m)
  BY <1>4, Appended
<1>7. /\ \A y : Has(a \o q, y) <=> Has(a, y) \/ Has(q, y)
      /\ \A y, z : Before(a \o q, y, z) <=> Before(a, y, z) \/ Before(q, y, z) \/ (Has(a, y) /\ Has(q, z))
  BY Concat
<1>8. ASSUME Live(e), ~Unregistered(e)' PROVE Same(Stream(e)', Stream(e), T)
  <2>1. Stream(e) = a \o q /\ Stream(e)' = b \o t
    BY <1>1, <1>3, <1>4, <1>8 DEF Stream
  <2>2. /\ \A y : Has(b \o t, y) <=> Has(b, y) \/ Has(t, y)
        /\ \A y, z : Before(b \o t, y, z) <=> Before(b, y, z) \/ Before(t, y, z) \/ (Has(b, y) /\ Has(t, z))
    BY Concat
  <2>3. \A y : Has(b \o t, y) <=> Has(a \o q, y)
    BY <1>5, <1>6, <1>7, <2>2
  <2>4. \A y, z : Before(b \o t, y, z) <=> Before(a \o q, y, z)
    BY <1>5, <1>6, <1>7, <2>2
  <2>5. QED
    BY <2>1, <2>3, <2>4 DEF Same
<1>9. ASSUME Live(e), Unregistered(e)' PROVE Thinned(Stream(e)', Stream(e), T)
  <2>1. Stream(e) = a \o q /\ Stream(e)' = b
    BY <1>1, <1>3, <1>4, <1>9 DEF Stream
  <2>2. m \notin T
    BY <1>2, <1>9, CountedFacts
  <2>3. \A y, z \in T : (Has(b, y) <=> Has(a, y)) /\ (Before(b, y, z) <=> Before(a, y, z))
    BY <1>6, <2>2
  <2>4. ASSUME NEW y \in T, NEW z \in T, Has(b, z), Before(a \o q, y, z), ~Before(a \o q, z, z)
        PROVE  Before(b, y, z)
    BY <1>7, <2>3, <2>4, BothThere
  <2>5. QED
    BY <1>7, <2>1, <2>3, <2>4 DEF Thinned
<1>10. QED
  BY <1>1, <1>2, <1>8, <1>9, SameIsThinned DEF Quiet, Moves, Same

\* What a packet that is not a request does to the channel it is for, if there is one.
LEMMA ForwardIs ==
  ASSUME Invs, NEW s \in Hosts, link[s] # <<>>, NEW m \in Packet, m = Head(link[s]), m.type # "connReq",
         Forward(s, m)
  PROVE  \/ /\ UNCHANGED <<inbox, table>>
            /\ \A g \in Ends : m.type \in Kinds /\ Host(g) = s /\ local[g] = Cid(m) /\ op[g] # "none" => Unregistered(g)
         \/ \E e \in Ends, c \in Cids[s] :
              /\ table[s][c] = e /\ Host(e) = s /\ local[e] = c /\ op[e] # "none"
              /\ Post(e, m)
              /\ m.type \in Kinds => c = Cid(m)
              /\ table' = table \/ table' = [table EXCEPT ![s][c] = None]
              /\ table' # table => op[e] = "dropped" \/ m.type \notin Kinds
<1>1. TypeOK /\ TableInv /\ EndInv
  BY DEF Invs
<1>2. table[s] \in [Cids[s] -> Ends \cup {None}]
  BY <1>1 DEF TypeOK
<1>3. PICK c : /\ m.type \in {"discReq", "discRsp", "configReq", "data"} => c = m.dcid
               /\ m.type \in {"connRsp", "configRsp"} => c = m.scid
  OBVIOUS
<1>4. /\ \/ m.type \in {"discReq", "discRsp"} /\ FinalMsg(s, c, m)
         \/ m.type \notin {"discReq", "discRsp"} /\ ChannelMsg(s, c, m)
      /\ m.type \in Kinds => c = Cid(m)
  <2>1. CASE m.type \in {"discReq", "discRsp"}
    BY <1>3, <2>1 DEF Forward, Kinds
  <2>2. CASE m.type \in {"connRsp", "configRsp"}
    BY <1>3, <2>2 DEF Forward, Kinds, Cid
  <2>3. CASE m.type \in {"configReq", "data"}
    BY <1>3, <2>3 DEF Forward, Kinds, Cid
  <2>4. QED
    BY <2>1, <2>2, <2>3, PacketFacts
<1>5. CASE ~Registered(s, c)
  <2>1. UNCHANGED <<inbox, table>>
    BY <1>4, <1>5 DEF FinalMsg, ChannelMsg
  <2>2. ASSUME NEW g \in Ends, m.type \in Kinds, Host(g) = s, local[g] = Cid(m), op[g] # "none" PROVE Unregistered(g)
    <3>1. g # None
      BY HostsAssumption DEF Ends
    <3>2. local[g] \in Cids[s] /\ local[g] = c
      BY <1>1, <1>4, <2>2 DEF TypeOK, EndInv, EndOK
    <3>3. QED
      BY <1>5, <2>2, <3>1, <3>2 DEF Registered, Unregistered
  <2>3. QED
    BY <2>1, <2>2
<1>6. CASE Registered(s, c)
  <2>1. PICK e \in Ends : e = table[s][c] /\ c \in Cids[s]
    BY <1>2, <1>6 DEF Registered
  <2>2. e # None
    BY HostsAssumption DEF Ends
  <2>3. Host(e) = s /\ local[e] = c
    BY <1>1, <2>1, <2>2 DEF TableInv
  <2>4. op[e] # "none"
    BY <1>1, <2>1, <2>3, CidFacts DEF EndInv, EndOK
  <2>5. /\ Post(e, m)
        /\ table' = table \/ table' = [table EXCEPT ![s][c] = None]
        /\ table' # table => op[e] = "dropped" \/ m.type \in {"discReq", "discRsp"}
    BY <1>4, <1>6, <2>1 DEF FinalMsg, ChannelMsg
  <2>6. QED
    BY <1>4, <2>1, <2>3, <2>4, <2>5 DEF Kinds
<1>7. QED
  BY <1>5, <1>6

LEMMA ForwardIsQuiet ==
  ASSUME Invs, IdsOnce, NEW s \in Hosts, link[s] # <<>>, NEW m \in Packet, m = Head(link[s]), m.type # "connReq",
         Forward(s, m), UNCHANGED <<written, received, reconfigures>>, NEW g \in Ends
  PROVE  Quiet(g)
<1>1. TypeOK /\ EndInv
  BY DEF Invs
<1>2. /\ state' = state /\ local' = local /\ remote' = remote /\ op' = op
      /\ link' = [link EXCEPT ![s] = Tail(link[s])]
  BY DEF Forward
<1>3. PICK h \in Hosts : h = Host(g)
  BY EndFacts
<1>4. IF h = s THEN link'[h] = Tail(link[h]) ELSE link'[h] = link[h]
  BY <1>1, <1>2 DEF TypeOK
<1>5. m \in Counted(local[g], Peer(g)) => m.type \in Kinds /\ Cid(m) = local[g]
  BY CountedFacts
<1>6. CASE /\ UNCHANGED <<inbox, table>>
           /\ \A e \in Ends : m.type \in Kinds /\ Host(e) = s /\ local[e] = Cid(m) /\ op[e] # "none" => Unregistered(e)
  <2>1. Unregistered(g)' <=> Unregistered(g)
    BY <1>2, <1>6 DEF Unregistered
  <2>2. h = s /\ op[g] # "none" /\ ~Unregistered(g) => Head(link[h]) \notin Counted(local[g], Peer(g))
    BY <1>3, <1>5, <1>6
  <2>3. QED
    BY <1>1, <1>2, <1>3, <1>4, <1>6, <2>1, <2>2, UnheardIsQuiet
<1>7. ASSUME NEW e \in Ends, NEW c \in Cids[s],
             table[s][c] = e, Host(e) = s, local[e] = c, op[e] # "none",
             Post(e, m), m.type \in Kinds => c = Cid(m),
             table' = table \/ table' = [table EXCEPT ![s][c] = None],
             table' # table => op[e] = "dropped" \/ m.type \notin Kinds
      PROVE  Quiet(g)
  <2>1. inbox \in [Ends -> Seq(Packet)] /\ DOMAIN table = Hosts /\ table[s] \in [Cids[s] -> Ends \cup {None}]
    BY <1>1 DEF TypeOK
  <2>2. g # e => inbox'[g] = inbox[g]
    BY <1>7, <2>1 DEF Post
  <2>3. g # e /\ op[g] # "none" => (Unregistered(g)' <=> Unregistered(g))
    <3>1. SUFFICES ASSUME g # e, op[g] # "none" PROVE Unregistered(g)' <=> Unregistered(g)
      OBVIOUS
    <3>2. PICK d : d = local[g] /\ d \in Cids[h]
      BY <1>1, <1>3, <3>1 DEF TypeOK, EndInv, EndOK
    <3>3. (Unregistered(g) <=> table[h][d] # g) /\ (Unregistered(g)' <=> table'[h][d] # g)
      BY <1>2, <1>3, <3>2 DEF Unregistered
    <3>4. CASE table' = table
      BY <3>3, <3>4
    <3>5. CASE table' = [table EXCEPT ![s][c] = None]
      <4>1. table' = [table EXCEPT ![s] = [table[s] EXCEPT ![c] = None]]
        BY <3>5
      <4>2. CASE h # s
        BY <2>1, <3>3, <4>1, <4>2
      <4>3. CASE h = s
        <5>1. d # c
          BY <1>1, <1>3, <1>7, <3>1, <3>2, <4>3, CidFacts DEF IdsOnce
        <5>2. table'[s] = [table[s] EXCEPT ![c] = None]
          BY <2>1, <4>1
        <5>3. table'[s][d] = table[s][d]
          BY <2>1, <3>2, <4>3, <5>1, <5>2
        <5>4. QED
          BY <3>3, <4>3, <5>3
      <4>4. QED
        BY <4>2, <4>3
    <3>6. QED
      BY <1>7, <3>4, <3>5
  <2>4. CASE g # e
    <3>1. h = s /\ op[g] # "none" /\ ~Unregistered(g) => m \notin Counted(local[g], Peer(g))
      <4>1. SUFFICES ASSUME h = s, op[g] # "none", m.type \in Kinds, Cid(m) = local[g] PROVE Unregistered(g)
        BY <1>5
      <4>2. table[s][local[g]] = e
        BY <1>7, <4>1
      <4>3. QED
        BY <1>3, <2>4, <4>1, <4>2 DEF Unregistered
    <3>2. QED
      BY <1>1, <1>2, <1>3, <1>4, <2>2, <2>3, <2>4, <3>1, UnheardIsQuiet
  <2>5. CASE g = e /\ op[e] = "dropped"
    <3>1. ~Live(g)'
      BY <1>2, <2>5 DEF Live
    <3>2. QED
      BY <1>2, <3>1 DEF Quiet, Moves
  <2>6. CASE g = e /\ op[e] # "dropped"
    <3>1. inbox'[e] = Append(inbox[e], m)
      BY <1>7, <2>1, <2>6 DEF Post
    <3>2. ~Unregistered(e)
      BY <1>7 DEF Unregistered
    <3>3. Unregistered(e)' => m.type \notin Kinds
      BY <1>2, <1>7, <2>6, <3>2 DEF Unregistered
    <3>4. QED
      BY <1>1, <1>2, <1>3, <1>4, <1>7, <2>6, <3>1, <3>2, <3>3, PostedIsQuiet
  <2>7. QED
    BY <2>4, <2>5, <2>6
<1>8. CASE \E e \in Ends, c \in Cids[s] :
              /\ table[s][c] = e /\ Host(e) = s /\ local[e] = c /\ op[e] # "none"
              /\ Post(e, m)
              /\ m.type \in Kinds => c = Cid(m)
              /\ table' = table \/ table' = [table EXCEPT ![s][c] = None]
              /\ table' # table => op[e] = "dropped" \/ m.type \notin Kinds
  BY <1>7, <1>8
<1>9. QED
  BY <1>6, <1>8, ForwardIs

LEMMA ForwardCalls ==
  ASSUME Invs, CallInv, NEW s \in Hosts, link[s] # <<>>, NEW m \in Packet, m = Head(link[s]), m.type # "connReq",
         Forward(s, m)
  PROVE  CallInv'
<1>1. TypeOK
  BY DEF Invs
<1>2. state' = state /\ local' = local /\ remote' = remote /\ op' = op
  BY DEF Forward
<1>3. ASSUME NEW g \in Ends, CallOK(g),
             \/ inbox'[g] = inbox[g]
             \/ inbox'[g] = Append(inbox[g], m) /\ (m.type \in Kinds => Cid(m) = local[g])
      PROVE  CallOK(g)'
  <2>1. PICK q \in Seq(Packet) : q = inbox[g]
    BY <1>1 DEF TypeOK
  <2>2. \A i \in 1..Len(inbox'[g]) : inbox'[g][i].type \in Kinds => Cid(inbox'[g][i]) = local[g]
    <3>1. \A i \in 1..Len(q) : q[i].type \in Kinds => Cid(q[i]) = local[g]
      BY <1>3, <2>1 DEF CallOK
    <3>2. CASE inbox'[g] = q
      BY <3>1, <3>2
    <3>3. CASE inbox'[g] = Append(q, m) /\ (m.type \in Kinds => Cid(m) = local[g])
      <4>1. PICK n \in Nat : n = Len(q)
        <5>1. Len(q) \in Nat
          OBVIOUS
        <5>2. QED
          BY <5>1
      <4>2. /\ Len(inbox'[g]) = n + 1 /\ inbox'[g][n + 1] = m
            /\ \A i \in 1..n : inbox'[g][i] = q[i]
        BY <3>3, <4>1, AppendProperties
      <4>3. \A i \in 1..(n + 1) : i \in 1..n \/ i = n + 1
        BY <4>1
      <4>4. QED
        BY <3>1, <3>3, <4>1, <4>2, <4>3
    <3>4. QED
      BY <1>3, <2>1, <3>2, <3>3
  <2>3. QED
    BY <1>2, <1>3, <2>2 DEF CallOK
<1>4. ASSUME NEW g \in Ends
      PROVE  \/ inbox'[g] = inbox[g]
             \/ inbox'[g] = Append(inbox[g], m) /\ (m.type \in Kinds => Cid(m) = local[g])
  <2>1. inbox \in [Ends -> Seq(Packet)]
    BY <1>1 DEF TypeOK
  <2>2. CASE UNCHANGED <<inbox, table>>
    BY <2>2
  <2>3. ASSUME NEW e \in Ends, NEW c \in Cids[s], local[e] = c, Post(e, m), m.type \in Kinds => c = Cid(m)
        PROVE  \/ inbox'[g] = inbox[g]
               \/ inbox'[g] = Append(inbox[g], m) /\ (m.type \in Kinds => Cid(m) = local[g])
    BY <2>1, <2>3 DEF Post
  <2>4. CASE \E e \in Ends, c \in Cids[s] : local[e] = c /\ Post(e, m) /\ (m.type \in Kinds => c = Cid(m))
    BY <2>3, <2>4
  <2>5. UNCHANGED <<inbox, table>>
        \/ \E e \in Ends, c \in Cids[s] : local[e] = c /\ Post(e, m) /\ (m.type \in Kinds => c = Cid(m))
    BY ForwardIs
  <2>6. QED
    BY <2>2, <2>4, <2>5
<1>5. QED
  BY <1>3, <1>4 DEF CallInv

-----------------------------------------------------------------------------
(* A channel that is made, and a request that is refused. *)
LEMMA AllQuietIsClean ==
  ASSUME TypeOK, EndInv', \A g \in Ends : CleanOK(g), \A g \in Ends : Quiet(g) \/ Begins(g)
  PROVE  \A g \in Ends : CleanOK(g)'
<1>1. ASSUME NEW g \in Ends PROVE CleanOK(g)'
  <2>1. Peer(g) \in Ends
    BY EndFacts
  <2>2. QED
    BY <2>1, QuietKeeps
<1>2. QED
  BY <1>1

\* A link that is handed on, loses a packet that does not count, or gains one.
LinkQuiet(s) ==
  \/ link'[s] = link[s]
  \/ link[s] # <<>> /\ link'[s] = Tail(link[s]) /\ Head(link[s]).type \notin Kinds
  \/ \E m \in Packet : m.type \notin Kinds /\ link'[s] = Append(link[s], m)

LEMMA LinkQuietKeeps ==
  ASSUME TypeOK, NEW s \in Hosts, LinkQuiet(s), NEW y, y.type \in Kinds, Has(link'[s], y)
  PROVE  Has(link[s], y)
<1>1. PICK q \in Seq(Packet) : q = link[s]
  BY DEF TypeOK
<1>2. CASE link'[s] = q
  BY <1>1, <1>2
<1>3. CASE q # <<>> /\ link'[s] = Tail(q)
  BY <1>1, <1>3, HeadFirst
<1>4. CASE \E m \in Packet : m.type \notin Kinds /\ link'[s] = Append(q, m)
  <2>1. PICK m \in Packet : m.type \notin Kinds /\ link'[s] = Append(q, m)
    BY <1>4
  <2>2. QED
    BY <1>1, <2>1, Appended
<1>5. QED
  BY <1>1, <1>2, <1>3, <1>4 DEF LinkQuiet

\* Nothing happens to the end but to its link.
LEMMA OnlooksQuietly ==
  ASSUME TypeOK, NEW g \in Ends, state'[g] = state[g], op'[g] = op[g], local'[g] = local[g],
         inbox'[g] = inbox[g], written'[g] = written[g], received'[g] = received[g],
         op[g] # "none" => /\ Unregistered(g) => Unregistered(g)'
                           /\ Unregistered(g)' => Unregistered(g) \/ op[g] = "dropped",
         \A s \in Hosts : LinkQuiet(s)
  PROVE  Quiet(g)
<1>1. PICK s \in Hosts : s = Host(g)
  BY EndFacts
<1>2. LinkQuiet(s)
  OBVIOUS
<1>3. Head(link[s]).type \notin Kinds => Head(link[s]) \notin Counted(local[g], Peer(g))
  BY CountedFacts
<1>4. QED
  BY <1>1, <1>2, <1>3, UnheardIsQuiet DEF LinkQuiet

LEMMA NamesKept ==
  ASSUME TypeOK, \A g \in Ends : local[g] # NoCid => local'[g] = local[g],
         \A s \in Hosts : NamedOK(s) /\ LinkQuiet(s)
  PROVE  \A s \in Hosts : NamedOK(s)'
<1>1. ASSUME NEW s \in Hosts PROVE NamedOK(s)'
  <2>1. NamedOK(s) /\ LinkQuiet(s)
    OBVIOUS
  <2>2. QED
    BY <2>1, NamedStays DEF LinkQuiet
<1>2. QED
  BY <1>1

LEMMA NewEndIsClean ==
  ASSUME Invs, Clean, CleanInv, IdsOnce', EndInv', NEW e \in Ends, op[e] = "none", Free(Host(e)) # {}, Register(e),
         Others(e), inbox' = inbox, received' = received, written' = written,
         state'[e] \in Early \cup Closing, \A s \in Hosts : LinkQuiet(s)
  PROVE  (\A g \in Ends : CleanOK(g)') /\ (\A s \in Hosts : NamedOK(s)')
<1>1. /\ TypeOK /\ EndInv /\ EndOK(e) /\ IdsOnce
      /\ \A g \in Ends : CleanOK(g)
      /\ \A s \in Hosts : NamedOK(s)
  BY DEF Invs, EndInv, Clean, CleanInv
<1>2. PICK n : n = NewCid(Host(e))
  OBVIOUS
<1>3. /\ local' = [local EXCEPT ![e] = n] /\ n # NoCid /\ ~Unregistered(e)'
      /\ \A f \in Ends \ {e} :
           op[f] # "none" => /\ Unregistered(f) => Unregistered(f)'
                             /\ Unregistered(f)' => Unregistered(f) \/ op[f] = "dropped"
  BY <1>1, <1>2, RegisterStep
<1>4. local'[e] = n /\ local[e] = NoCid /\ \A g \in Ends \ {e} : local'[g] = local[g]
  BY <1>1, <1>3 DEF TypeOK, EndOK
<1>5. ASSUME NEW g \in Ends, g # e PROVE Quiet(g)
  <2>1. /\ state'[g] = state[g] /\ op'[g] = op[g] /\ local'[g] = local[g]
        /\ inbox'[g] = inbox[g] /\ written'[g] = written[g] /\ received'[g] = received[g]
    BY <1>4, <1>5 DEF Others
  <2>2. op[g] # "none" => /\ Unregistered(g) => Unregistered(g)'
                          /\ Unregistered(g)' => Unregistered(g) \/ op[g] = "dropped"
    BY <1>3, <1>5
  <2>3. QED
    BY <1>1, <2>1, <2>2, OnlooksQuietly
<1>6. Begins(e)
  <2>1. PICK h \in Hosts : h = Host(e)
    BY EndFacts
  <2>2. ASSUME NEW y \in Counted(n, Peer(e)), Has(link'[h], y) PROVE FALSE
    <3>1. y.type \in Kinds /\ Cid(y) = n
      BY <2>2, CountedFacts
    <3>2. Has(link[h], y)
      BY <1>1, <2>2, <3>1, LinkQuietKeeps
    <3>3. PICK g \in Ends : Host(g) = h /\ local[g] = n
      BY <1>1, <3>1, <3>2 DEF Has, NamedOK
    <3>4. g # e /\ local'[g] = n
      BY <1>3, <1>4, <3>3
    <3>5. QED
      BY <1>3, <1>4, <2>1, <3>3, <3>4 DEF IdsOnce
  <2>3. inbox[e] = <<>> /\ received[e] = <<>> /\ state[e] = "none"
    BY <1>1 DEF EndOK
  <2>4. PICK q \in Seq(Packet) : q = link'[h]
    <3>1. PICK l \in Seq(Packet) : l = link[h]
      BY <1>1 DEF TypeOK
    <3>2. l # <<>> => Tail(l) \in Seq(Packet)
      BY HeadFirst
    <3>3. \A m \in Packet : Append(l, m) \in Seq(Packet)
      BY Appended
    <3>4. LinkQuiet(h)
      OBVIOUS
    <3>5. QED
      BY <3>1, <3>2, <3>3, <3>4 DEF LinkQuiet
  <2>5. <<>> \o q = q
    OBVIOUS
  <2>6. Live(e)' => Stream(e)' = q
    BY <1>3, <2>1, <2>3, <2>4, <2>5 DEF Stream
  <2>7. Live(e)' => \A y \in Counted(local'[e], Peer(e)) : ~Has(Stream(e)', y)
    BY <1>4, <2>2, <2>4, <2>6
  <2>8. Moves(state[e], state'[e])
    BY <2>3 DEF Moves, Early
  <2>9. QED
    BY <2>3, <2>7, <2>8 DEF Begins
<1>7. \A g \in Ends : CleanOK(g)'
  BY <1>1, <1>5, <1>6, AllQuietIsClean
<1>8. \A s \in Hosts : NamedOK(s)'
  BY <1>1, <1>4, NamesKept
<1>9. QED
  BY <1>7, <1>8

LEMMA NewEndCalls ==
  ASSUME Invs, CallInv, NEW e \in Ends, op[e] = "none", Free(Host(e)) # {}, Register(e),
         Others(e), inbox' = inbox, Duty(e)'
  PROVE  CallInv'
<1>1. TypeOK /\ EndInv /\ EndOK(e)
  BY DEF Invs, EndInv
<1>2. local' = [local EXCEPT ![e] = NewCid(Host(e))]
  BY <1>1, RegisterStep
<1>3. \A g \in Ends : g # e => local'[g] = local[g]
  BY <1>1, <1>2 DEF TypeOK
<1>4. inbox'[e] = <<>>
  BY <1>1 DEF EndOK
<1>5. CallOK(e)'
  BY <1>4 DEF CallOK, Duty
<1>6. QED
  BY <1>3, <1>5, CallsElsewhere

LEMMA NoEndIsClean ==
  ASSUME Invs, Clean, CleanInv, EndInv', UNCHANGED <<channel, written, received>>,
         \A f \in Ends : op[f] # "none" => /\ Unregistered(f) => Unregistered(f)'
                                           /\ Unregistered(f)' => Unregistered(f) \/ op[f] = "dropped",
         \A s \in Hosts : LinkQuiet(s)
  PROVE  (\A g \in Ends : CleanOK(g)') /\ (\A s \in Hosts : NamedOK(s)')
<1>1. /\ TypeOK
      /\ \A g \in Ends : CleanOK(g)
      /\ \A s \in Hosts : NamedOK(s)
  BY DEF Invs, Clean, CleanInv
<1>2. /\ state' = state /\ local' = local /\ inbox' = inbox /\ op' = op
      /\ written' = written /\ received' = received
  BY DEF channel
<1>3. ASSUME NEW g \in Ends PROVE Quiet(g)
  <2>1. op[g] # "none" => /\ Unregistered(g) => Unregistered(g)'
                          /\ Unregistered(g)' => Unregistered(g) \/ op[g] = "dropped"
    OBVIOUS
  <2>2. QED
    BY <1>1, <1>2, <2>1, OnlooksQuietly
<1>4. \A g \in Ends : CleanOK(g)'
  BY <1>1, <1>3, AllQuietIsClean
<1>5. \A s \in Hosts : NamedOK(s)'
  BY <1>1, <1>2, NamesKept
<1>6. QED
  BY <1>4, <1>5

LEMMA NoEndCalls ==
  ASSUME CallInv, UNCHANGED channel
  PROVE  CallInv'
BY DEF CallInv, CallOK, channel

-----------------------------------------------------------------------------
(* The steps, one by one. *)
StaysClean ==
  /\ CallInv'
  /\ Clean /\ IdsOnce' => (\A g \in Ends : CleanOK(g)') /\ (\A s \in Hosts : NamedOK(s)')

LEMMA NewChannelClean ==
  ASSUME Invs, CallInv, CleanInv, EndInv', NEW e \in Ends, NewChannel(e)
  PROVE  StaysClean
<1>1. /\ op[e] = "none" /\ Free(Host(e)) # {} /\ Register(e)
      /\ inbox' = inbox /\ link' = link /\ written' = written /\ received' = received
  BY DEF NewChannel
<1>2. Others(e) /\ state'[e] = "idle" /\ op'[e] = "created"
  BY DEF Invs, TypeOK, NewChannel, Others
<1>3. Duty(e)'
  BY <1>2 DEF Duty, Closing, Connected, Configuring
<1>4. \A s \in Hosts : LinkQuiet(s)
  BY <1>1 DEF LinkQuiet
<1>5. CallInv'
  BY <1>1, <1>2, <1>3, NewEndCalls
<1>6. state'[e] \in Early \cup Closing
  BY <1>2 DEF Early
<1>7. QED
  BY <1>1, <1>2, <1>4, <1>5, <1>6, NewEndIsClean DEF StaysClean

LEMMA OnConnectionRequestClean ==
  ASSUME Invs, CallInv, CleanInv, EndInv', NEW s \in Hosts, link[s] # <<>>, NEW m \in Packet, m = Head(link[s]),
         m.type = "connReq", OnConnectionRequest(s, m), UNCHANGED <<written, received, reconfigures>>
  PROVE  StaysClean
<1>1. TypeOK /\ EndInv /\ LinkInv
  BY DEF Invs
<1>2. link[s] \in Seq(Packet) /\ m = link[s][1] /\ 1 \in 1..Len(link[s])
  <2>1. link[s] \in Seq(Packet)
    BY <1>1 DEF TypeOK
  <2>2. QED
    BY <2>1
<1>3. RequestOK(s, m) /\ m.conn \in Connections /\ m.scid \in AllCids
  BY <1>1, <1>2, PacketFacts DEF LinkInv, LinkOK
<1>4. PICK e \in Ends : e = <<m.conn, s>> /\ Conn(e) = m.conn /\ Host(e) = s
  BY <1>3, EndIs
<1>5. op[e] = "none" /\ m.scid # NoCid
  <2>1. op[e] = "none" /\ op[<<m.conn, Opener[m.conn]>>] # "none" /\ m.scid = local[<<m.conn, Opener[m.conn]>>]
    BY <1>3, <1>4 DEF RequestOK
  <2>2. <<m.conn, Opener[m.conn]>> \in Ends
    BY <1>3, OpenerFacts, EndIs
  <2>3. QED
    BY <1>1, <2>1, <2>2 DEF EndInv, EndOK
<1>6. ASSUME NEW c \in AllCids, NEW ok \in BOOLEAN,
             link' = [o \in Hosts |-> IF o = s THEN Tail(link[o])
                                      ELSE Append(link[o], ConnectionResponse(c, m.scid, ok))]
      PROVE  \A o \in Hosts : LinkQuiet(o)
  <2>1. LinkQuiet(s)
    BY <1>6 DEF LinkQuiet, Kinds
  <2>2. PICK r \in Packet : r = ConnectionResponse(c, m.scid, ok) /\ r.type \notin Kinds
    <3>1. ConnectionResponse(c, m.scid, ok) \in Packet
      BY <1>3, PacketIs
    <3>2. ConnectionResponse(c, m.scid, ok).type \notin Kinds
      BY DEF ConnectionResponse, Kinds
    <3>3. QED
      BY <3>1, <3>2
  <2>3. ASSUME NEW o \in Hosts, o # s PROVE LinkQuiet(o)
    <3>1. link'[o] = Append(link[o], r)
      BY <1>6, <2>2, <2>3
    <3>2. QED
      BY <2>2, <3>1 DEF LinkQuiet
  <2>4. QED
    BY <2>1, <2>3
<1>7. NoCid \in AllCids
  BY CidFacts
<1>8. CASE /\ link' = [o \in Hosts |-> IF o = s THEN Tail(link[o])
                                       ELSE Append(link[o], ConnectionResponse(NoCid, m.scid, FALSE))]
           /\ UNCHANGED channel
           /\ table' = table \/ table' = [table EXCEPT ![s] = Retained(s)]
  <2>1. \A o \in Hosts : LinkQuiet(o)
    <3>1. PICK ok \in BOOLEAN : ok = FALSE
      OBVIOUS
    <3>2. link' = [o \in Hosts |-> IF o = s THEN Tail(link[o])
                                   ELSE Append(link[o], ConnectionResponse(NoCid, m.scid, ok))]
      BY <1>8, <3>1
    <3>3. QED
      BY <1>6, <1>7, <3>2
  <2>2. local' = local
    BY <1>8 DEF channel
  <2>3. \A f \in Ends : op[f] # "none" => /\ Unregistered(f) => Unregistered(f)'
                                          /\ Unregistered(f)' => Unregistered(f) \/ op[f] = "dropped"
    <3>1. CASE table' = table
      BY <2>2, <3>1 DEF Unregistered
    <3>2. CASE table' = [table EXCEPT ![s] = Retained(s)]
      BY <1>1, <2>2, <3>2, RetainStep
    <3>3. QED
      BY <1>8, <3>1, <3>2
  <2>4. CallInv'
    BY <1>8, NoEndCalls
  <2>5. QED
    BY <1>8, <2>1, <2>3, <2>4, NoEndIsClean DEF StaysClean
<1>9. ASSUME NEW accept \in BOOLEAN, Free(s) # {}, Register(e),
             link' = [o \in Hosts |-> IF o = s THEN Tail(link[o])
                                      ELSE Append(link[o], ConnectionResponse(NewCid(s), m.scid, accept))],
             remote' = [remote EXCEPT ![e] = m.scid],
             state' = [state EXCEPT ![e] = IF accept THEN "config" ELSE "disconnected"],
             op' = [op EXCEPT ![e] = IF accept THEN "setup" ELSE "dropped"], inbox' = inbox
      PROVE  StaysClean
  <2>1. NewCid(s) \in AllCids
    BY <1>9, NewCidFree
  <2>2. \A o \in Hosts : LinkQuiet(o)
    BY <1>6, <1>9, <2>1
  <2>3. Others(e)
    BY <1>1, <1>9 DEF TypeOK, Others
  <2>4. /\ remote'[e] # NoCid
        /\ \/ state'[e] = "config" /\ op'[e] = "setup"
           \/ state'[e] = "disconnected" /\ op'[e] = "dropped"
    BY <1>1, <1>5, <1>9 DEF TypeOK
  <2>5. Duty(e)'
    BY <2>4 DEF Duty, Closing, Connected, Configuring
  <2>6. CallInv'
    BY <1>4, <1>5, <1>9, <2>3, <2>5, NewEndCalls
  <2>7. state'[e] \in Early \cup Closing
    BY <2>4 DEF Early, Closing
  <2>8. QED
    BY <1>4, <1>5, <1>9, <2>2, <2>3, <2>6, <2>7, NewEndIsClean DEF StaysClean
<1>10. QED
  BY <1>4, <1>8, <1>9 DEF OnConnectionRequest

LEMMA ForwardClean ==
  ASSUME Invs, CallInv, CleanInv, EndInv', NEW s \in Hosts, link[s] # <<>>, NEW m \in Packet, m = Head(link[s]),
         m.type # "connReq", Forward(s, m), UNCHANGED <<written, received, reconfigures>>
  PROVE  StaysClean
<1>1. CallInv'
  BY ForwardCalls
<1>2. ASSUME Clean PROVE \A g \in Ends : CleanOK(g)'
  <2>1. TypeOK /\ IdsOnce /\ \A g \in Ends : CleanOK(g)
    BY <1>2 DEF Invs, Clean, CleanInv
  <2>2. \A g \in Ends : Quiet(g)
    BY <2>1, ForwardIsQuiet
  <2>3. QED
    BY <2>1, <2>2, AllQuietIsClean
<1>3. ASSUME Clean, NEW o \in Hosts PROVE NamedOK(o)'
  <2>1. TypeOK /\ NamedOK(o)
    BY <1>3 DEF Invs, CleanInv
  <2>2. local' = local /\ link' = [link EXCEPT ![s] = Tail(link[s])]
    BY DEF Forward
  <2>3. link'[o] = link[o] \/ (link[o] # <<>> /\ link'[o] = Tail(link[o]))
    BY <2>1, <2>2 DEF TypeOK
  <2>4. QED
    BY <2>1, <2>2, <2>3, NamedStays
<1>4. QED
  BY <1>1, <1>2, <1>3 DEF StaysClean

LEMMA StutterClean ==
  ASSUME Invs, CallInv, CleanInv, EndInv', UNCHANGED vars
  PROVE  StaysClean
<1>1. UNCHANGED <<channel, written, received>> /\ link' = link /\ table' = table /\ local' = local
  BY DEF vars, channel
<1>2. \A s \in Hosts : LinkQuiet(s)
  BY <1>1 DEF LinkQuiet
<1>3. \A f \in Ends : Unregistered(f)' <=> Unregistered(f)
  BY <1>1 DEF Unregistered
<1>4. CallInv'
  BY <1>1, NoEndCalls
<1>5. QED
  BY <1>1, <1>2, <1>3, <1>4, NoEndIsClean DEF StaysClean

-----------------------------------------------------------------------------
(* A task configures its channel, writes, or takes in an event. *)
LEMMA KindFacts ==
  ASSUME NEW m \in Packet
  PROVE  /\ m.type = "configReq" => m = ConfigureRequest(m.dcid)
         /\ m.type = "configRsp" => m = ConfigureResponse(m.scid)
         /\ m.type = "data" => m = Data(m.dcid, m.from, m.seq) /\ m.seq \in Nat
<1>1. CASE \E k \in Connections, c \in AllCids : m = ConnectionRequest(k, c)
  BY <1>1 DEF ConnectionRequest
<1>2. CASE \E c \in AllCids, d \in AllCids, ok \in BOOLEAN : m = ConnectionResponse(c, d, ok)
  BY <1>2 DEF ConnectionResponse
<1>3. CASE \E c \in AllCids : m = ConfigureRequest(c)
  BY <1>3 DEF ConfigureRequest
<1>4. CASE \E c \in AllCids : m = ConfigureResponse(c)
  BY <1>4 DEF ConfigureResponse
<1>5. CASE \E c \in AllCids, d \in AllCids : m = DisconnectionRequest(c, d)
  BY <1>5 DEF DisconnectionRequest
<1>6. CASE \E c \in AllCids, d \in AllCids : m = DisconnectionResponse(c, d)
  BY <1>6 DEF DisconnectionResponse
<1>7. CASE \E e \in Ends : \E c \in AllCids, n \in 1..MaxWrites[e] : m = Data(c, e, n)
  BY <1>7 DEF Data
<1>8. QED
  BY <1>1, <1>2, <1>3, <1>4, <1>5, <1>6, <1>7 DEF Packet

\* The channel has one more packet coming.
LEMMA GainsOne ==
  ASSUME NEW q \in Seq(Packet), NEW x \in Packet, NEW T
  PROVE  q \o <<x>> \in Seq(Packet) /\ Gained(q \o <<x>>, q, x, T)
<1>1. q \o <<x>> = Append(q, x)
  OBVIOUS
<1>2. /\ Append(q, x) \in Seq(Packet)
      /\ \A y : Has(Append(q, x), y) <=> Has(q, y) \/ y = x
      /\ \A y, z : Before(Append(q, x), y, z) <=> Before(q, y, z) \/ (Has(q, y) /\ z = x)
  BY Appended
<1>3. QED
  BY <1>1, <1>2 DEF Gained

LEMMA OrderlyPeerOn ==
  ASSUME NEW q, NEW c, NEW p, NEW st, NEW ps, NEW t1, NEW n \in Nat, NEW w \in Nat, NEW v \in Nat,
         Orderly(q, c, p, st, ps, n, w), w <= v,
         ps \in Asked => t1 \in Asked, ps \in Answering => t1 \in Answering
  PROVE  Orderly(q, c, p, st, t1, n, v)
<1>1. \A k \in Nat : k <= w => k <= v
  OBVIOUS
<1>2. QED
  BY <1>1 DEF Orderly

\* What the peer of a task that sends msgs has coming.
LEMMA PeerHears ==
  ASSUME TypeOK, NEW e \in Ends, NEW msgs, Talk(e, msgs), NEW p, p = Peer(e)
  PROVE  /\ state'[p] = state[p] /\ written'[p] = written[p] /\ received'[p] = received[p] /\ local'[p] = local[p]
         /\ (Live(p)' <=> Live(p)) /\ (Unregistered(p)' <=> Unregistered(p))
         /\ Stream(p)' = IF Live(p) /\ ~Unregistered(p) THEN Stream(p) \o msgs ELSE Stream(p)
         /\ Told(p) => Told(p)'
         /\ Live(p) /\ Has(msgs, ConfigureResponse(local[p])) => Told(p)'
<1>1. p \in Ends /\ p # e /\ Host(p) # Host(e)
  BY EndFacts
<1>2. state'[p] = state[p] /\ written'[p] = written[p] /\ received'[p] = received[p] /\ msgs \in Seq(Packet)
  BY <1>1 DEF Talk, Others
<1>3. /\ (Live(p)' <=> Live(p)) /\ (Unregistered(p)' <=> Unregistered(p)) /\ local'[p] = local[p]
      /\ Stream(p)' = IF Live(p) /\ ~Unregistered(p) THEN Stream(p) \o msgs ELSE Stream(p)
  BY <1>1, TalkStreams
<1>4. PICK q \in Seq(Packet) : q = Stream(p)
  BY <1>1, StreamIs
<1>5. \A y : Has(q \o msgs, y) <=> Has(q, y) \/ Has(msgs, y)
  BY <1>2, Concat
<1>6. PICK y : y = ConfigureResponse(local[p])
  OBVIOUS
<1>7. Told(p)' <=> Unregistered(p) \/ Has(Stream(p)', y)
  BY <1>3, <1>6 DEF Told
<1>8. Told(p) <=> Unregistered(p) \/ Has(Stream(p), y)
  BY <1>6 DEF Told
<1>9. Told(p) => Told(p)'
  BY <1>3, <1>4, <1>5, <1>7, <1>8
<1>10. Live(p) /\ Has(msgs, y) => Told(p)'
  BY <1>3, <1>4, <1>5, <1>7
<1>11. QED
  BY <1>2, <1>3, <1>6, <1>9, <1>10

LEMMA OwnPart ==
  ASSUME NEW e \in Ends, NEW msgs, Talk(e, msgs), NEW p, p = Peer(e),
         Agree(state'[e], state'[p], written'[e], Told(p)'),
         Orderly(Stream(e)', local[e], p, state'[e], state'[p], Len(received'[e]), written'[p]),
         Live(e)' => Whole(Stream(e)', local[e], p, Len(received'[e]), written'[p], Unregistered(e)),
         ReadOK(e)'
  PROVE  CleanOK(e)'
<1>1. local'[e] = local[e] /\ (Unregistered(e)' <=> Unregistered(e))
  BY DEF Talk, Unregistered
<1>2. InPhase(e)'
  BY DEF InPhase
<1>3. StreamOK(e)'
  BY <1>1 DEF StreamOK
<1>4. NothingMissing(e)'
  BY <1>1 DEF NothingMissing, Whole
<1>5. QED
  BY <1>2, <1>3, <1>4 DEF CleanOK

LEMMA PeerPart ==
  ASSUME TypeOK, NEW e \in Ends, NEW msgs, Talk(e, msgs), NEW p, p = Peer(e), CleanOK(p),
         Agree(state[p], state'[e], written[p], Told(e)'),
         Live(p) /\ ~Unregistered(p) =>
           /\ Orderly(Stream(p) \o msgs, local[p], e, state[p], state'[e], Len(received[p]), written'[e])
           /\ Whole(Stream(p) \o msgs, local[p], e, Len(received[p]), written'[e], FALSE),
         state[e] \in Asked => state'[e] \in Asked, state[e] \in Answering => state'[e] \in Answering,
         written'[e] \in Nat, written[e] <= written'[e]
  PROVE  CleanOK(p)'
<1>1. p \in Ends /\ Peer(p) = e
  BY EndFacts
<1>2. /\ state'[p] = state[p] /\ written'[p] = written[p] /\ received'[p] = received[p] /\ local'[p] = local[p]
      /\ (Live(p)' <=> Live(p)) /\ (Unregistered(p)' <=> Unregistered(p))
      /\ Stream(p)' = IF Live(p) /\ ~Unregistered(p) THEN Stream(p) \o msgs ELSE Stream(p)
  BY PeerHears
<1>3. InPhase(p)'
  BY <1>1, <1>2 DEF InPhase
<1>4. PICK n \in Nat, w \in Nat, v \in Nat : n = Len(received[p]) /\ w = written[e] /\ v = written'[e]
  <2>1. received[p] \in Seq(Packet) /\ written[e] \in Nat
    BY <1>1 DEF TypeOK
  <2>2. Len(received[p]) \in Nat
    BY <2>1
  <2>3. QED
    BY <2>1, <2>2
<1>5. StreamOK(p)'
  <2>1. CASE Live(p) /\ ~Unregistered(p)
    BY <1>1, <1>2, <2>1 DEF StreamOK
  <2>2. CASE ~(Live(p) /\ ~Unregistered(p))
    <3>1. Orderly(Stream(p), local[p], e, state[p], state[e], n, w)
      BY <1>1, <1>4 DEF CleanOK, StreamOK
    <3>2. Orderly(Stream(p), local[p], e, state[p], state'[e], n, v)
      BY <1>4, <3>1, OrderlyPeerOn
    <3>3. Stream(p)' = Stream(p)
      BY <1>2, <2>2
    <3>4. QED
      BY <1>1, <1>2, <1>4, <3>2, <3>3 DEF StreamOK
  <2>3. QED
    BY <2>1, <2>2
<1>6. NothingMissing(p)'
  <2>1. SUFFICES ASSUME Live(p)
                 PROVE  Whole(Stream(p)', local[p], e, n, v, Unregistered(p))
    BY <1>1, <1>2, <1>4 DEF NothingMissing, Whole
  <2>2. CASE Unregistered(p)
    <3>1. n <= w
      BY <1>1, <1>4, <2>1 DEF CleanOK, NothingMissing, Whole
    <3>2. n <= v
      BY <1>4, <3>1
    <3>3. QED
      BY <2>2, <3>2 DEF Whole
  <2>3. CASE ~Unregistered(p)
    BY <1>2, <1>4, <2>1, <2>3 DEF Whole
  <2>4. QED
    BY <2>2, <2>3
<1>7. ReadOK(p)'
  BY <1>2 DEF CleanOK, ReadOK
<1>8. QED
  BY <1>3, <1>5, <1>6, <1>7 DEF CleanOK

\* What is known before the step.
LEMMA Facing ==
  ASSUME Invs, CallInv, Clean, CleanInv, NEW e \in Ends
  PROVE  \E p \in Ends, n \in Nat, k \in Nat, w \in Nat, v \in Nat :
           /\ p = Peer(e) /\ e = Peer(p) /\ p # e
           /\ n = Len(received[e]) /\ k = Len(received[p]) /\ w = written[e] /\ v = written[p]
           /\ CleanOK(e) /\ CleanOK(p)
           /\ Agree(state[e], state[p], w, Told(p)) /\ Agree(state[p], state[e], v, Told(e))
           /\ Orderly(Stream(e), local[e], p, state[e], state[p], n, v)
           /\ Orderly(Stream(p), local[p], e, state[p], state[e], k, w)
           /\ Live(e) => Whole(Stream(e), local[e], p, n, v, Unregistered(e))
           /\ Live(p) => Whole(Stream(p), local[p], e, k, w, Unregistered(p))
           /\ remote[e] # NoCid => remote[e] = local[p]
<1>1. PICK p \in Ends : p = Peer(e) /\ e = Peer(p) /\ p # e
  BY EndFacts
<1>2. CleanOK(e) /\ CleanOK(p) /\ IdsOnce /\ TypeOK /\ RemoteInv /\ EndInv
  BY DEF Invs, Clean, CleanInv
<1>3. PICK n \in Nat, k \in Nat, w \in Nat, v \in Nat :
        n = Len(received[e]) /\ k = Len(received[p]) /\ w = written[e] /\ v = written[p]
  <2>1. received[e] \in Seq(Packet) /\ received[p] \in Seq(Packet) /\ written[e] \in Nat /\ written[p] \in Nat
    BY <1>2 DEF TypeOK
  <2>2. Len(received[e]) \in Nat /\ Len(received[p]) \in Nat
    BY <2>1
  <2>3. QED
    BY <2>1, <2>2
<1>5. remote[e] # NoCid => remote[e] = local[p]
  BY <1>1, <1>2, RemoteIsPeers
<1>6. /\ Agree(state[e], state[p], w, Told(p)) /\ Agree(state[p], state[e], v, Told(e))
      /\ Orderly(Stream(e), local[e], p, state[e], state[p], n, v)
      /\ Orderly(Stream(p), local[p], e, state[p], state[e], k, w)
      /\ Live(e) => Whole(Stream(e), local[e], p, n, v, Unregistered(e))
      /\ Live(p) => Whole(Stream(p), local[p], e, k, w, Unregistered(p))
  BY <1>1, <1>2, <1>3 DEF CleanOK, InPhase, StreamOK, NothingMissing
<1>7. QED
  BY <1>1, <1>2, <1>3, <1>5, <1>6

\* A task that neither configures nor moves data.
LEMMA StaysQuiet ==
  ASSUME TypeOK, NEW e \in Ends, NEW msgs, Talk(e, msgs), Moves(state[e], state'[e]),
         written'[e] = written[e], received'[e] = received[e],
         Live(e)' => Live(e) /\ inbox'[e] = inbox[e]
  PROVE  Quiet(e)
<1>1. /\ local' = local /\ (Unregistered(e)' <=> Unregistered(e))
      /\ msgs \in Seq(Packet) /\ Send(Host(e), msgs)
  BY DEF Talk, Unregistered
<1>2. link'[Host(e)] = link[Host(e)]
  BY <1>1, SendFacts, EndFacts
<1>3. Live(e)' => Stream(e)' = Stream(e)
  BY <1>1, <1>2 DEF Stream
<1>4. QED
  BY <1>1, <1>3 DEF Quiet, Thinned

LEMMA TalkNothing ==
  ASSUME TypeOK, NEW e \in Ends, local' = local, table' = table, reconfigures' = reconfigures, Others(e), link' = link
  PROVE  Talk(e, <<>>)
<1>1. Send(Host(e), <<>>) /\ <<>> \in Seq(Packet)
  BY SendNothing, EndFacts
<1>2. \A i \in 1..Len(<<>>) : <<>>[i].type \in Kinds => Cid(<<>>[i]) = remote[e] /\ remote[e] # NoCid
  OBVIOUS
<1>3. QED
  BY <1>1, <1>2 DEF Talk

LEMMA TalkOne ==
  ASSUME NEW e \in Ends, local' = local, table' = table, reconfigures' = reconfigures, Others(e),
         NEW x \in Packet, Send(Host(e), <<x>>), x.type \in Kinds => Cid(x) = remote[e] /\ remote[e] # NoCid
  PROVE  Talk(e, <<x>>) /\ (x.type \notin Kinds => \A i \in 1..Len(<<x>>) : <<x>>[i].type \notin Kinds)
<1>1. PICK msgs \in Seq(Packet) : msgs = <<x>> /\ Len(msgs) = 1 /\ msgs[1] = x
  BY OnePacket
<1>2. Talk(e, msgs)
  BY <1>1 DEF Talk
<1>3. QED
  BY <1>1, <1>2

LEMMA ConnectClean ==
  ASSUME Invs, Clean, CleanInv, EndInv', NEW e \in Ends, Connect(e)
  PROVE  (\A g \in Ends : CleanOK(g)') /\ (\A s \in Hosts : NamedOK(s)')
<1>1. TypeOK /\ EndOK(e)
  BY DEF Invs, EndInv
<1>2. PICK x \in Packet : x = ConnectionRequest(Conn(e), local[e])
  BY <1>1, PacketIs, EndFacts DEF TypeOK
<1>3. x.type \notin Kinds
  BY <1>2 DEF ConnectionRequest, Kinds
<1>4. /\ local' = local /\ table' = table /\ reconfigures' = reconfigures /\ Others(e)
      /\ Send(Host(e), <<x>>)
      /\ written' = written /\ received' = received /\ inbox' = inbox
      /\ op[e] = "created" /\ state'[e] = "waitConnectRsp"
  BY <1>1, <1>2 DEF TypeOK, Connect, Others
<1>5. Talk(e, <<x>>) /\ \A i \in 1..Len(<<x>>) : <<x>>[i].type \notin Kinds
  BY <1>3, <1>4, TalkOne
<1>6. state[e] = "idle"
  BY <1>1, <1>4 DEF EndOK
<1>7. Moves(state[e], state'[e]) /\ Live(e)
  BY <1>4, <1>6 DEF Moves, Early, Live, Closing
<1>8. Quiet(e)
  BY <1>1, <1>4, <1>5, <1>7, StaysQuiet
<1>9. QED
  BY <1>5, <1>8, QuietTalkIsClean

LEMMA WaitClean ==
  ASSUME Invs, Clean, CleanInv, EndInv', NEW e \in Ends, op[e] \notin {"none", "dropped"}, Others(e),
         state'[e] = state[e],
         UNCHANGED <<local, inbox, table, link, written, received, reconfigures>>
  PROVE  (\A g \in Ends : CleanOK(g)') /\ (\A s \in Hosts : NamedOK(s)')
<1>1. TypeOK
  BY DEF Invs
<1>2. Talk(e, <<>>)
  BY <1>1, TalkNothing
<1>3. Moves(state[e], state'[e]) /\ (Live(e)' => Live(e))
  BY DEF Moves, Live
<1>4. Quiet(e)
  BY <1>1, <1>2, <1>3, StaysQuiet
<1>5. \A i \in 1..Len(<<>>) : <<>>[i].type \notin Kinds
  OBVIOUS
<1>6. QED
  BY <1>2, <1>4, <1>5, QuietTalkIsClean

LEMMA DisconnectClean ==
  ASSUME Invs, Clean, CleanInv, EndInv', NEW e \in Ends, Disconnect(e)
  PROVE  (\A g \in Ends : CleanOK(g)') /\ (\A s \in Hosts : NamedOK(s)')
<1>1. TypeOK
  BY DEF Invs
<1>2. PICK x \in Packet : x = DisconnectionRequest(remote[e], local[e])
  BY <1>1, PacketIs DEF TypeOK
<1>3. x.type \notin Kinds
  BY <1>2 DEF DisconnectionRequest, Kinds
<1>4. /\ local' = local /\ table' = table /\ reconfigures' = reconfigures /\ Others(e)
      /\ Send(Host(e), <<x>>)
      /\ written' = written /\ received' = received /\ state'[e] = "waitDisconnect"
  BY <1>1, <1>2 DEF TypeOK, Disconnect, Others
<1>5. Talk(e, <<x>>) /\ \A i \in 1..Len(<<x>>) : <<x>>[i].type \notin Kinds
  BY <1>3, <1>4, TalkOne
<1>6. Moves(state[e], state'[e]) /\ ~Live(e)'
  BY <1>4 DEF Moves, Live, Closing
<1>7. Quiet(e)
  BY <1>1, <1>4, <1>5, <1>6, StaysQuiet
<1>8. QED
  BY <1>5, <1>7, QuietTalkIsClean

LEMMA DropClean ==
  ASSUME Invs, Clean, CleanInv, EndInv', NEW e \in Ends, Drop(e)
  PROVE  (\A g \in Ends : CleanOK(g)') /\ (\A s \in Hosts : NamedOK(s)')
<1>1. TypeOK
  BY DEF Invs
<1>2. PICK req \in Packet, rsp \in Packet :
        /\ req = DisconnectionRequest(remote[e], local[e]) /\ rsp = DisconnectionResponse(local[e], remote[e])
        /\ req.type \notin Kinds /\ rsp.type \notin Kinds
  <2>1. DisconnectionRequest(remote[e], local[e]) \in Packet /\ DisconnectionResponse(local[e], remote[e]) \in Packet
    BY <1>1, PacketIs DEF TypeOK
  <2>2. QED
    BY <2>1 DEF DisconnectionRequest, DisconnectionResponse, Kinds
<1>3. /\ local' = local /\ table' = table /\ reconfigures' = reconfigures /\ Others(e)
      /\ written' = written /\ received' = received /\ op'[e] = "dropped"
      /\ state'[e] = state[e] \/ state'[e] \in Closing
  BY <1>1 DEF TypeOK, Drop, Others, Closing
<1>4. PICK msgs \in Seq(Packet) : msgs = DropReplies(e) /\ \A i \in 1..Len(msgs) : msgs[i].type \notin Kinds
  <2>1. CASE state[e] \in Closed
    <3>1. DropReplies(e) = <<>>
      BY <2>1 DEF DropReplies
    <3>2. WITNESS <<>> \in Seq(Packet)
    <3>3. QED
      BY <3>1
  <2>2. CASE state[e] \notin Closed /\ "discReq" \in EventTypes(e)
    <3>1. DropReplies(e) = <<req>> \o <<rsp>>
      BY <1>2, <2>2 DEF DropReplies
    <3>2. PICK msgs \in Seq(Packet) :
            msgs = <<req>> \o <<rsp>> /\ Len(msgs) = 2 /\ msgs[1] = req /\ msgs[2] = rsp
      BY TwoPackets
    <3>3. \A i \in 1..Len(msgs) : msgs[i].type \notin Kinds
      BY <1>2, <3>2
    <3>4. QED
      BY <3>1, <3>2, <3>3
  <2>3. CASE state[e] \notin Closed /\ "discReq" \notin EventTypes(e)
    <3>1. DropReplies(e) = <<req>> \o <<>>
      BY <1>2, <2>3 DEF DropReplies
    <3>2. <<req>> \o <<>> = <<req>>
      OBVIOUS
    <3>3. PICK msgs \in Seq(Packet) : msgs = <<req>> /\ Len(msgs) = 1 /\ msgs[1] = req
      BY OnePacket
    <3>4. \A i \in 1..Len(msgs) : msgs[i].type \notin Kinds
      BY <1>2, <3>3
    <3>5. QED
      BY <3>1, <3>2, <3>3, <3>4
  <2>4. QED
    BY <2>1, <2>2, <2>3
<1>5. Talk(e, msgs)
  <2>1. Send(Host(e), msgs)
    BY <1>4 DEF Drop
  <2>2. QED
    BY <1>3, <1>4, <2>1 DEF Talk
<1>6. Moves(state[e], state'[e]) /\ ~Live(e)'
  BY <1>3 DEF Moves, Live
<1>7. Quiet(e)
  BY <1>1, <1>3, <1>5, <1>6, StaysQuiet
<1>8. QED
  BY <1>4, <1>5, <1>7, QuietTalkIsClean

\* The task of a new channel sends its request; the peer has not seen one.
LEMMA ConfigureClean ==
  ASSUME Invs, CallInv, Clean, CleanInv, EndInv', NEW e \in Ends, Configure(e)
  PROVE  (\A g \in Ends : CleanOK(g)') /\ (\A s \in Hosts : NamedOK(s)')
<1>1. TypeOK /\ EndInv /\ CallOK(e)
  BY DEF Invs, CallInv
<1>2. PICK p \in Ends, n \in Nat, k \in Nat, w \in Nat, v \in Nat :
        /\ p = Peer(e) /\ e = Peer(p) /\ p # e
        /\ n = Len(received[e]) /\ k = Len(received[p]) /\ w = written[e] /\ v = written[p]
        /\ CleanOK(e) /\ CleanOK(p)
        /\ Agree(state[e], state[p], w, Told(p)) /\ Agree(state[p], state[e], v, Told(e))
        /\ Orderly(Stream(e), local[e], p, state[e], state[p], n, v)
        /\ Orderly(Stream(p), local[p], e, state[p], state[e], k, w)
        /\ Live(e) => Whole(Stream(e), local[e], p, n, v, Unregistered(e))
        /\ Live(p) => Whole(Stream(p), local[p], e, k, w, Unregistered(p))
        /\ remote[e] # NoCid => remote[e] = local[p]
  BY Facing
<1>3. op[e] = "setup" /\ state[e] = "config"
  BY <1>1 DEF Configure, CallOK
<1>4. remote[e] # NoCid /\ remote[e] = local[p]
  BY <1>1, <1>2, <1>3 DEF CallOK, Connected, Configuring
<1>5. PICK x \in Packet : x = ConfigureRequest(local[p]) /\ x = ConfigureRequest(remote[e])
  BY <1>1, <1>4, PacketIs DEF TypeOK
<1>6. /\ local' = local /\ table' = table /\ reconfigures' = reconfigures /\ Others(e)
      /\ Send(Host(e), <<x>>)
      /\ written' = written /\ received' = received /\ inbox' = inbox
      /\ state'[e] = "configReqRsp" /\ op'[e] = "serving"
  BY <1>1, <1>3, <1>5 DEF TypeOK, Configure, SendConfigure, AfterConfigure, Others
<1>7. PICK msgs : msgs = <<x>>
  OBVIOUS
<1>8. Talk(e, msgs)
  BY <1>4, <1>5, <1>6, <1>7, TalkOne DEF ConfigureRequest, Cid
<1>9. Stream(e)' = Stream(e)
  <2>1. link'[Host(e)] = link[Host(e)]
    BY <1>1, <1>8, SendFacts, EndFacts DEF Talk
  <2>2. Live(e) /\ Live(e)'
    BY <1>3, <1>6 DEF Live, Closing
  <2>3. QED
    BY <1>6, <2>1, <2>2 DEF Stream, Unregistered
<1>10. state'[p] = state[p] /\ written'[p] = written[p] /\ (Told(p) => Told(p)')
  BY <1>1, <1>2, <1>8, PeerHears
<1>11. w = 0 /\ v = 0 /\ state[p] \notin {"configReq", "configRsp", "open"}
  BY <1>2, <1>3 DEF Agree, Answering, Asked, Closing
<1>12. CleanOK(e)'
  <2>1. Agree(state'[e], state'[p], written'[e], Told(p)')
    BY <1>2, <1>6, <1>11 DEF Agree
  <2>2. Orderly(Stream(e)', local[e], p, state'[e], state'[p], Len(received'[e]), written'[p])
    <3>1. Orderly(Stream(e), local[e], p, "config", state[p], n, v)
      BY <1>2, <1>3
    <3>2. Orderly(Stream(e), local[e], p, "configReqRsp", state[p], n, v)
      BY <3>1 DEF Orderly
    <3>3. QED
      BY <1>2, <1>6, <1>9, <1>10, <3>2
  <2>3. Whole(Stream(e)', local[e], p, Len(received'[e]), written'[p], Unregistered(e))
    BY <1>2, <1>3, <1>6, <1>9, <1>10 DEF Live, Closing
  <2>4. ReadOK(e)'
    BY <1>2, <1>6 DEF CleanOK, ReadOK
  <2>5. QED
    BY <1>2, <1>8, <2>1, <2>2, <2>3, <2>4, OwnPart
<1>13. CleanOK(p)'
  <2>1. Agree(state[p], state'[e], written[p], Told(e)')
    BY <1>2, <1>11 DEF Agree
  <2>2. ASSUME Live(p), ~Unregistered(p)
        PROVE  /\ Orderly(Stream(p) \o msgs, local[p], e, state[p], state'[e], Len(received[p]), written'[e])
               /\ Whole(Stream(p) \o msgs, local[p], e, Len(received[p]), written'[e], FALSE)
    <3>1. PICK q \in Seq(Packet) : q = Stream(p)
      BY <1>1, StreamIs
    <3>2. Gained(q \o <<x>>, q, x, Counted(local[p], e))
      BY GainsOne
    <3>3. Orderly(q, local[p], e, state[p], state[e], k, w)
      BY <1>2, <3>1
    <3>4. Orderly(q \o <<x>>, local[p], e, state[p], "configReqRsp", k, w)
      BY <1>3, <1>5, <1>11, <3>2, <3>3, OrderlyRequested DEF Asked, Closing
    <3>5. Whole(q, local[p], e, k, w, Unregistered(p))
      BY <1>2, <2>2, <3>1
    <3>6. \A j \in Nat : Data(local[p], e, j) \in Counted(local[p], e)
      BY CountedFacts
    <3>7. \A j \in Nat : Has(q, Data(local[p], e, j)) => Has(q \o <<x>>, Data(local[p], e, j))
      BY <3>2, <3>6 DEF Gained
    <3>8. Whole(q \o <<x>>, local[p], e, k, w, FALSE)
      BY <2>2, <3>5, <3>7 DEF Whole
    <3>9. QED
      BY <1>2, <1>6, <1>7, <3>1, <3>4, <3>8
  <2>3. (state[e] \in Asked => state'[e] \in Asked) /\ (state[e] \in Answering => state'[e] \in Answering)
    BY <1>3 DEF Asked, Answering, Closing
  <2>4. written'[e] \in Nat /\ written[e] <= written'[e]
    BY <1>2, <1>6
  <2>5. QED
    BY <1>1, <1>2, <1>8, <2>1, <2>2, <2>3, <2>4, PeerPart
<1>14. QED
  BY <1>2, <1>8, <1>12, <1>13, TalkIsClean

\* A task writes: the peer has the response, or will have it first.
LEMMA WriteClean ==
  ASSUME Invs, CallInv, Clean, CleanInv, EndInv', NEW e \in Ends, Write(e), MaySend(e)
  PROVE  (\A g \in Ends : CleanOK(g)') /\ (\A s \in Hosts : NamedOK(s)')
<1>1. TypeOK /\ EndInv /\ CallOK(e)
  BY DEF Invs, CallInv
<1>2. PICK p \in Ends, n \in Nat, k \in Nat, w \in Nat, v \in Nat :
        /\ p = Peer(e) /\ e = Peer(p) /\ p # e
        /\ n = Len(received[e]) /\ k = Len(received[p]) /\ w = written[e] /\ v = written[p]
        /\ CleanOK(e) /\ CleanOK(p)
        /\ Agree(state[e], state[p], w, Told(p)) /\ Agree(state[p], state[e], v, Told(e))
        /\ Orderly(Stream(e), local[e], p, state[e], state[p], n, v)
        /\ Orderly(Stream(p), local[p], e, state[p], state[e], k, w)
        /\ Live(e) => Whole(Stream(e), local[e], p, n, v, Unregistered(e))
        /\ Live(p) => Whole(Stream(p), local[p], e, k, w, Unregistered(p))
        /\ remote[e] # NoCid => remote[e] = local[p]
  BY Facing
<1>3. op[e] = "serving" /\ state[e] = "open" /\ written[e] < MaxWrites[e]
  BY DEF Write, MaySend
<1>4. remote[e] # NoCid /\ remote[e] = local[p]
  BY <1>1, <1>2, <1>3 DEF CallOK, Connected, Configuring
<1>5. PICK x \in Packet : x = NextData(e) /\ x.type = "data" /\ x.dcid = remote[e]
  BY <1>1, <1>3, DataIs
<1>6. x = Data(local[p], e, w + 1)
  BY <1>2, <1>4, <1>5 DEF NextData
<1>7. /\ local' = local /\ table' = table /\ reconfigures' = reconfigures /\ Others(e)
      /\ Send(Host(e), <<x>>)
      /\ written'[e] = w + 1 /\ received' = received /\ inbox' = inbox
      /\ state'[e] = state[e] /\ op'[e] = op[e]
  BY <1>1, <1>2, <1>3, <1>5 DEF TypeOK, Write, MaySend, Others
<1>8. PICK msgs : msgs = <<x>>
  OBVIOUS
<1>9. Talk(e, msgs)
  BY <1>4, <1>5, <1>7, <1>8, TalkOne DEF Cid
<1>10. Stream(e)' = Stream(e)
  <2>1. link'[Host(e)] = link[Host(e)]
    BY <1>1, <1>9, SendFacts, EndFacts DEF Talk
  <2>2. Live(e) /\ Live(e)'
    BY <1>3, <1>7 DEF Live, Closing
  <2>3. QED
    BY <1>7, <2>1, <2>2 DEF Stream, Unregistered
<1>11. state'[p] = state[p] /\ written'[p] = written[p] /\ (Told(p) => Told(p)')
  BY <1>1, <1>2, <1>9, PeerHears
<1>12. /\ state[p] \in Answering
       /\ state[p] = "configRsp" => Told(p)
  BY <1>2, <1>3 DEF Agree
<1>13. CleanOK(e)'
  <2>1. Agree(state'[e], state'[p], written'[e], Told(p)')
    BY <1>2, <1>3, <1>7, <1>11 DEF Agree
  <2>2. Orderly(Stream(e)', local[e], p, state'[e], state'[p], Len(received'[e]), written'[p])
    BY <1>2, <1>7, <1>10, <1>11
  <2>3. Whole(Stream(e)', local[e], p, Len(received'[e]), written'[p], Unregistered(e))
    BY <1>2, <1>3, <1>7, <1>10, <1>11 DEF Live, Closing
  <2>4. ReadOK(e)'
    BY <1>2, <1>7 DEF CleanOK, ReadOK
  <2>5. QED
    BY <1>2, <1>9, <2>1, <2>2, <2>3, <2>4, OwnPart
<1>14. CleanOK(p)'
  <2>1. Agree(state[p], state'[e], written[p], Told(e)')
    <3>1. Told(e)' <=> Told(e)
      BY <1>7, <1>10 DEF Told, Unregistered
    <3>2. QED
      BY <1>2, <1>7, <3>1 DEF Agree
  <2>2. ASSUME Live(p), ~Unregistered(p)
        PROVE  /\ Orderly(Stream(p) \o msgs, local[p], e, state[p], state'[e], Len(received[p]), written'[e])
               /\ Whole(Stream(p) \o msgs, local[p], e, Len(received[p]), written'[e], FALSE)
    <3>1. PICK q \in Seq(Packet) : q = Stream(p)
      BY <1>1, StreamIs
    <3>2. Gained(q \o <<x>>, q, x, Counted(local[p], e))
      BY GainsOne
    <3>3. Orderly(q, local[p], e, state[p], state[e], k, w)
      BY <1>2, <3>1
    <3>4. Whole(q, local[p], e, k, w, FALSE)
      BY <1>2, <2>2, <3>1 DEF Whole
    <3>5. state[p] # "open" => Has(q, ConfigureResponse(local[p]))
      BY <1>12, <2>2, <3>1 DEF Live, Told, Answering
    <3>6. /\ Orderly(q \o <<x>>, local[p], e, state[p], state[e], k, w + 1)
          /\ Whole(q \o <<x>>, local[p], e, k, w + 1, FALSE)
      BY <1>6, <3>2, <3>3, <3>4, <3>5, OrderlyWritten
    <3>7. QED
      BY <1>2, <1>7, <1>8, <3>1, <3>6
  <2>3. written'[e] \in Nat /\ written[e] <= written'[e]
    BY <1>2, <1>7
  <2>4. QED
    BY <1>1, <1>2, <1>7, <1>9, <2>1, <2>2, <2>3, PeerPart
<1>15. QED
  BY <1>2, <1>9, <1>13, <1>14, TalkIsClean

\* The task takes in m, which takes its channel to st.
Polled(e, m, st) ==
  /\ op[e] \in Polling /\ state[e] \in States \ {"none", "idle"} /\ op'[e] \notin {"none", "dropped"}
  /\ inbox[e] # <<>> /\ m = Head(inbox[e]) /\ inbox'[e] = Tail(inbox[e])
  /\ st = Reaction(state[e], m) /\ state'[e] = st
  /\ local' = local /\ table' = table /\ reconfigures' = reconfigures /\ Others(e)
  /\ IF op[e] = "writing" /\ st = "open"
     THEN Send(Host(e), Replies(e, m) \o <<NextData(e)>>) /\ written'[e] = written[e] + 1
     ELSE Send(Host(e), Replies(e, m)) /\ written'[e] = written[e]
  /\ received'[e] = IF m.type = "data" /\ state[e] \in Connected /\ op[e] = "serving"
                    THEN Append(received[e], m) ELSE received[e]

LEMMA PollIs ==
  ASSUME Invs, NEW e \in Ends, Poll(e)
  PROVE  \E m \in Packet, st \in States \ {"none", "idle"} : Polled(e, m, st)
<1>1. TypeOK /\ EndOK(e)
  BY DEF Invs, EndInv
<1>2. inbox[e] \in Seq(Packet) /\ inbox[e] # <<>> /\ op[e] \in Polling
  BY <1>1 DEF TypeOK, Poll
<1>3. PICK m \in Packet : m = Head(inbox[e])
  BY <1>2, HeadTailProperties
<1>4. state[e] \in States \ {"none", "idle"}
  BY <1>1, <1>2 DEF TypeOK, EndOK, Polling
<1>5. PICK st \in States \ {"none", "idle"} : st = Reaction(state[e], m)
  BY <1>4, ReactionIs
<1>6. PICK sends \in BOOLEAN : sends <=> op[e] = "writing" /\ st = "open"
  OBVIOUS
<1>7. /\ state' = [state EXCEPT ![e] = st]
      /\ remote' = [remote EXCEPT ![e] =
                      IF st = "config" /\ state[e] = "waitConnectRsp" THEN m.dcid ELSE remote[e]]
      /\ op' = [op EXCEPT ![e] = OpAfter(e, st)]
      /\ Send(Host(e), Replies(e, m) \o IF sends THEN <<NextData(e)>> ELSE <<>>)
      /\ written' = [written EXCEPT ![e] = IF sends THEN written[e] + 1 ELSE written[e]]
      /\ received' = [received EXCEPT ![e] =
                        IF m.type = "data" /\ state[e] \in Connected /\ op[e] = "serving"
                        THEN Append(received[e], m) ELSE received[e]]
      /\ inbox' = [inbox EXCEPT ![e] = Tail(inbox[e])]
      /\ local' = local /\ table' = table /\ reconfigures' = reconfigures
  BY <1>3, <1>5, <1>6 DEF Poll
<1>8. Others(e)
  BY <1>1, <1>7 DEF TypeOK, Others
<1>9. /\ state'[e] = st /\ op'[e] = OpAfter(e, st) /\ inbox'[e] = Tail(inbox[e])
      /\ written'[e] = IF sends THEN written[e] + 1 ELSE written[e]
      /\ received'[e] = IF m.type = "data" /\ state[e] \in Connected /\ op[e] = "serving"
                        THEN Append(received[e], m) ELSE received[e]
  BY <1>1, <1>7 DEF TypeOK
<1>10. op'[e] \notin {"none", "dropped"}
  BY <1>2, <1>9, OpAfterIs DEF Polling
<1>11. ~sends => Send(Host(e), Replies(e, m))
  <2>1. Replies(e, m) \in Seq(Packet)
    BY <1>2, <1>3, RepliesSent
  <2>2. PICK q \in Seq(Packet) : q = Replies(e, m)
    BY <2>1
  <2>3. q \o <<>> = q
    OBVIOUS
  <2>4. QED
    BY <1>7, <2>2, <2>3
<1>12. sends => Send(Host(e), Replies(e, m) \o <<NextData(e)>>)
  BY <1>7
<1>13. Polled(e, m, st)
  BY <1>2, <1>3, <1>4, <1>5, <1>6, <1>7, <1>8, <1>9, <1>10, <1>11, <1>12 DEF Polled
<1>14. QED
  BY <1>13

LEMMA PolledStream ==
  ASSUME TypeOK, NEW e \in Ends, NEW m \in Packet, NEW st, Polled(e, m, st), link'[Host(e)] = link[Host(e)],
         state[e] \notin Closing, st \notin Closing, NEW T
  PROVE  /\ TookIn(Stream(e)', Stream(e), m, T) /\ Live(e) /\ Live(e)'
         /\ (Unregistered(e)' <=> Unregistered(e))
<1>1. Live(e) /\ Live(e)' /\ (Unregistered(e)' <=> Unregistered(e))
  BY DEF Polled, Live, Unregistered, Polling
<1>2. PICK a \in Seq(Packet), b \in Seq(Packet) : a = inbox[e] /\ b = link[Host(e)]
  BY StreamIs
<1>3. a # <<>> /\ m = Head(a)
  BY <1>2 DEF Polled
<1>4. PICK t \in Seq(Packet) : t = Tail(a)
  BY <1>3, HeadFirst
<1>5. inbox'[e] = t
  BY <1>2, <1>4 DEF Polled
<1>6. /\ \A y : Has(a, y) <=> Has(t, y) \/ y = m
      /\ \A y, z : Before(a, y, z) <=> Before(t, y, z) \/ (y = m /\ Has(t, z))
  BY <1>3, <1>4, HeadFirst
<1>7. CASE Unregistered(e)
  <2>1. Stream(e) = a /\ Stream(e)' = t
    BY <1>1, <1>2, <1>5, <1>7 DEF Stream
  <2>2. QED
    BY <1>1, <1>6, <2>1 DEF TookIn
<1>8. CASE ~Unregistered(e)
  <2>1. Stream(e) = a \o b /\ Stream(e)' = t \o b
    BY <1>1, <1>2, <1>5, <1>8 DEF Stream
  <2>2. /\ \A y : Has(a \o b, y) <=> Has(a, y) \/ Has(b, y)
        /\ \A y, z : Before(a \o b, y, z) <=> Before(a, y, z) \/ Before(b, y, z) \/ (Has(a, y) /\ Has(b, z))
    BY Concat
  <2>3. /\ \A y : Has(t \o b, y) <=> Has(t, y) \/ Has(b, y)
        /\ \A y, z : Before(t \o b, y, z) <=> Before(t, y, z) \/ Before(b, y, z) \/ (Has(t, y) /\ Has(b, z))
    BY Concat
  <2>4. \A y : Has(a \o b, y) <=> Has(t \o b, y) \/ y = m
    BY <1>6, <2>2, <2>3
  <2>5. \A y, z : Before(a \o b, y, z) <=> Before(t \o b, y, z) \/ (y = m /\ Has(t \o b, z))
    BY <1>6, <2>2, <2>3
  <2>6. QED
    BY <1>1, <2>1, <2>4, <2>5 DEF TookIn
<1>9. QED
  BY <1>7, <1>8

\* An event that is not part of the configuration, or comes too late.
LEMMA PollQuietly ==
  ASSUME Invs, Clean, CleanInv, EndInv', NEW e \in Ends, NEW m \in Packet, NEW st, Polled(e, m, st),
         m.type \notin Kinds \/ state[e] \in Closing
  PROVE  (\A g \in Ends : CleanOK(g)') /\ (\A s \in Hosts : NamedOK(s)')
<1>1. TypeOK /\ EndOK(e)
  BY DEF Invs, EndInv
<1>2. /\ op[e] \in Polling /\ state[e] \in States \ {"none", "idle"} /\ op'[e] \notin {"none", "dropped"}
      /\ inbox[e] # <<>> /\ m = Head(inbox[e])
      /\ st = Reaction(state[e], m) /\ state'[e] = st
      /\ local' = local /\ table' = table /\ reconfigures' = reconfigures /\ Others(e)
  BY DEF Polled
<1>3. \/ st = state[e]
      \/ state[e] = "waitConnectRsp" /\ st = "config"
      \/ st = "disconnected"
  <2>1. \/ st = state[e]
        \/ m.type = "connRsp" /\ state[e] = "waitConnectRsp" /\ st = "config" /\ m.success
        \/ st = "disconnected" /\ m.type \notin Kinds
        \/ /\ m.type = "configReq"
           /\ \/ state[e] = "configReqRsp" /\ st = "configRsp"
              \/ state[e] = "configReq" /\ st = "open"
              \/ state[e] \in {"config", "open"} /\ st = "sendConfig"
        \/ /\ m.type = "configRsp"
           /\ \/ state[e] = "configReqRsp" /\ st = "configReq"
              \/ state[e] = "configRsp" /\ st = "open"
    BY <1>2, ReactionCases
  <2>2. QED
    BY <2>1 DEF Closing, Kinds
<1>4. ~(op[e] = "writing" /\ st = "open")
  BY <1>1, <1>3 DEF EndOK
<1>5. Send(Host(e), Replies(e, m)) /\ written'[e] = written[e] /\ received'[e] = received[e]
  BY <1>4 DEF Polled, Kinds, Closing, Connected, Configuring
<1>6. PICK msgs \in Seq(Packet) : msgs = Replies(e, m) /\ \A i \in 1..Len(msgs) : msgs[i].type \notin Kinds
  <2>1. CASE m.type = "discReq" /\ state[e] # "waitConnectRsp"
    <3>1. PICK r \in Packet : r = DisconnectionResponse(local[e], remote[e])
      BY <1>1, PacketIs DEF TypeOK
    <3>2. r.type \notin Kinds
      BY <3>1 DEF DisconnectionResponse, Kinds
    <3>3. Replies(e, m) = <<r>>
      BY <2>1, <3>1 DEF Replies
    <3>4. PICK msgs \in Seq(Packet) : msgs = <<r>> /\ Len(msgs) = 1 /\ msgs[1] = r
      BY OnePacket
    <3>5. \A i \in 1..Len(msgs) : msgs[i].type \notin Kinds
      BY <3>2, <3>4
    <3>6. QED
      BY <3>3, <3>4, <3>5
  <2>2. CASE ~(m.type = "discReq" /\ state[e] # "waitConnectRsp")
    <3>1. ~(m.type = "configReq" /\ state[e] \in DOMAIN AfterConfigReq)
      BY DEF Kinds, Closing, AfterConfigReq
    <3>2. Replies(e, m) = <<>>
      BY <2>2, <3>1 DEF Replies
    <3>3. WITNESS <<>> \in Seq(Packet)
    <3>4. QED
      BY <3>2
  <2>3. QED
    BY <2>1, <2>2
<1>7. Talk(e, msgs)
  BY <1>2, <1>5, <1>6 DEF Talk
<1>8. link'[Host(e)] = link[Host(e)]
  BY <1>1, <1>5, <1>6, SendFacts, EndFacts
<1>9. Moves(state[e], state'[e])
  BY <1>2, <1>3 DEF Moves, Early, Closing
<1>10. Quiet(e)
  <2>1. CASE ~Live(e)'
    BY <1>1, <1>5, <1>7, <1>9, <2>1, StaysQuiet
  <2>2. CASE Live(e)'
    <3>1. st \notin Closing
      BY <1>2, <2>2 DEF Live
    <3>2. state[e] \notin Closing /\ m.type \notin Kinds
      BY <1>2, <1>3, <3>1, ReactionIs
    <3>3. /\ TookIn(Stream(e)', Stream(e), m, Counted(local[e], Peer(e))) /\ Live(e)
          /\ (Unregistered(e)' <=> Unregistered(e))
      BY <1>1, <1>8, <3>1, <3>2, PolledStream
    <3>4. m \notin Counted(local[e], Peer(e))
      BY <3>2, CountedFacts
    <3>5. Same(Stream(e)', Stream(e), Counted(local[e], Peer(e)))
      BY <3>3, <3>4 DEF TookIn, Same
    <3>6. Thinned(Stream(e)', Stream(e), Counted(local[e], Peer(e)))
      BY <3>5, SameIsThinned
    <3>7. QED
      BY <1>2, <1>5, <1>9, <3>3, <3>5, <3>6 DEF Quiet, Same
  <2>3. QED
    BY <2>1, <2>2
<1>11. QED
  BY <1>6, <1>7, <1>10, QuietTalkIsClean

LEMMA PolledTalk ==
  ASSUME Invs, NEW e \in Ends, CallOK(e), NEW m \in Packet, NEW st, Polled(e, m, st)
  PROVE  /\ link'[Host(e)] = link[Host(e)]
         /\ \E msgs : /\ Talk(e, msgs)
                      /\ msgs = IF op[e] = "writing" /\ st = "open"
                                THEN Replies(e, m) \o <<NextData(e)>> ELSE Replies(e, m)
<1>1. TypeOK /\ EndOK(e)
  BY DEF Invs, EndInv
<1>2. /\ op[e] \in Polling /\ state[e] \in States \ {"none", "idle"}
      /\ inbox[e] # <<>> /\ m = Head(inbox[e]) /\ st = Reaction(state[e], m)
      /\ local' = local /\ table' = table /\ reconfigures' = reconfigures /\ Others(e)
  BY DEF Polled
<1>3. PICK q \in Seq(Packet) :
        q = Replies(e, m) /\ \A y : Has(q, y) /\ y.type \in Kinds => Cid(y) = remote[e] /\ remote[e] # NoCid
  <2>1. PICK q \in Seq(Packet) : q = Replies(e, m)
    BY <1>2, RepliesSent
  <2>2. CASE m.type = "configReq" /\ state[e] \in DOMAIN AfterConfigReq
    <3>1. PICK r \in Packet : r = ConfigureResponse(remote[e])
      BY <1>1, PacketIs DEF TypeOK
    <3>2. q = <<r>>
      BY <2>1, <2>2, <3>1 DEF Replies
    <3>3. Cid(r) = remote[e]
      BY <3>1 DEF ConfigureResponse, Cid
    <3>4. remote[e] # NoCid
      BY <2>2 DEF AfterConfigReq, CallOK, Connected, Configuring
    <3>5. \A y : Has(q, y) => y = r
      BY <3>2, Single
    <3>6. QED
      BY <2>1, <3>3, <3>4, <3>5
  <2>3. CASE m.type = "discReq" /\ state[e] # "waitConnectRsp"
    <3>1. PICK r \in Packet : r = DisconnectionResponse(local[e], remote[e])
      BY <1>1, PacketIs DEF TypeOK
    <3>2. q = <<r>>
      BY <2>1, <2>3, <3>1 DEF Replies
    <3>3. r.type \notin Kinds
      BY <3>1 DEF DisconnectionResponse, Kinds
    <3>4. \A y : Has(q, y) => y = r
      BY <3>2, Single
    <3>5. QED
      BY <2>1, <3>3, <3>4
  <2>4. CASE ~(m.type = "configReq" /\ state[e] \in DOMAIN AfterConfigReq)
             /\ ~(m.type = "discReq" /\ state[e] # "waitConnectRsp")
    <3>1. q = <<>>
      BY <2>1, <2>4 DEF Replies
    <3>2. QED
      BY <2>1, <3>1, NothingThere
  <2>5. QED
    BY <2>2, <2>3, <2>4
<1>4. PICK msgs : msgs = IF op[e] = "writing" /\ st = "open"
                         THEN Replies(e, m) \o <<NextData(e)>> ELSE Replies(e, m)
  OBVIOUS
<1>5. msgs \in Seq(Packet) /\ \A y : Has(msgs, y) /\ y.type \in Kinds => Cid(y) = remote[e] /\ remote[e] # NoCid
  <2>1. CASE op[e] = "writing" /\ st = "open"
    <3>1. written[e] < MaxWrites[e] /\ state[e] # "open"
      BY <1>1, <2>1 DEF EndOK
    <3>2. PICK x \in Packet : x = NextData(e) /\ x.type = "data" /\ x.dcid = remote[e]
      BY <1>1, <3>1, DataIs
    <3>3. state[e] \in {"configReq", "configRsp"}
      BY <1>2, <2>1, <3>1, ReactionCases
    <3>4. Cid(x) = remote[e] /\ remote[e] # NoCid
      BY <3>2, <3>3 DEF Cid, CallOK, Connected, Configuring
    <3>5. PICK r \in Seq(Packet) : r = <<x>> /\ \A y : Has(r, y) <=> y = x
      BY Single
    <3>6. q \o r \in Seq(Packet) /\ \A y : Has(q \o r, y) <=> Has(q, y) \/ Has(r, y)
      BY Concat
    <3>7. msgs = q \o r
      BY <1>3, <1>4, <2>1, <3>2, <3>5
    <3>8. QED
      BY <1>3, <3>4, <3>5, <3>6, <3>7
  <2>2. CASE ~(op[e] = "writing" /\ st = "open")
    BY <1>3, <1>4, <2>2
  <2>3. QED
    BY <2>1, <2>2
<1>6. Send(Host(e), msgs)
  BY <1>4 DEF Polled
<1>7. link'[Host(e)] = link[Host(e)]
  BY <1>1, <1>5, <1>6, SendFacts, EndFacts
<1>8. Talk(e, msgs)
  BY <1>2, <1>5, <1>6 DEF Talk, Has
<1>9. QED
  BY <1>4, <1>7, <1>8

LEMMA Associates ==
  ASSUME NEW a \in Seq(Packet), NEW b \in Seq(Packet), NEW c \in Seq(Packet)
  PROVE  a \o (b \o c) = (a \o b) \o c
BY ConcatAssociative

\* What the peer has coming when a channel sends its response, and a packet after it.
LEMMA AnsweredAndWritten ==
  ASSUME NEW q \in Seq(Packet), NEW c, NEW p, NEW st, NEW ps, NEW t1, NEW n \in Nat,
         Orderly(q, c, p, st, ps, n, 0), Whole(q, c, p, n, 0, FALSE),
         st \in {"configReqRsp", "configRsp"}, ps \notin Answering, t1 \in Answering,
         NEW x \in Packet, x = ConfigureResponse(c)
  PROVE  /\ Orderly(q \o <<x>>, c, p, st, t1, n, 0) /\ Whole(q \o <<x>>, c, p, n, 0, FALSE)
         /\ \A y \in Packet : y = Data(c, p, 0 + 1) =>
              /\ Orderly(q \o (<<x>> \o <<y>>), c, p, st, t1, n, 0 + 1)
              /\ Whole(q \o (<<x>> \o <<y>>), c, p, n, 0 + 1, FALSE)
<1>1. PICK r \in Seq(Packet) : r = q \o <<x>> /\ Gained(r, q, x, Counted(c, p))
  BY GainsOne
<1>2. Orderly(r, c, p, st, t1, n, 0)
  BY <1>1, OrderlyAnswered
<1>3. ConfigureResponse(c) \in Counted(c, p) /\ \A k \in Nat : Data(c, p, k) \in Counted(c, p)
  BY CountedFacts
<1>4. Whole(r, c, p, n, 0, FALSE) /\ Has(r, ConfigureResponse(c))
  BY <1>1, <1>3 DEF Whole, Gained
<1>5. ASSUME NEW y \in Packet, y = Data(c, p, 0 + 1)
      PROVE  /\ Orderly(q \o (<<x>> \o <<y>>), c, p, st, t1, n, 0 + 1)
             /\ Whole(q \o (<<x>> \o <<y>>), c, p, n, 0 + 1, FALSE)
  <2>1. Gained(r \o <<y>>, r, y, Counted(c, p))
    BY GainsOne
  <2>2. Orderly(r \o <<y>>, c, p, st, t1, n, 0 + 1) /\ Whole(r \o <<y>>, c, p, n, 0 + 1, FALSE)
    BY <1>2, <1>4, <1>5, <2>1, OrderlyWritten
  <2>3. PICK u \in Seq(Packet), a \in Seq(Packet), b \in Seq(Packet) : u = q /\ a = <<x>> /\ b = <<y>>
    BY Single
  <2>4. u \o (a \o b) = (u \o a) \o b
    BY Associates
  <2>5. QED
    BY <1>1, <2>2, <2>3, <2>4
<1>6. QED
  BY <1>1, <1>2, <1>4, <1>5

LEMMA PollsRequest ==
  ASSUME Invs, CallInv, Clean, CleanInv, EndInv', NEW e \in Ends, NEW m \in Packet, NEW st, Polled(e, m, st),
         m.type = "configReq", state[e] \notin Closing
  PROVE  (\A g \in Ends : CleanOK(g)') /\ (\A s \in Hosts : NamedOK(s)')
<1>1. TypeOK /\ EndInv /\ CallOK(e) /\ EndOK(e)
  BY DEF Invs, CallInv, EndInv
<1>2. PICK p \in Ends, n \in Nat, k \in Nat, w \in Nat, v \in Nat :
        /\ p = Peer(e) /\ e = Peer(p) /\ p # e
        /\ n = Len(received[e]) /\ k = Len(received[p]) /\ w = written[e] /\ v = written[p]
        /\ CleanOK(e) /\ CleanOK(p)
        /\ Agree(state[e], state[p], w, Told(p)) /\ Agree(state[p], state[e], v, Told(e))
        /\ Orderly(Stream(e), local[e], p, state[e], state[p], n, v)
        /\ Orderly(Stream(p), local[p], e, state[p], state[e], k, w)
        /\ Live(e) => Whole(Stream(e), local[e], p, n, v, Unregistered(e))
        /\ Live(p) => Whole(Stream(p), local[p], e, k, w, Unregistered(p))
        /\ remote[e] # NoCid => remote[e] = local[p]
  BY Facing
<1>3. /\ op[e] \in Polling /\ state[e] \in States \ {"none", "idle"}
      /\ inbox[e] # <<>> /\ m = Head(inbox[e])
      /\ st = Reaction(state[e], m) /\ state'[e] = st /\ received'[e] = received[e]
      /\ op[e] # "setup" /\ state[e] # "config"
  BY <1>1 DEF Polled, Polling, CallOK
<1>5. m = ConfigureRequest(local[e])
  <2>1. 1 \in 1..Len(inbox[e]) /\ inbox[e][1] = m
    <3>1. PICK a \in Seq(Packet) : a = inbox[e]
      BY <1>1 DEF TypeOK
    <3>2. QED
      BY <1>3, <3>1
  <2>2. m.dcid = local[e]
    BY <1>1, <2>1 DEF CallOK, Kinds, Cid
  <2>3. QED
    BY <2>2, KindFacts
<1>6. \/ st = state[e]
      \/ state[e] = "configReqRsp" /\ st = "configRsp"
      \/ state[e] = "configReq" /\ st = "open"
      \/ state[e] = "open" /\ st = "sendConfig"
  BY <1>3, ReactionCases DEF Kinds
<1>7. st \notin Closing
  BY <1>6 DEF Closing
<1>8. PICK msgs : /\ Talk(e, msgs)
                  /\ msgs = IF op[e] = "writing" /\ st = "open"
                            THEN Replies(e, m) \o <<NextData(e)>> ELSE Replies(e, m)
  BY <1>1, PolledTalk
<1>9. /\ TookIn(Stream(e)', Stream(e), m, Counted(local[e], p)) /\ Live(e) /\ Live(e)'
      /\ (Unregistered(e)' <=> Unregistered(e))
  BY <1>1, <1>7, PolledTalk, PolledStream
<1>10. /\ \A k1 \in Nat : Data(local[e], p, k1) \in Counted(local[e], p) /\ Data(local[e], p, k1) # m
       /\ m \in Counted(local[e], p) /\ ConfigureResponse(local[e]) \in Counted(local[e], p)
       /\ ConfigureResponse(local[e]) # m
  BY <1>5, CountedFacts
<1>11. state[e] # "open" /\ state[e] # "configRsp" /\ state[e] # "sendConfig"
  <2>1. Has(Stream(e), m)
    BY <1>9, <1>10 DEF TookIn
  <2>2. QED
    BY <1>2, <1>5, <2>1 DEF Orderly, Agree
<1>12. \/ st = state[e] /\ state[e] \notin {"configReqRsp", "configReq"}
       \/ state[e] = "configReqRsp" /\ st = "configRsp"
       \/ state[e] = "configReq" /\ st = "open"
  <2>1. st = state[e] => state[e] \notin {"configReqRsp", "configReq"}
    BY <1>3 DEF Reaction, AfterConfigReq
  <2>2. QED
    BY <1>6, <1>11, <2>1
<1>13. /\ state[p] \in Asked
       /\ Orderly(Stream(e)', local[e], p, st, state[p], n, v)
  BY <1>2, <1>5, <1>9, <1>12, OrderlyTakesRequest
<1>14. Whole(Stream(e)', local[e], p, n, v, Unregistered(e))
  <2>1. \A j \in Nat : Has(Stream(e), Data(local[e], p, j)) => Has(Stream(e)', Data(local[e], p, j))
    BY <1>9, <1>10 DEF TookIn
  <2>2. QED
    BY <1>2, <1>9, <2>1 DEF Whole
<1>15. Told(e)' <=> Told(e)
  <2>1. local'[e] = local[e]
    BY DEF Polled
  <2>2. Has(Stream(e)', ConfigureResponse(local[e])) <=> Has(Stream(e), ConfigureResponse(local[e]))
    BY <1>9, <1>10 DEF TookIn
  <2>3. QED
    BY <1>9, <2>1, <2>2 DEF Told
<1>16. /\ state'[p] = state[p] /\ written'[p] = written[p] /\ (Told(p) => Told(p)')
       /\ (Live(p) /\ Has(msgs, ConfigureResponse(local[p])) => Told(p)')
  BY <1>1, <1>2, <1>8, PeerHears
<1>17. ReadOK(e)'
  BY <1>2, <1>3 DEF CleanOK, ReadOK
<1>18. w = 0 /\ (state[e] = "configReq" => state[p] \in Answering)
  <2>1. state[e] \notin {"open"} \cup Closing
    BY <1>11
  <2>2. QED
    BY <1>2, <2>1 DEF Agree
<1>19. CASE st = state[e]
  <2>1. msgs = <<>> /\ written'[e] = written[e]
    <3>1. state[e] \notin DOMAIN AfterConfigReq
      BY <1>3, <1>11, <1>12, <1>19 DEF AfterConfigReq
    <3>2. Replies(e, m) = <<>>
      BY <3>1 DEF Replies
    <3>3. QED
      BY <1>8, <1>11, <1>19, <3>2 DEF Polled
  <2>2. CleanOK(e)'
    <3>1. Agree(state'[e], state'[p], written'[e], Told(p)')
      BY <1>2, <1>3, <1>16, <1>19, <2>1 DEF Agree
    <3>2. QED
      BY <1>2, <1>3, <1>8, <1>13, <1>14, <1>16, <1>17, <3>1, OwnPart
  <2>3. CleanOK(p)'
    <3>1. Agree(state[p], state'[e], written[p], Told(e)')
      BY <1>2, <1>3, <1>15, <1>19 DEF Agree
    <3>2. PICK r \in Seq(Packet) : r = Stream(p)
      BY <1>1, StreamIs
    <3>3. r \o msgs = r
      BY <2>1
    <3>4. Live(p) /\ ~Unregistered(p) =>
            /\ Orderly(Stream(p) \o msgs, local[p], e, state[p], state'[e], Len(received[p]), written'[e])
            /\ Whole(Stream(p) \o msgs, local[p], e, Len(received[p]), written'[e], FALSE)
      BY <1>2, <1>3, <1>19, <2>1, <3>2, <3>3 DEF Whole
    <3>5. written'[e] \in Nat /\ written[e] <= written'[e]
      BY <1>2, <2>1
    <3>6. QED
      BY <1>1, <1>2, <1>3, <1>8, <1>19, <3>1, <3>4, <3>5, PeerPart
  <2>4. QED
    BY <1>2, <1>8, <2>2, <2>3, TalkIsClean
<1>20. CASE st # state[e]
  <2>1. state[e] \in {"configReqRsp", "configReq"} /\ st \in {"configRsp", "open"} /\ state[e] \notin Answering
    BY <1>12, <1>20 DEF Answering, Closing
  <2>2. remote[e] # NoCid /\ remote[e] = local[p]
    BY <1>1, <1>2, <2>1 DEF CallOK, Connected, Configuring
  <2>3. PICK x \in Packet : x = ConfigureResponse(local[p])
    BY <1>1, <2>2, PacketIs DEF TypeOK
  <2>4. Replies(e, m) = <<x>>
    BY <2>1, <2>2, <2>3 DEF Replies, AfterConfigReq
  <2>5. PICK y : y = NextData(e) /\ (op[e] = "writing" => y \in Packet) /\ y = Data(local[p], e, 0 + 1)
    <3>1. op[e] = "writing" => NextData(e) \in Packet
      BY <1>1, DataIs DEF EndOK
    <3>2. NextData(e) = Data(local[p], e, 0 + 1)
      BY <1>2, <1>18, <2>2 DEF NextData
    <3>3. QED
      BY <3>1, <3>2
  <2>6. \/ msgs = <<x>> /\ written'[e] = 0
        \/ msgs = <<x>> \o <<y>> /\ y \in Packet /\ written'[e] = 0 + 1 /\ st = "open"
    BY <1>2, <1>8, <1>18, <2>4, <2>5 DEF Polled
  <2>7. Has(msgs, x)
    <3>1. PICK a \in Seq(Packet) : a = <<x>> /\ Has(a, x)
      BY Single
    <3>2. y \in Packet => <<y>> \in Seq(Packet)
      BY Single
    <3>3. y \in Packet => Has(a \o <<y>>, x)
      BY <3>1, <3>2, Concat
    <3>4. QED
      BY <2>6, <3>1, <3>3
  <2>8. Live(p) => Told(p)'
    BY <1>16, <2>3, <2>7
  <2>9. CleanOK(e)'
    <3>1. state[p] \in {"configReqRsp", "configRsp"} => Told(p)'
      BY <1>1, <2>8, HalfWayLives DEF Connected, Configuring
    <3>2. written'[e] > 0 => st = "open"
      BY <2>6
    <3>3. st = "open" => state[p] \in Answering
      BY <1>12, <1>18, <1>20
    <3>4. Agree(state'[e], state'[p], written'[e], Told(p)')
      BY <1>3, <1>13, <1>16, <2>1, <3>1, <3>2, <3>3 DEF Agree
    <3>5. QED
      BY <1>2, <1>3, <1>8, <1>13, <1>14, <1>16, <1>17, <3>4, OwnPart
  <2>10. state[p] \notin {"configReq", "open"} /\ v = 0
    BY <1>2, <2>1 DEF Agree
  <2>11. CleanOK(p)'
    <3>1. Agree(state[p], state'[e], written[p], Told(e)')
      <4>1. state'[e] \in Asked
        BY <1>3, <2>1 DEF Asked
      <4>2. state[p] = "configRsp" /\ state'[e] \in {"configReqRsp", "configRsp"} => Told(e)'
        BY <1>2, <1>3, <1>12, <1>15, <1>20 DEF Agree
      <4>3. QED
        BY <1>2, <2>10, <4>1, <4>2 DEF Agree
    <3>2. ASSUME Live(p), ~Unregistered(p)
          PROVE  /\ Orderly(Stream(p) \o msgs, local[p], e, state[p], state'[e], Len(received[p]), written'[e])
                 /\ Whole(Stream(p) \o msgs, local[p], e, Len(received[p]), written'[e], FALSE)
      <4>1. PICK r \in Seq(Packet) : r = Stream(p)
        BY <1>1, StreamIs
      <4>2. Orderly(r, local[p], e, state[p], state[e], k, 0) /\ Whole(r, local[p], e, k, 0, FALSE)
        BY <1>2, <1>18, <3>2, <4>1 DEF Whole
      <4>3. state[p] \in {"configReqRsp", "configRsp"} /\ st \in Answering
        BY <1>13, <2>1, <2>10, <3>2 DEF Asked, Answering, Live
      <4>4. /\ Orderly(r \o <<x>>, local[p], e, state[p], st, k, 0) /\ Whole(r \o <<x>>, local[p], e, k, 0, FALSE)
            /\ y \in Packet =>
                 /\ Orderly(r \o (<<x>> \o <<y>>), local[p], e, state[p], st, k, 0 + 1)
                 /\ Whole(r \o (<<x>> \o <<y>>), local[p], e, k, 0 + 1, FALSE)
        BY <2>1, <2>3, <2>5, <4>2, <4>3, AnsweredAndWritten
      <4>5. QED
        BY <1>2, <1>3, <2>6, <4>1, <4>4
    <3>3. (state[e] \in Asked => state'[e] \in Asked) /\ (state[e] \in Answering => state'[e] \in Answering)
      BY <1>3, <2>1 DEF Asked
    <3>4. written'[e] \in Nat /\ written[e] <= written'[e]
      BY <1>2, <1>18, <2>6
    <3>5. QED
      BY <1>1, <1>2, <1>8, <3>1, <3>2, <3>3, <3>4, PeerPart
  <2>12. QED
    BY <1>2, <1>8, <2>9, <2>11, TalkIsClean
<1>21. QED
  BY <1>19, <1>20

LEMMA PollsResponse ==
  ASSUME Invs, CallInv, Clean, CleanInv, EndInv', NEW e \in Ends, NEW m \in Packet, NEW st, Polled(e, m, st),
         m.type = "configRsp", state[e] \notin Closing
  PROVE  (\A g \in Ends : CleanOK(g)') /\ (\A s \in Hosts : NamedOK(s)')
<1>1. TypeOK /\ EndInv /\ CallOK(e) /\ EndOK(e)
  BY DEF Invs, CallInv, EndInv
<1>2. PICK p \in Ends, n \in Nat, k \in Nat, w \in Nat, v \in Nat :
        /\ p = Peer(e) /\ e = Peer(p) /\ p # e
        /\ n = Len(received[e]) /\ k = Len(received[p]) /\ w = written[e] /\ v = written[p]
        /\ CleanOK(e) /\ CleanOK(p)
        /\ Agree(state[e], state[p], w, Told(p)) /\ Agree(state[p], state[e], v, Told(e))
        /\ Orderly(Stream(e), local[e], p, state[e], state[p], n, v)
        /\ Orderly(Stream(p), local[p], e, state[p], state[e], k, w)
        /\ Live(e) => Whole(Stream(e), local[e], p, n, v, Unregistered(e))
        /\ Live(p) => Whole(Stream(p), local[p], e, k, w, Unregistered(p))
        /\ remote[e] # NoCid => remote[e] = local[p]
  BY Facing
<1>3. /\ op[e] \in Polling /\ state[e] \in States \ {"none", "idle"}
      /\ inbox[e] # <<>> /\ m = Head(inbox[e])
      /\ st = Reaction(state[e], m) /\ state'[e] = st /\ received'[e] = received[e]
  BY <1>1 DEF Polled
<1>4. m = ConfigureResponse(local[e])
  <2>1. 1 \in 1..Len(inbox[e]) /\ inbox[e][1] = m
    <3>1. PICK a \in Seq(Packet) : a = inbox[e]
      BY <1>1 DEF TypeOK
    <3>2. QED
      BY <1>3, <3>1
  <2>2. m.scid = local[e]
    BY <1>1, <2>1 DEF CallOK, Kinds, Cid
  <2>3. QED
    BY <2>2, KindFacts
<1>5. st = IF state[e] = "configReqRsp" THEN "configReq" ELSE IF state[e] = "configRsp" THEN "open" ELSE state[e]
  BY <1>3 DEF Reaction, AfterConfigRsp
<1>6. st \notin Closing
  BY <1>5 DEF Closing
<1>7. PICK msgs : /\ Talk(e, msgs)
                  /\ msgs = IF op[e] = "writing" /\ st = "open"
                            THEN Replies(e, m) \o <<NextData(e)>> ELSE Replies(e, m)
  BY <1>1, PolledTalk
<1>8. /\ TookIn(Stream(e)', Stream(e), m, Counted(local[e], p)) /\ Live(e) /\ Live(e)'
      /\ (Unregistered(e)' <=> Unregistered(e))
  BY <1>1, <1>6, PolledTalk, PolledStream
<1>9. /\ \A j \in Nat : Data(local[e], p, j) \in Counted(local[e], p) /\ Data(local[e], p, j) # m
      /\ m \in Counted(local[e], p)
  BY <1>4, CountedFacts
<1>10. /\ state[e] \in {"configReqRsp", "configRsp"} /\ state[p] \in Answering
       /\ Orderly(Stream(e)', local[e], p, st, state[p], n, v)
  <2>1. state[e] = "configReqRsp" => v = 0
    BY <1>2 DEF Agree, Answering, Closing
  <2>2. /\ state[e] = "configReqRsp" => st = "configReq" /\ v = 0
        /\ state[e] = "configRsp" => st = "open"
    BY <1>5, <2>1
  <2>3. TookIn(Stream(e)', Stream(e), ConfigureResponse(local[e]), Counted(local[e], p))
    BY <1>4, <1>8
  <2>4. Orderly(Stream(e), local[e], p, state[e], state[p], n, v) /\ n \in Nat /\ v \in Nat
    BY <1>2
  <2>5. PICK q, r, s0, ps : q = Stream(e) /\ r = Stream(e)' /\ s0 = state[e] /\ ps = state[p]
    OBVIOUS
  <2>6. s0 \in {"configReqRsp", "configRsp"} /\ ps \in Answering /\ Orderly(r, local[e], p, st, ps, n, v)
    BY <2>2, <2>3, <2>4, <2>5, OrderlyTakesResponse
  <2>7. QED
    BY <2>5, <2>6
<1>11. \/ state[e] = "configReqRsp" /\ st = "configReq"
       \/ state[e] = "configRsp" /\ st = "open"
  BY <1>5, <1>10
<1>12. Whole(Stream(e)', local[e], p, n, v, Unregistered(e))
  <2>1. \A j \in Nat : Has(Stream(e), Data(local[e], p, j)) => Has(Stream(e)', Data(local[e], p, j))
    BY <1>8, <1>9 DEF TookIn
  <2>2. QED
    BY <1>2, <1>8, <2>1 DEF Whole
<1>13. state'[p] = state[p] /\ written'[p] = written[p] /\ (Told(p) => Told(p)')
  BY <1>1, <1>2, <1>7, PeerHears
<1>14. w = 0
  BY <1>2, <1>10 DEF Agree, Closing
<1>15. ReadOK(e)'
  BY <1>2, <1>3 DEF CleanOK, ReadOK
<1>16. remote[e] # NoCid /\ remote[e] = local[p]
  BY <1>1, <1>2, <1>10 DEF CallOK, Connected, Configuring
<1>17. Replies(e, m) = <<>>
  BY <1>4 DEF Replies, ConfigureResponse
<1>18. PICK x : x = NextData(e) /\ (op[e] = "writing" => x \in Packet) /\ x = Data(local[p], e, 0 + 1)
  <2>1. op[e] = "writing" => NextData(e) \in Packet
    BY <1>1, DataIs DEF EndOK
  <2>2. NextData(e) = Data(local[p], e, 0 + 1)
    BY <1>2, <1>14, <1>16 DEF NextData
  <2>3. QED
    BY <2>1, <2>2
<1>19. \/ msgs = <<>> /\ written'[e] = 0
       \/ msgs = <<x>> /\ x \in Packet /\ written'[e] = 0 + 1 /\ st = "open"
  <2>1. CASE op[e] = "writing" /\ st = "open"
    <3>1. PICK a \in Seq(Packet) : a = <<x>>
      BY <1>18, <2>1, Single
    <3>2. <<>> \o a = a
      BY <3>1
    <3>3. msgs = <<x>>
      BY <1>7, <1>17, <1>18, <2>1, <3>1, <3>2
    <3>4. QED
      BY <1>2, <1>14, <1>18, <2>1, <3>3 DEF Polled
  <2>2. CASE ~(op[e] = "writing" /\ st = "open")
    BY <1>2, <1>7, <1>14, <1>17, <2>2 DEF Polled
  <2>3. QED
    BY <2>1, <2>2
<1>20. CleanOK(e)'
  <2>1. st = "open" => state[p] \in Asked /\ (state[p] \in {"configReqRsp", "configRsp"} => Told(p)')
    BY <1>2, <1>11, <1>13 DEF Agree
  <2>2. Agree(state'[e], state'[p], written'[e], Told(p)')
    BY <1>3, <1>10, <1>11, <1>13, <1>19, <2>1 DEF Agree
  <2>3. QED
    BY <1>2, <1>3, <1>7, <1>10, <1>12, <1>13, <1>15, <2>2, OwnPart
<1>21. CleanOK(p)'
  <2>1. Agree(state[p], state'[e], written[p], Told(e)')
    <3>1. state'[e] \in Asked /\ state'[e] \notin {"configReqRsp", "configRsp"}
      BY <1>3, <1>11 DEF Asked
    <3>2. state[e] \in Answering => state'[e] \in Answering
      BY <1>3, <1>11 DEF Answering, Closing
    <3>3. QED
      BY <1>2, <3>1, <3>2 DEF Agree
  <2>2. ASSUME Live(p), ~Unregistered(p)
        PROVE  /\ Orderly(Stream(p) \o msgs, local[p], e, state[p], state'[e], Len(received[p]), written'[e])
               /\ Whole(Stream(p) \o msgs, local[p], e, Len(received[p]), written'[e], FALSE)
    <3>1. PICK q \in Seq(Packet) : q = Stream(p)
      BY <1>1, StreamIs
    <3>2. Orderly(q, local[p], e, state[p], state[e], k, 0) /\ Whole(q, local[p], e, k, 0, FALSE)
      BY <1>2, <1>14, <2>2, <3>1 DEF Whole
    <3>3. Orderly(q, local[p], e, state[p], st, k, 0)
      BY <1>11, <3>2, OrderlyPeerOn DEF Asked, Answering, Closing
    <3>4. CASE msgs = <<>> /\ written'[e] = 0
      <4>1. q \o msgs = q
        BY <3>4
      <4>2. QED
        BY <1>2, <1>3, <3>1, <3>2, <3>3, <3>4, <4>1
    <3>5. CASE msgs = <<x>> /\ x \in Packet /\ written'[e] = 0 + 1 /\ st = "open"
      <4>1. Gained(q \o <<x>>, q, x, Counted(local[p], e))
        BY <3>5, GainsOne
      <4>2. state[p] # "open" => Has(q, ConfigureResponse(local[p]))
        <5>1. state[p] # "open" => state[p] = "configRsp"
          BY <1>10, <2>2 DEF Answering, Live
        <5>2. state[p] # "open" => Told(p)
          BY <1>2, <1>11, <3>5, <5>1 DEF Agree
        <5>3. QED
          BY <2>2, <3>1, <5>2 DEF Told
      <4>3. /\ Orderly(q \o <<x>>, local[p], e, state[p], st, k, 0 + 1)
            /\ Whole(q \o <<x>>, local[p], e, k, 0 + 1, FALSE)
        BY <1>18, <3>2, <3>3, <4>1, <4>2, OrderlyWritten
      <4>4. QED
        BY <1>2, <1>3, <3>1, <3>5, <4>3
    <3>6. QED
      BY <1>19, <3>4, <3>5
  <2>3. (state[e] \in Asked => state'[e] \in Asked) /\ (state[e] \in Answering => state'[e] \in Answering)
    BY <1>3, <1>11 DEF Asked, Answering, Closing
  <2>4. written'[e] \in Nat /\ written[e] <= written'[e]
    BY <1>2, <1>14, <1>19
  <2>5. QED
    BY <1>1, <1>2, <1>7, <2>1, <2>2, <2>3, <2>4, PeerPart
<1>22. QED
  BY <1>2, <1>7, <1>20, <1>21, TalkIsClean

LEMMA PollsData ==
  ASSUME Invs, CallInv, Clean, CleanInv, EndInv', NEW e \in Ends, NEW m \in Packet, NEW st, Polled(e, m, st),
         m.type = "data", state[e] \notin Closing
  PROVE  (\A g \in Ends : CleanOK(g)') /\ (\A s \in Hosts : NamedOK(s)')
<1>1. TypeOK /\ EndInv /\ CallOK(e) /\ EndOK(e) /\ InboxInv /\ RemoteInv /\ IdsOnce
  BY DEF Invs, CallInv, EndInv, Clean
<1>2. PICK p \in Ends, n \in Nat, k \in Nat, w \in Nat, v \in Nat :
        /\ p = Peer(e) /\ e = Peer(p) /\ p # e
        /\ n = Len(received[e]) /\ k = Len(received[p]) /\ w = written[e] /\ v = written[p]
        /\ CleanOK(e) /\ CleanOK(p)
        /\ Agree(state[e], state[p], w, Told(p)) /\ Agree(state[p], state[e], v, Told(e))
        /\ Orderly(Stream(e), local[e], p, state[e], state[p], n, v)
        /\ Orderly(Stream(p), local[p], e, state[p], state[e], k, w)
        /\ Live(e) => Whole(Stream(e), local[e], p, n, v, Unregistered(e))
        /\ Live(p) => Whole(Stream(p), local[p], e, k, w, Unregistered(p))
        /\ remote[e] # NoCid => remote[e] = local[p]
  BY Facing
<1>3. /\ op[e] \in Polling /\ state[e] \in States \ {"none", "idle"}
      /\ inbox[e] # <<>> /\ m = Head(inbox[e])
      /\ st = Reaction(state[e], m) /\ state'[e] = st
  BY <1>1 DEF Polled
<1>4. PICK j \in Nat : j = m.seq /\ m = Data(local[e], p, j)
  <2>1. 1 \in 1..Len(inbox[e]) /\ inbox[e][1] = m
    <3>1. PICK a \in Seq(Packet) : a = inbox[e]
      BY <1>1 DEF TypeOK
    <3>2. QED
      BY <1>3, <3>1
  <2>2. m.dcid = local[e]
    BY <1>1, <2>1 DEF CallOK, Kinds, Cid
  <2>3. InboxOK(e, m)
    BY <1>1, <2>1 DEF InboxInv
  <2>4. Host(m.from) = Other(Host(e)) /\ remote[m.from] = local[e]
    BY <2>3 DEF InboxOK, DataOK
  <2>5. PICK f \in Ends : f = m.from
    BY PacketFacts
  <2>6. Host(e) # Host(f) /\ local[e] = remote[f] /\ remote[f] # NoCid
    <3>1. Other(Host(e)) # Host(e)
      BY EndFacts, HostFacts
    <3>2. local[e] # NoCid
      BY <1>1, <1>3 DEF EndOK, Polling
    <3>3. QED
      BY <2>4, <2>5, <3>1, <3>2
  <2>7. e = Peer(f)
    BY <1>1, <2>6, RemoteIsPeers
  <2>8. f = p
    BY <1>2, <2>7, EndFacts
  <2>9. QED
    BY <2>2, <2>5, <2>8, KindFacts
<1>5. st = state[e]
  BY <1>3 DEF Reaction
<1>6. PICK msgs : /\ Talk(e, msgs)
                  /\ msgs = IF op[e] = "writing" /\ st = "open"
                            THEN Replies(e, m) \o <<NextData(e)>> ELSE Replies(e, m)
  BY <1>1, PolledTalk
<1>7. /\ TookIn(Stream(e)', Stream(e), m, Counted(local[e], p)) /\ Live(e) /\ Live(e)'
      /\ (Unregistered(e)' <=> Unregistered(e))
  BY <1>1, <1>2, <1>5, PolledTalk, PolledStream
<1>8. /\ state[e] = "open" /\ j = n + 1
      /\ Orderly(Stream(e)', local[e], p, state[e], state[p], j, v)
      /\ Whole(Stream(e)', local[e], p, j, v, Unregistered(e))
  <2>1. TookIn(Stream(e)', Stream(e), Data(local[e], p, j), Counted(local[e], p))
    BY <1>4, <1>7
  <2>2. /\ Orderly(Stream(e), local[e], p, state[e], state[p], n, v) /\ n \in Nat /\ v \in Nat
        /\ Whole(Stream(e), local[e], p, n, v, Unregistered(e))
    BY <1>2, <1>7
  <2>3. PICK q, r, s0, ps : q = Stream(e) /\ r = Stream(e)' /\ s0 = state[e] /\ ps = state[p]
    OBVIOUS
  <2>4. /\ Orderly(q, local[e], p, s0, ps, n, v)
        /\ TookIn(r, q, Data(local[e], p, j), Counted(local[e], p))
    BY <2>1, <2>2, <2>3
  <2>5. n \in Nat /\ v \in Nat /\ j \in Nat
    BY <1>4, <2>2
  <2>6. /\ s0 = "open" /\ j = n + 1 /\ Orderly(r, local[e], p, s0, ps, j, v)
        /\ \A lost : Whole(q, local[e], p, n, v, lost) => Whole(r, local[e], p, j, v, lost)
    BY <2>4, <2>5, OrderlyTakesData
  <2>7. Whole(r, local[e], p, j, v, Unregistered(e))
    BY <2>2, <2>3, <2>6
  <2>8. QED
    BY <2>3, <2>6, <2>7
<1>9. op[e] = "serving"
  BY <1>1, <1>3, <1>8 DEF Polling, CallOK, EndOK, Closing
<1>10. msgs = <<>> /\ written'[e] = w /\ received'[e] = Append(received[e], m)
  <2>1. Replies(e, m) = <<>>
    BY DEF Replies
  <2>2. received'[e] = Append(received[e], m)
    BY <1>8, <1>9 DEF Polled, Connected
  <2>3. QED
    BY <1>2, <1>6, <1>9, <2>1, <2>2 DEF Polled
<1>11. received[e] \in Seq(Packet) /\ Len(received'[e]) = j
  <2>1. PICK a \in Seq(Packet) : a = received[e]
    BY <1>1 DEF TypeOK
  <2>2. Len(Append(a, m)) = Len(a) + 1
    OBVIOUS
  <2>3. QED
    BY <1>2, <1>8, <1>10, <2>1, <2>2
<1>12. ReadOK(e)'
  <2>1. PICK a \in Seq(Packet) : a = received[e] /\ Len(a) = n
    BY <1>2, <1>11
  <2>2. \A i \in 1..n : a[i].from = p /\ a[i].seq = i
    BY <1>2, <2>1 DEF CleanOK, ReadOK
  <2>3. /\ Len(Append(a, m)) = n + 1 /\ Append(a, m)[n + 1] = m
        /\ \A i \in 1..n : Append(a, m)[i] = a[i]
    BY <2>1
  <2>4. m.from = p /\ m.seq = n + 1
    BY <1>4, <1>8 DEF Data
  <2>5. \A i \in 1..(n + 1) : i \in 1..n \/ i = n + 1
    OBVIOUS
  <2>6. \A i \in 1..(n + 1) : Append(a, m)[i].from = p /\ Append(a, m)[i].seq = i
    BY <2>2, <2>3, <2>4, <2>5
  <2>7. received'[e] = Append(a, m)
    BY <1>10, <2>1
  <2>8. QED
    BY <1>2, <2>3, <2>6, <2>7 DEF ReadOK
<1>13. state'[p] = state[p] /\ written'[p] = written[p] /\ (Told(p) => Told(p)')
  BY <1>1, <1>2, <1>6, PeerHears
<1>14. CleanOK(e)'
  <2>1. Agree(state'[e], state'[p], written'[e], Told(p)')
    BY <1>2, <1>3, <1>5, <1>10, <1>13 DEF Agree
  <2>2. QED
    BY <1>2, <1>3, <1>5, <1>6, <1>8, <1>11, <1>12, <1>13, <2>1, OwnPart
<1>15. CleanOK(p)'
  <2>1. Agree(state[p], state'[e], written[p], Told(e)')
    BY <1>2, <1>3, <1>5, <1>8 DEF Agree
  <2>2. ASSUME Live(p), ~Unregistered(p)
        PROVE  /\ Orderly(Stream(p) \o msgs, local[p], e, state[p], state'[e], Len(received[p]), written'[e])
               /\ Whole(Stream(p) \o msgs, local[p], e, Len(received[p]), written'[e], FALSE)
    <3>1. PICK q \in Seq(Packet) : q = Stream(p)
      BY <1>1, StreamIs
    <3>2. q \o msgs = q
      BY <1>10
    <3>3. Whole(q, local[p], e, k, w, FALSE)
      BY <1>2, <2>2, <3>1 DEF Whole
    <3>4. QED
      BY <1>2, <1>3, <1>5, <1>10, <3>1, <3>2, <3>3
  <2>3. (state[e] \in Asked => state'[e] \in Asked) /\ (state[e] \in Answering => state'[e] \in Answering)
    BY <1>3, <1>5
  <2>4. written'[e] \in Nat /\ written[e] <= written'[e]
    BY <1>2, <1>10
  <2>5. QED
    BY <1>1, <1>2, <1>6, <2>1, <2>2, <2>3, <2>4, PeerPart
<1>16. QED
  BY <1>2, <1>6, <1>14, <1>15, TalkIsClean

-----------------------------------------------------------------------------
(* The invariant: it holds at first, and every step keeps it. *)
LEMMA PollClean ==
  ASSUME Invs, CallInv, Clean, CleanInv, EndInv', NEW e \in Ends, Poll(e)
  PROVE  (\A g \in Ends : CleanOK(g)') /\ (\A s \in Hosts : NamedOK(s)')
<1>1. PICK m \in Packet, st \in States \ {"none", "idle"} : Polled(e, m, st)
  BY PollIs
<1>2. CASE m.type \notin Kinds \/ state[e] \in Closing
  BY <1>1, <1>2, PollQuietly
<1>3. CASE m.type = "configReq" /\ state[e] \notin Closing
  BY <1>1, <1>3, PollsRequest
<1>4. CASE m.type = "configRsp" /\ state[e] \notin Closing
  BY <1>1, <1>4, PollsResponse
<1>5. CASE m.type = "data" /\ state[e] \notin Closing
  BY <1>1, <1>5, PollsData
<1>6. QED
  BY <1>2, <1>3, <1>4, <1>5 DEF Kinds

LEMMA TaskStepClean ==
  ASSUME Invs, CallInv, Clean, CleanInv, EndInv', NEW e \in Ends, TaskStep(e), ~NewChannel(e), reconfigures' = 0
  PROVE  (\A g \in Ends : CleanOK(g)') /\ (\A s \in Hosts : NamedOK(s)')
<1>1. TypeOK
  BY DEF Invs
<1>2. ~Reconfigure(e)
  BY <1>1 DEF Clean, Reconfigure
<1>3. CASE Connect(e)
  BY <1>3, ConnectClean
<1>4. CASE Configure(e)
  BY <1>4, ConfigureClean
<1>5. CASE Write(e) /\ MaySend(e)
  BY <1>5, WriteClean
<1>6. CASE (Write(e) /\ ~MaySend(e)) \/ WriteTimesOut(e) \/ PollClosed(e)
  <2>1. op[e] \notin {"none", "dropped"}
    BY <1>6 DEF Write, WriteTimesOut, PollClosed, Polling
  <2>2. Others(e) /\ state'[e] = state[e]
    BY <1>1, <1>6 DEF TypeOK, Write, WriteTimesOut, PollClosed, Others
  <2>3. UNCHANGED <<local, inbox, table, link, written, received, reconfigures>>
    BY <1>6 DEF Write, WriteTimesOut, PollClosed
  <2>4. QED
    BY <2>1, <2>2, <2>3, WaitClean
<1>7. CASE Disconnect(e)
  BY <1>7, DisconnectClean
<1>8. CASE Drop(e)
  BY <1>8, DropClean
<1>9. CASE Poll(e)
  BY <1>9, PollClean
<1>10. QED
  BY <1>2, <1>3, <1>4, <1>5, <1>6, <1>7, <1>8, <1>9 DEF TaskStep

\* Neither a reconfiguration nor an id handed out twice is ever undone.
LEMMA CleanWasClean ==
  ASSUME TypeOK, EndInv, [Next]_vars, Stable, Clean'
  PROVE  Clean
<1>1. reconfigures = 0
  <2>1. reconfigures \in Nat
    BY BoundsAssumption DEF TypeOK
  <2>2. reconfigures' = reconfigures \/ reconfigures' = reconfigures + 1
    BY DEF Next, TaskStep, Deliver, NewChannel, Connect, Configure, Reconfigure, Write, WriteTimesOut, Disconnect,
           Drop, Poll, PollClosed, vars
  <2>3. QED
    BY <2>1, <2>2 DEF Clean
<1>2. IdsOnce
  <2>1. SUFFICES ASSUME NEW e \in Ends, NEW f \in Ends, Host(e) = Host(f), local[e] = local[f], local[e] # NoCid
                 PROVE  e = f
    BY DEF IdsOnce
  <2>2. local'[e] = local[e] /\ local'[f] = local[f]
    BY <2>1, LocalKept
  <2>3. QED
    BY <2>1, <2>2 DEF Clean, IdsOnce
<1>3. QED
  BY <1>1, <1>2 DEF Clean

LEMMA InitClean == Init => CallInv /\ CleanInv
<1>1. SUFFICES ASSUME Init PROVE CallInv /\ CleanInv
  OBVIOUS
<1>2. CallInv
  BY <1>1 DEF Init, CallInv, CallOK, Connected, Configuring
<1>3. ASSUME NEW e \in Ends PROVE CleanOK(e)
  <2>1. PICK p \in Ends : p = Peer(e)
    BY EndFacts
  <2>2. /\ state[e] = "none" /\ state[p] = "none" /\ op[e] = "none"
        /\ written[e] = 0 /\ written[p] = 0 /\ received[e] = <<>>
    BY <1>1, <2>1 DEF Init
  <2>3. Stream(e) = <<>>
    BY <2>2 DEF Stream, Live
  <2>4. InPhase(e)
    BY <2>1, <2>2 DEF InPhase, Agree
  <2>5. StreamOK(e)
    BY <2>3, NothingThere, NothingComing DEF StreamOK
  <2>6. NothingMissing(e) /\ ReadOK(e)
    BY <2>2 DEF NothingMissing, ReadOK, Live
  <2>7. QED
    BY <2>4, <2>5, <2>6 DEF CleanOK
<1>4. \A s \in Hosts : NamedOK(s)
  BY <1>1 DEF Init, NamedOK
<1>5. QED
  BY <1>2, <1>3, <1>4 DEF CleanInv

LEMMA CleanNext == Invs /\ CallInv /\ CleanInv /\ [Next]_vars => CallInv' /\ CleanInv'
<1>1. SUFFICES ASSUME Invs, CallInv, CleanInv, [Next]_vars PROVE CallInv' /\ CleanInv'
  OBVIOUS
<1>2. EndInv' /\ Stable
  BY <1>1, NextStep DEF Step
<1>3. ASSUME Clean' PROVE Clean /\ IdsOnce' /\ reconfigures' = 0
  BY <1>1, <1>2, <1>3, CleanWasClean DEF Invs, Clean
<1>4. ASSUME StaysClean PROVE CallInv' /\ CleanInv'
  BY <1>3, <1>4 DEF StaysClean, CleanInv
<1>5. ASSUME NEW e \in Ends, TaskStep(e) PROVE CallInv' /\ CleanInv'
  <2>1. CASE NewChannel(e)
    BY <1>1, <1>2, <1>4, <2>1, NewChannelClean
  <2>2. CASE ~NewChannel(e)
    <3>1. CallInv'
      BY <1>1, <1>5, <2>2, CallsGoOn
    <3>2. ASSUME Clean' PROVE (\A g \in Ends : CleanOK(g)') /\ (\A s \in Hosts : NamedOK(s)')
      BY <1>1, <1>2, <1>3, <1>5, <2>2, <3>2, TaskStepClean
    <3>3. QED
      BY <3>1, <3>2 DEF CleanInv
  <2>3. QED
    BY <2>1, <2>2
<1>6. ASSUME NEW s \in Hosts, Deliver(s) PROVE CallInv' /\ CleanInv'
  <2>1. PICK m : m = Head(link[s])
    OBVIOUS
  <2>2. link[s] # <<>> /\ UNCHANGED <<written, received, reconfigures>>
    BY <1>6 DEF Deliver
  <2>3. m \in Packet
    <3>1. link[s] \in Seq(Packet)
      BY <1>1 DEF Invs, TypeOK
    <3>2. QED
      BY <2>1, <2>2, <3>1, HeadTailProperties
  <2>4. CASE m.type = "connReq"
    <3>1. OnConnectionRequest(s, m)
      BY <1>6, <2>1, <2>4 DEF Deliver
    <3>2. QED
      BY <1>1, <1>2, <1>4, <2>1, <2>2, <2>3, <2>4, <3>1, OnConnectionRequestClean
  <2>5. CASE m.type # "connReq"
    <3>1. Forward(s, m)
      BY <1>6, <2>1, <2>5 DEF Deliver
    <3>2. QED
      BY <1>1, <1>2, <1>4, <2>1, <2>2, <2>3, <2>5, <3>1, ForwardClean
  <2>6. QED
    BY <2>4, <2>5
<1>7. CASE UNCHANGED vars
  BY <1>1, <1>2, <1>4, <1>7, StutterClean
<1>8. QED
  BY <1>1, <1>5, <1>6, <1>7 DEF Next

LEMMA CleanHolds == Spec => [](Invs /\ CallInv /\ CleanInv)
BY InitOK, NextOK, InitClean, CleanNext, PTL DEF Spec

(* An end is open only when its peer has sent its own configuration and     *)
(* taken over this one: the peer is open too, or its response is on its way *)
(* or was mixed up, or the peer is closing.                                 *)
THEOREM OpenEndsAgree == Spec => []OpenAgrees
<1>1. ASSUME Invs, CallInv, CleanInv PROVE OpenAgrees
  <2>1. SUFFICES ASSUME Clean, NEW e \in Ends, state[e] = "open", NEW p, p = Peer(e),
                        state[p] \notin {"open"} \cup Closing
                 PROVE  state[p] = "configRsp" /\ (OnItsWay(p, "configRsp") \/ MixedUp(p))
    BY DEF OpenAgrees, Clean
  <2>2. p \in Ends /\ Peer(p) = e /\ Host(e) = Other(Host(p)) /\ Host(e) # Host(p)
    BY <2>1, EndFacts, HostFacts DEF Peer, Host
  <2>3. TypeOK /\ EndOK(p) /\ EndInv /\ RemoteInv /\ IdsOnce /\ CleanOK(e)
    BY <1>1, <2>1, <2>2 DEF Invs, EndInv, Clean, CleanInv
  <2>4. state[p] = "configRsp" /\ Told(p)
    BY <2>1, <2>3 DEF CleanOK, InPhase, Agree, Answering
  <2>5. op[p] # "none" /\ op[p] # "dropped" /\ local[p] # NoCid
    BY <2>3, <2>4 DEF EndOK, Closing
  <2>6. CASE Unregistered(p)
    <3>1. Released(p)
      BY <1>1, <2>2, <2>5, <2>6 DEF Invs, LostInv
    <3>2. "discReq" \notin EventTypes(p)
      <4>1. SUFFICES ASSUME NEW i \in 1..Len(inbox[p]), inbox[p][i].type = "discReq" PROVE FALSE
        BY DEF EventTypes
      <4>2. ClosingTo(Host(e), local[p])
        BY <1>1, <2>2, <4>1 DEF Invs, InboxInv, InboxOK
      <4>3. PICK f \in Ends : Host(f) = Host(e) /\ remote[f] = local[p] /\ state[f] \in Closing
        BY <4>2 DEF ClosingTo
      <4>4. p = Peer(f)
        BY <2>2, <2>3, <2>5, <4>3, RemoteIsPeers
      <4>5. f = e
        BY <2>2, <4>4, EndFacts
      <4>6. QED
        BY <2>1, <4>3, <4>5 DEF Closing
    <3>3. QED
      BY <2>4, <2>5, <3>1, <3>2 DEF Released, Closing
  <2>7. CASE ~Unregistered(p)
    <3>1. PICK a \in Seq(Packet), b \in Seq(Packet) : a = inbox[p] /\ b = link[Host(p)]
      BY <2>2, <2>3, StreamIs
    <3>2. PICK y : y = ConfigureResponse(local[p]) /\ y.type = "configRsp"
      <4>1. ConfigureResponse(local[p]).type = "configRsp"
        BY DEF ConfigureResponse
      <4>2. QED
        BY <4>1
    <3>3. Has(a \o b, y)
      BY <2>4, <2>7, <3>1, <3>2, NothingThere DEF Told, Stream
    <3>4. Has(a, y) \/ Has(b, y)
      BY <3>3, Concat
    <3>5. OnItsWay(p, "configRsp")
      BY <3>1, <3>2, <3>4 DEF Has, OnItsWay, EventTypes
    <3>6. QED
      BY <2>4, <3>5
  <2>8. QED
    BY <2>6, <2>7
<1>2. Invs /\ CallInv /\ CleanInv => OpenAgrees
  BY <1>1
<1>3. QED
  BY <1>2, CleanHolds, PTL

(* What read() returns is what the peer wrote, in order and without a gap.  *)
THEOREM NoneLost == Spec => []NothingLost
<1>1. CleanInv => NothingLost
  BY DEF CleanInv, Clean, CleanOK, ReadOK, NothingLost
<1>2. QED
  BY <1>1, CleanHolds, PTL

=============================================================================
