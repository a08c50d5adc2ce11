------------------------- MODULE HciEventLoop_proof -------------------------
(***************************************************************************)
(* Theorems about HciEventLoop for every set of calls, packets and         *)
(* handlers, every assignment of opcodes and every number of buffers.      *)
(***************************************************************************)
EXTENDS HciEventLoop, FiniteSetTheorems, TLAPS

(* What the elements of the two heterogeneous queues look like. *)
LEMMA EventShape ==
  ASSUME NEW e \in Event
  PROVE  /\ e.kind = "response" => e.call \in Calls \cup {None} /\ e = Response(e.call)
         /\ e.kind = "completed" => /\ e.packets \in SUBSET Packets /\ e.packets # {}
                                    /\ e.handles \in SetToSeqs(Connections(e.packets))
         /\ e.kind = "other" => e.id \in 1..MaxEvents /\ e = Other(e.id)
<1>1. CASE e \in Completions
  BY <1>1 DEF Completions
<1>2. CASE e \notin Completions
  BY <1>2 DEF Event, Response, Other
<1>3. QED
  BY <1>1, <1>2

(* Sets of packets, and of the connections they were sent on, are finite.  *)
LEMMA ConnectionsFinite ==
  ASSUME NEW S \in SUBSET Packets
  PROVE  /\ IsFiniteSet(S) /\ Cardinality(S) \in Nat
         /\ IsFiniteSet(Connections(S)) /\ Cardinality(Connections(S)) \in Nat
         /\ Connections(S) \subseteq Nat
<1>1. IsFiniteSet(S) /\ Cardinality(S) \in Nat
  BY PacketsAssumption, FS_Subset, FS_CardinalityType
<1> DEFINE f == [p \in S |-> Handle[p]]
<1>2. f \in Surjection(S, Connections(S))
  BY DEF Connections, Surjection
<1>3. IsFiniteSet(Connections(S))
  BY <1>1, <1>2, FS_Surjection
<1>4. Connections(S) \subseteq Nat
  BY PacketsAssumption DEF Connections
<1>5. QED
  BY <1>1, <1>3, <1>4, FS_CardinalityType

(* The list of an event has its connections once each. *)
LEMMA ListFacts ==
  ASSUME NEW S \in SUBSET Packets, NEW list \in SetToSeqs(Connections(S))
  PROVE  /\ list \in Seq(Nat)
         /\ Len(list) = Cardinality(Connections(S)) /\ Len(list) \in Nat
         /\ \A i \in 1..Len(list) : list[i] \in Connections(S) /\ list[i] \in Nat
<1>1. list \in [1..Cardinality(Connections(S)) -> Connections(S)]
  BY DEF SetToSeqs
<1>2. Cardinality(Connections(S)) \in Nat /\ Connections(S) \subseteq Nat
  BY ConnectionsFinite
<1>3. list \in Seq(Connections(S)) /\ Len(list) = Cardinality(Connections(S))
  BY <1>1, <1>2
<1>4. QED
  BY <1>1, <1>2, <1>3

(* The events that the actions append are events of the pipe's type. *)
LEMMA EventMembers ==
  /\ \A c \in Calls \cup {None} : Response(c) \in Event
  /\ \A S \in SUBSET Packets : \A list \in SetToSeqs(Connections(S)) :
        S # {} => Completed(S, list) \in Event
  /\ \A n \in 1..MaxEvents : Other(n) \in Event
<1>1. ASSUME NEW S \in SUBSET Packets, NEW list \in SetToSeqs(Connections(S)), S # {}
      PROVE  Completed(S, list) \in Event
  <2>1. list \in Seq(Nat)
    BY ListFacts
  <2>2. Completed(S, list) \in Completions
    BY <1>1, <2>1 DEF Completions, Completed
  <2>3. QED
    BY <2>2 DEF Event
<1>2. QED
  BY <1>1 DEF Event

(* The words of an event are numbers, and those of one connection are its  *)
(* handle and the number of its packets.                                   *)
LEMMA WordFacts ==
  ASSUME NEW e \in Event, e.kind = "completed"
  PROVE  /\ \A k \in 1..(2 * Len(e.handles)) : Word(e, k) \in Nat
         /\ Len(e.handles) = 1 => Word(e, 2) = Cardinality(e.packets)
<1>1. e.packets \in SUBSET Packets /\ e.handles \in SetToSeqs(Connections(e.packets))
  BY EventShape
<1>2. /\ Len(e.handles) = Cardinality(Connections(e.packets)) /\ Len(e.handles) \in Nat
      /\ \A i \in 1..Len(e.handles) : e.handles[i] \in Connections(e.packets) /\ e.handles[i] \in Nat
  BY <1>1, ListFacts
<1>3. \A h : Cardinality({p \in e.packets : Handle[p] = h}) \in Nat
  <2> TAKE h
  <2>1. {p \in e.packets : Handle[p] = h} \in SUBSET Packets
    BY <1>1
  <2>2. QED
    BY <2>1, ConnectionsFinite
<1>4. ASSUME NEW k \in 1..(2 * Len(e.handles)) PROVE Word(e, k) \in Nat
  <2>1. (k + 1) \div 2 \in 1..Len(e.handles)
    BY <1>2
  <2>2. e.handles[(k + 1) \div 2] \in Nat
    BY <1>2, <2>1
  <2>3. QED
    BY <1>3, <2>2 DEF Word
<1>5. ASSUME Len(e.handles) = 1 PROVE Word(e, 2) = Cardinality(e.packets)
  <2>1. IsFiniteSet(Connections(e.packets)) /\ Cardinality(Connections(e.packets)) = 1
    BY <1>1, <1>2, <1>5, ConnectionsFinite
  <2>2. PICK h : Connections(e.packets) = {h}
    BY <2>1, FS_Singleton
  <2>3. 1 \in 1..Len(e.handles)
    BY <1>5
  <2>4. e.handles[1] = h
    BY <1>2, <2>2, <2>3
  <2>5. {p \in e.packets : Handle[p] = h} = e.packets
    BY <2>2 DEF Connections
  <2>6. (2 + 1) \div 2 = 1 /\ 2 % 2 # 1
    OBVIOUS
  <2>7. QED
    BY <2>4, <2>5, <2>6 DEF Word
<1>6. QED
  BY <1>4, <1>5

(* What the loop reads from an event is a number of credits; of an event   *)
(* about one connection it is the number of packets that were completed.   *)
LEMMA CreditedCounts ==
  ASSUME NEW e \in Event, e.kind = "completed"
  PROVE  /\ Cardinality(e.packets) \in Nat /\ Credited(e) \in Nat
         /\ Len(e.handles) = 1 => Credited(e) = Cardinality(e.packets)
<1> DEFINE n == Len(e.handles)
           D == (n + 1)..(2 * n)
           Of(k) == {k} \X (1..Word(e, k))
           f == [k \in D |-> Of(k)]
           Parts == {Of(k) : k \in D}
<1>1. e.packets \in SUBSET Packets /\ e.handles \in SetToSeqs(Connections(e.packets))
  BY EventShape
<1>2. n \in Nat /\ Cardinality(e.packets) \in Nat
  BY <1>1, ListFacts, ConnectionsFinite
<1>3. ASSUME NEW k \in D
      PROVE  IsFiniteSet(Of(k)) /\ Cardinality(Of(k)) = Word(e, k)
  <2>1. Word(e, k) \in Nat
    BY <1>2, WordFacts
  <2>2. IsFiniteSet(1..Word(e, k)) /\ Cardinality(1..Word(e, k)) = Word(e, k)
    BY <2>1, FS_Interval
  <2>3. IsFiniteSet({k}) /\ Cardinality({k}) = 1
    BY FS_Singleton
  <2>4. /\ IsFiniteSet({k} \X (1..Word(e, k)))
        /\ Cardinality({k} \X (1..Word(e, k))) = Cardinality({k}) * Cardinality(1..Word(e, k))
    BY <2>2, <2>3, FS_Product
  <2>5. QED
    BY <2>1, <2>2, <2>3, <2>4
<1>4. f \in Surjection(D, Parts)
  BY DEF Surjection
<1>5. IsFiniteSet(D)
  BY <1>2, FS_Interval
<1>6. IsFiniteSet(Parts)
  BY <1>4, <1>5, FS_Surjection
<1>7. IsFiniteSet(UNION Parts)
  BY <1>3, <1>6, FS_UNION
<1>8. Credited(e) \in Nat
  BY <1>7, FS_CardinalityType DEF Credited
<1>9. ASSUME n = 1 PROVE Credited(e) = Cardinality(e.packets)
  <2>1. D = {2}
    BY <1>9
  <2>2. UNION Parts = Of(2) /\ 2 \in D
    BY <2>1
  <2>3. Cardinality(UNION Parts) = Word(e, 2)
    BY <1>3, <2>2
  <2>4. Word(e, 2) = Cardinality(e.packets)
    BY <1>9, WordFacts
  <2>5. QED
    BY <2>3, <2>4 DEF Credited
<1>10. QED
  BY <1>2, <1>8, <1>9

(* Removing the head of a queue keeps the rest, one place forward. *)
LEMMA TailFacts ==
  ASSUME NEW T, NEW s \in Seq(T), s # <<>>
  PROVE  /\ Head(s) \in T
         /\ Head(s) = s[1]
         /\ Tail(s) \in Seq(T)
         /\ Len(Tail(s)) = Len(s) - 1
         /\ Len(s) \in Nat \ {0}
         /\ \A i \in 1..Len(Tail(s)) : i + 1 \in 1..Len(s) /\ Tail(s)[i] = s[i + 1]
OBVIOUS

(* Appending keeps what a queue holds and adds one element at its end. *)
LEMMA AppendFacts ==
  ASSUME NEW T, NEW s \in Seq(T), NEW e \in T
  PROVE  /\ Append(s, e) \in Seq(T)
         /\ Len(Append(s, e)) = Len(s) + 1
         /\ Len(s) \in Nat
         /\ Append(s, e)[Len(s) + 1] = e
         /\ \A i \in 1..Len(s) : Append(s, e)[i] = s[i]
OBVIOUS

(* An emptied queue is a queue of its type. *)
LEMMA EmptySeq == \A T : <<>> \in Seq(T)
OBVIOUS

(* The control messages are of the queue's type and told apart by kind. *)
LEMMA ControlMembers ==
  /\ SetMax \in Control /\ Shutdown \in Control
  /\ \A h \in Handlers : Register(h) \in Control
  /\ \A m \in Control : m.kind = "register" => m.handler \in Handlers
<1>1. \A h \in Handlers : Register(h).handler = h
  BY DEF Register
<1>2. SetMax.kind # "register" /\ Shutdown.kind # "register"
  BY DEF SetMax, Shutdown
<1>3. QED
  BY <1>1, <1>2 DEF Control

-----------------------------------------------------------------------------
(* Every variable keeps its type; in_flight never exceeds the buffers.     *)
LEMMA InitType == Init => TypeOK
<1> SUFFICES ASSUME Init PROVE TypeOK
  OBVIOUS
<1>1. <<SetMax>> \in Seq(Control)
  BY ControlMembers
<1>2. [h \in Handlers |-> <<>>] \in [Handlers -> Seq(1..MaxEvents)]
  BY EmptySeq
<1>3. QED
  <2>1. <<>> \in Seq(Calls) /\ <<>> \in Seq(Event)
    BY EmptySeq
  <2>2. /\ 0 \in 0..NumBuffers
        /\ 0 \in 0..MaxEvents
        /\ 0 \in 0..MaxFaults
        /\ 0 \in Int
    BY BoundsAssumption
  <2>3. QED
    BY <1>1, <1>2, <2>1, <2>2 DEF Init, TypeOK, Place

(* Every turn of the loop, call and device step keeps the types. *)
LEMMA NextType == TypeOK /\ [Next]_vars => TypeOK'
<1> SUFFICES ASSUME TypeOK, [Next]_vars PROVE TypeOK'
  OBVIOUS
<1> USE DEF TypeOK, caller, queues, receivers, acl, life, device, usb
<1>1. ASSUME NEW c \in Calls, Call(c) \/ Cancel(c) PROVE TypeOK'
  <2>1. CASE Call(c)
    <3>1. Append(cmdQueue, c) \in Seq(Calls)
      OBVIOUS
    <3>2. QED
      BY <2>1, <3>1 DEF Call, Enqueue
  <2>2. CASE Cancel(c)
    BY <2>2 DEF Cancel
  <2>3. QED
    BY <1>1, <2>1, <2>2
<1>2. ASSUME NEW c \in Closers,
             \/ BeginShutdown(c) \/ ShutdownAgain(c) \/ SendShutdown(c)
             \/ FailShutdown(c) \/ Joined(c)
      PROVE  TypeOK'
  <2>1. Append(cmdQueue, c) \in Seq(Calls) /\ Append(ctlQueue, Shutdown) \in Seq(Control)
    BY CallsAssumption, ControlMembers
  <2>2. CASE BeginShutdown(c)
    BY <2>1, <2>2, CallsAssumption DEF BeginShutdown, Enqueue
  <2>3. CASE SendShutdown(c)
    BY <2>1, <2>3 DEF SendShutdown
  <2>4. CASE ShutdownAgain(c) \/ FailShutdown(c) \/ Joined(c)
    BY <2>4 DEF ShutdownAgain, FailShutdown, Joined
  <2>5. QED
    BY <1>2, <2>2, <2>3, <2>4
<1>3. ASSUME NEW h \in Handlers, RegisterHandler(h) \/ DropHandler(h) PROVE TypeOK'
  <2>1. Append(ctlQueue, Register(h)) \in Seq(Control)
    BY ControlMembers
  <2>2. QED
    BY <1>3, <2>1 DEF RegisterHandler, DropHandler
<1>4. ASSUME NEW p \in Packets, SendAcl(p) PROVE TypeOK'
  BY <1>4 DEF SendAcl, Place
<1>5. CASE DropHci
  BY <1>5 DEF DropHci
<1>6. CASE TakeCommand \/ OutstandingDropped
  <2>1. CASE TakeCommand
    <3>1. Tail(cmdQueue) \in Seq(Calls) /\ Head(cmdQueue) \in Calls
      BY <2>1, TailFacts DEF TakeCommand
    <3>2. QED
      BY <2>1, <3>1 DEF TakeCommand
  <2>2. CASE OutstandingDropped
    BY <2>2 DEF OutstandingDropped
  <2>3. QED
    BY <1>6, <2>1, <2>2
<1>7. CASE TakeCommandFails
  BY <1>7, TailFacts, BoundsAssumption DEF TakeCommandFails, Fail, Resolve
<1>8. CASE HandleEvent
  <2>1. events' \in Seq(Event) /\ Head(events) \in Event
    BY <1>8, TailFacts DEF HandleEvent
  <2>2. CASE Head(events).kind = "response" /\ OnResponse
    BY <1>8, <2>1, <2>2, EventShape DEF HandleEvent, OnResponse, Matches, Resolve
  <2>3. CASE Head(events).kind = "completed" /\ OnCompleted
    <3>1. Cardinality(Head(events).packets) \in Nat /\ Credited(Head(events)) \in Nat
      BY <2>1, <2>3, CreditedCounts
    <3>2. inFlight' \in 0..NumBuffers
      BY <2>3, <3>1, BoundsAssumption DEF OnCompleted, SaturatingSub
    <3>5. drift' \in Int
      BY <2>3, <3>1, <3>2, BoundsAssumption DEF OnCompleted, Drifts
    <3>3. packet' \in [Packets -> Place]
      BY <2>3 DEF OnCompleted, Place
    <3>4. QED
      BY <1>8, <2>1, <2>3, <3>2, <3>3, <3>5 DEF HandleEvent, OnCompleted
  <2>4. CASE Head(events).kind = "other" /\ Dispatch
    <3>1. Head(events).id \in 1..MaxEvents
      BY <2>1, <2>4, EventShape
    <3>2. \A h \in Handlers : Append(inbox[h], Head(events).id) \in Seq(1..MaxEvents)
      BY <3>1
    <3>3. inbox' \in [Handlers -> Seq(1..MaxEvents)]
      BY <2>4, <3>2 DEF Dispatch
    <3>4. QED
      BY <1>8, <2>1, <2>4, <3>3 DEF HandleEvent, Dispatch
  <2>5. QED
    BY <1>8, <2>2, <2>3, <2>4 DEF HandleEvent
<1>9. CASE EventTransferFails
  <2>1. events' \in Seq(Event) /\ missed' \subseteq Event
    BY <1>9, TailFacts DEF EventTransferFails
  <2>2. packet' \in [Packets -> Place]
    BY <1>9 DEF EventTransferFails, Place
  <2>3. QED
    BY <1>9, <2>1, <2>2, BoundsAssumption DEF EventTransferFails, Fail
<1>10. ASSUME NEW p \in Packets, TakeAcl(p) PROVE TypeOK'
  BY <1>10, BoundsAssumption DEF TakeAcl, Place
<1>11. ASSUME Exit, UNCHANGED <<events, controller, emitted, faults, missed>> PROVE TypeOK'
  <2>1. /\ status' \in [Calls -> {"new", "waiting", "ok", "failed", "closed", "dropped"}]
        /\ packet' \in [Packets -> Place]
    BY <1>11 DEF Exit, Place
  <2>2. cmdQueue' \in Seq(Calls) /\ ctlQueue' \in Seq(Control)
    BY <1>11, EmptySeq DEF Exit
  <2>3. QED
    BY <1>11, <2>1, <2>2 DEF Exit
<1>12. CASE ChannelClosed
  BY <1>11, <1>12 DEF ChannelClosed, Exit
<1>13. CASE HandleCtl
  <2>1. Head(ctlQueue) \in Control /\ Tail(ctlQueue) \in Seq(Control)
    BY <1>13, TailFacts DEF HandleCtl
  <2>2. CASE Head(ctlQueue) = Shutdown
    BY <1>11, <1>13, <2>2 DEF HandleCtl, Exit
  <2>3. CASE Head(ctlQueue) # Shutdown
    <3>1. ctlQueue' \in Seq(Control)
      BY <1>13, <2>1, <2>3 DEF HandleCtl
    <3>2. handlers' \subseteq Handlers
      BY <1>13, <2>1, <2>3, ControlMembers DEF HandleCtl
    <3>3. maxInFlight' \in {0, NumBuffers}
      BY <1>13, <2>3 DEF HandleCtl
    <3>4. QED
      BY <1>13, <2>3, <3>1, <3>2, <3>3 DEF HandleCtl
  <2>4. QED
    BY <2>2, <2>3
<1>14. ASSUME NEW c \in Calls, Answer(c) PROVE TypeOK'
  BY <1>14, EventMembers, AppendFacts DEF Answer
<1>15. CASE Emit \/ EmitNop
  <2>1. Append(events, Response(None)) \in Seq(Event)
    BY EventMembers
  <2>2. CASE Emit
    <3>1. emitted + 1 \in 1..MaxEvents
      BY <2>2, BoundsAssumption DEF Emit
    <3>2. Append(events, Other(emitted + 1)) \in Seq(Event)
      BY <3>1, EventMembers
    <3>3. QED
      BY <2>2, <3>1, <3>2, BoundsAssumption DEF Emit
  <2>3. QED
    BY <1>15, <2>1, <2>2 DEF EmitNop
<1>16. ASSUME NEW p \in Packets, AclDelivered(p) \/ AclWriteFails(p) \/ Flush(Handle[p])
       PROVE  TypeOK'
  <2>1. packet' \in [Packets -> Place]
    <3>1. CASE AclDelivered(p)
      BY <3>1 DEF AclDelivered, Place
    <3>2. CASE AclWriteFails(p)
      BY <3>2 DEF AclWriteFails, Place
    <3>3. CASE Flush(Handle[p])
      BY <3>3 DEF Flush, Place
    <3>4. QED
      BY <1>16, <3>1, <3>2, <3>3
  <2>2. faults' \in 0..MaxFaults
    BY <1>16, BoundsAssumption DEF AclDelivered, AclWriteFails, Fail, Flush
  <2>3. QED
    BY <1>16, <2>1, <2>2 DEF AclDelivered, AclWriteFails, Flush
<1>17. ASSUME NEW S \in SUBSET Packets, Complete(S) PROVE TypeOK'
  <2>1. PICK list \in SetToSeqs(Connections(S)) : events' = Append(events, Completed(S, list))
    BY <1>17 DEF Complete
  <2>2. S # {}
    BY <1>17 DEF Complete
  <2>3. Append(events, Completed(S, list)) \in Seq(Event)
    BY <2>2, EventMembers, AppendFacts
  <2>4. QED
    BY <1>17, <2>1, <2>3 DEF Complete, Place
<1>18. CASE UNCHANGED vars
  BY <1>18 DEF vars
<1>19. QED
  BY <1>1, <1>2, <1>3, <1>4, <1>5, <1>6, <1>7, <1>8, <1>9, <1>10, <1>12, <1>13, <1>14,
     <1>15, <1>16, <1>17, <1>18
  DEF Next, LoopStep, ApiStep, DeviceStep

(* Every variable keeps its type whatever is called, sent or lost; in      *)
(* particular in_flight never passes the number of buffers.                *)
THEOREM TypeCorrect == Spec => []TypeOK
BY InitType, NextType, PTL DEF Spec

-----------------------------------------------------------------------------
(***************************************************************************)
(* Responses.  Matching by opcode alone is right only because of the       *)
(* history: the controller owes the response of the outstanding command    *)
(* and of commands whose slot was freed early, and each of the latter has  *)
(* a cancelled call with its opcode.  That, with the fact that a call is   *)
(* queued, sent and answered at most once, is inductive.                   *)
(***************************************************************************)
Answered == {c \in Calls : \E i \in 1..Len(events) : events[i] = Response(c)}
Owed == controller \cup Answered

OnceInv ==
  /\ \A c \in Calls : status[c] = "new" => c \notin Queued \cup Owed
  /\ \A i, j \in 1..Len(cmdQueue) : cmdQueue[i] = cmdQueue[j] => i = j
  /\ Queued \cap Owed = {}
  /\ controller \cap Answered = {}
  /\ \A c \in Calls : \A i, j \in 1..Len(events) :
       events[i] = Response(c) /\ events[j] = Response(c) => i = j

OwedInv == alive => \A d \in Owed : d = outstanding \/ Explained(d)

CallInv == OnceInv /\ OwedInv /\ StaleOnlyAfterCancel

(* A cancelled call stays cancelled, so an explanation is for ever. *)
LEMMA ExplainedStays ==
  ASSUME \A e \in Calls : status[e] = "dropped" => status'[e] = "dropped",
         NEW c \in Calls, Explained(c)
  PROVE  Explained(c)'
BY DEF Explained

(* Explanations are shared by the calls of an opcode. *)
LEMMA ExplainedShared ==
  ASSUME NEW c \in Calls, NEW d \in Calls, Opcode[c] = Opcode[d], Explained(d)
  PROVE  Explained(c)
BY DEF Explained

(* A response names one call, and is not another kind of event. *)
LEMMA ResponseInjective ==
  /\ \A c, d \in Calls \cup {None} : Response(c) = Response(d) => c = d
  /\ \A c \in Calls : \A n : Response(c) # Other(n)
  /\ \A c \in Calls : \A S, list : Response(c) # Completed(S, list)
<1>1. \A c : Response(c).call = c /\ Response(c).kind = "response"
  BY DEF Response
<1>2. \A n : Other(n).kind = "other"
  BY DEF Other
<1>3. \A S, list : Completed(S, list).kind = "completed"
  BY DEF Completed
<1>4. QED
  BY <1>1, <1>2, <1>3

(* Steps that touch neither the queues nor the pipe. *)
LEMMA CallInvFrame ==
  ASSUME CallInv,
         UNCHANGED <<answer, cmdQueue, outstanding, alive, controller, events>>,
         \A c \in Calls : /\ status[c] = "dropped" => status'[c] = "dropped"
                          /\ status'[c] = "new" => status[c] = "new"
  PROVE  CallInv'
<1>1. UNCHANGED <<Queued, Answered, Owed>>
  BY DEF Queued, Answered, Owed
<1>2. OnceInv'
  BY <1>1 DEF CallInv, OnceInv
<1>3. OwedInv'
  BY <1>1, ExplainedStays DEF CallInv, OwedInv, Owed, Answered, Explained
<1>4. StaleOnlyAfterCancel'
  BY ExplainedStays DEF CallInv, StaleOnlyAfterCancel
<1>5. QED
  BY <1>2, <1>3, <1>4 DEF CallInv

(* Events that answer no call, appended to the pipe. *)
LEMMA CallInvAppend ==
  ASSUME TypeOK, CallInv, NEW e \in Event,
         \A c \in Calls : e # Response(c),
         events' = Append(events, e),
         UNCHANGED <<status, answer, cmdQueue, outstanding, alive, controller>>
  PROVE  CallInv'
<1>1. /\ Len(events') = Len(events) + 1
      /\ Len(events) \in Nat
      /\ events'[Len(events) + 1] = e
      /\ \A i \in 1..Len(events) : events'[i] = events[i]
  BY AppendFacts DEF TypeOK
<1>2. \A c \in Calls, i \in 1..Len(events') :
         events'[i] = Response(c) => i \in 1..Len(events) /\ events[i] = Response(c)
  BY <1>1
<1>3. Answered' = Answered
  BY <1>1, <1>2 DEF Answered
<1>4. UNCHANGED <<Queued, Owed>>
  BY <1>3 DEF Queued, Owed
<1>5. OnceInv'
  BY <1>2, <1>3, <1>4 DEF CallInv, OnceInv
<1>6. OwedInv' /\ StaleOnlyAfterCancel'
  BY <1>4 DEF CallInv, OwedInv, StaleOnlyAfterCancel, Explained
<1>7. QED
  BY <1>5, <1>6 DEF CallInv

(* A new call joins the queue: it is in no other place yet. *)
LEMMA EnqueueCallInv ==
  ASSUME TypeOK, CallInv, NEW c \in Calls, Enqueue(c)
  PROVE  CallInv'
<1>1. UNCHANGED <<answer, outstanding, alive, controller, events>>
  BY DEF Enqueue, life, device
<1>2. /\ \A d \in Calls : status[d] = "dropped" => status'[d] = "dropped"
      /\ \A d \in Calls : status'[d] = "new" => status[d] = "new" /\ d # c
  BY DEF Enqueue, TypeOK
<1>3. CASE ~alive
  BY <1>1, <1>2, <1>3, CallInvFrame DEF Enqueue
<1>4. CASE alive
  <2>1. /\ Len(cmdQueue') = Len(cmdQueue) + 1
        /\ Len(cmdQueue) \in Nat
        /\ cmdQueue'[Len(cmdQueue) + 1] = c
        /\ \A i \in 1..Len(cmdQueue) : cmdQueue'[i] = cmdQueue[i]
    BY <1>4, AppendFacts DEF Enqueue, TypeOK
  <2>2. Queued' = Queued \cup {c}
    BY <2>1 DEF Queued
  <2>3. c \notin Queued \cup Owed
    BY DEF Enqueue, CallInv, OnceInv
  <2>4. UNCHANGED <<Answered, Owed>>
    BY <1>1 DEF Answered, Owed
  <2>5. \A i, j \in 1..Len(cmdQueue') : cmdQueue'[i] = cmdQueue'[j] => i = j
    <3>1. \A i \in 1..Len(cmdQueue) : cmdQueue[i] # c
      BY <2>3 DEF Queued
    <3>2. QED
      BY <2>1, <3>1 DEF CallInv, OnceInv
  <2>6. OnceInv'
    BY <1>1, <1>2, <2>2, <2>3, <2>4, <2>5 DEF CallInv, OnceInv
  <2>7. OwedInv' /\ StaleOnlyAfterCancel'
    BY <1>1, <1>2, <2>4, ExplainedStays DEF CallInv, OwedInv, StaleOnlyAfterCancel, Explained, Owed, Answered, TypeOK
  <2>8. QED
    BY <2>6, <2>7 DEF CallInv
<1>5. QED
  BY <1>3, <1>4 DEF TypeOK

(* The head of the pipe leaves; what it answered is not owed any more. *)
LEMMA PopEvent ==
  ASSUME TypeOK, OnceInv, events # <<>>, events' = Tail(events), UNCHANGED controller
  PROVE  /\ Owed' \subseteq Owed
         /\ Answered' \subseteq Answered
         /\ \A c \in Calls : Head(events) = Response(c) => c \in Owed /\ c \notin Owed'
         /\ \A c \in Calls : \A i, j \in 1..Len(events') :
              events'[i] = Response(c) /\ events'[j] = Response(c) => i = j
<1>1. /\ Head(events) = events[1]
      /\ Len(events') = Len(events) - 1
      /\ Len(events) \in Nat \ {0}
      /\ \A i \in 1..Len(events') : i + 1 \in 1..Len(events) /\ events'[i] = events[i + 1]
  BY TailFacts DEF TypeOK
<1>2. Answered' \subseteq Answered
  BY <1>1 DEF Answered
<1>3. Owed' \subseteq Owed
  BY <1>2 DEF Owed
<1>4. ASSUME NEW c \in Calls, Head(events) = Response(c)
      PROVE  c \in Answered /\ c \notin Answered'
  <2>1. events[1] = Response(c) /\ 1 \in 1..Len(events)
    BY <1>1, <1>4
  <2>2. c \in Answered
    BY <2>1 DEF Answered
  <2>3. \A i \in 1..Len(events') : events'[i] # Response(c)
    BY <1>1, <2>1 DEF OnceInv
  <2>4. QED
    BY <2>2, <2>3 DEF Answered
<1>5. \A c \in Calls : Head(events) = Response(c) => c \in Owed /\ c \notin Owed'
  BY <1>4 DEF OnceInv, Owed
<1>6. \A c \in Calls : \A i, j \in 1..Len(events') :
        events'[i] = Response(c) /\ events'[j] = Response(c) => i = j
  BY <1>1 DEF OnceInv
<1>7. QED
  BY <1>2, <1>3, <1>5, <1>6

(* Reading an event keeps every call in one place. *)
LEMMA PopOnce ==
  ASSUME TypeOK, OnceInv, events # <<>>, events' = Tail(events),
         UNCHANGED <<controller, cmdQueue>>,
         \A c \in Calls : status'[c] = "new" => status[c] = "new"
  PROVE  OnceInv'
<1>1. Queued' = Queued
  BY DEF Queued
<1>2. QED
  BY <1>1, PopEvent DEF OnceInv

(* Popping an event without giving it to a call. *)
LEMMA PopCallInv ==
  ASSUME TypeOK, CallInv, events # <<>>, events' = Tail(events),
         UNCHANGED <<status, answer, cmdQueue, outstanding, alive, controller>>
  PROVE  CallInv'
<1>1. OnceInv' /\ Owed' \subseteq Owed
  BY PopOnce, PopEvent DEF CallInv
<1>2. OwedInv' /\ StaleOnlyAfterCancel'
  BY <1>1 DEF CallInv, OwedInv, StaleOnlyAfterCancel, Explained
<1>3. QED
  BY <1>1, <1>2 DEF CallInv

(* A response is given to the outstanding command only if it is its own or *)
(* explained by a cancellation.                                            *)
LEMMA ResponseCallInv ==
  ASSUME TypeOK, CallInv, HandleEvent, Head(events).kind = "response", OnResponse
  PROVE  CallInv'
<1> DEFINE d == Head(events).call
<1>1. /\ events # <<>> /\ events' = Tail(events)
      /\ UNCHANGED <<alive, controller, cmdQueue>>
      /\ alive
  BY DEF HandleEvent, OnResponse, life
<1>2. d \in Calls \cup {None} /\ Head(events) = Response(d)
  BY <1>1, TailFacts, EventShape DEF TypeOK
<1>3. CASE ~Matches(d)
  BY <1>1, <1>3, PopCallInv DEF OnResponse
<1>4. CASE Matches(d)
  <2>1. /\ outstanding \in Calls /\ d \in Calls
        /\ Opcode[d] = Opcode[outstanding]
        /\ outstanding' = None
        /\ answer' = [answer EXCEPT ![outstanding] = d]
        /\ Resolve(outstanding, "ok")
    BY <1>2, <1>4 DEF Matches, OnResponse, TypeOK
  <2>2. /\ \A c \in Calls : status[c] = "dropped" => status'[c] = "dropped"
        /\ \A c \in Calls : status'[c] = "new" => status[c] = "new"
    BY <2>1 DEF Resolve, TypeOK
  <2>3. OnceInv'
    BY <1>1, <2>2, PopOnce DEF CallInv
  <2>4. Owed' \subseteq Owed /\ d \in Owed /\ d \notin Owed'
    BY <1>1, <1>2, <2>1, PopEvent DEF CallInv
  <2>5. d = outstanding \/ Explained(d)
    BY <1>1, <2>4 DEF CallInv, OwedInv
  <2>6. outstanding = d \/ Explained(outstanding)
    BY <2>1, <2>5, ExplainedShared
  <2>7. ASSUME NEW c \in Calls, Explained(c) PROVE Explained(c)'
    BY <2>2, <2>7 DEF Explained
  <2>8. OwedInv'
    <3>1. Owed \subseteq Calls
      BY DEF Owed, Answered, TypeOK
    <3>2. ASSUME NEW e \in Owed' PROVE Explained(e)'
      <4>1. e \in Owed /\ e # d
        BY <2>4
      <4>2. Explained(e)
        BY <1>1, <2>6, <4>1 DEF CallInv, OwedInv
      <4>3. QED
        BY <2>7, <3>1, <4>1, <4>2
    <3>3. QED
      BY <3>2 DEF OwedInv
  <2>9. StaleOnlyAfterCancel'
    <3>1. SUFFICES ASSUME NEW c \in Calls, answer'[c] \notin {None, c} PROVE Explained(c)'
      BY DEF StaleOnlyAfterCancel
    <3>2. CASE c = outstanding
      BY <2>1, <2>6, <2>7, <3>1, <3>2 DEF TypeOK
    <3>3. CASE c # outstanding
      BY <2>1, <2>7, <3>1, <3>3 DEF TypeOK, CallInv, StaleOnlyAfterCancel
    <3>4. QED
      BY <3>2, <3>3
  <2>10. QED
    BY <2>3, <2>8, <2>9 DEF CallInv
<1>5. QED
  BY <1>3, <1>4

(* A command leaves the queue for the slot and the controller at once. *)
LEMMA TakeCallInv ==
  ASSUME TypeOK, CallInv, TakeCommand
  PROVE  CallInv'
<1> DEFINE c == Head(cmdQueue)
<1>1. /\ alive /\ outstanding = None /\ outstanding' = c
      /\ controller' = controller \cup {c}
      /\ cmdQueue # <<>> /\ cmdQueue' = Tail(cmdQueue)
      /\ UNCHANGED <<status, answer, alive, events>>
  BY DEF TakeCommand, caller, life
<1>2. /\ c \in Calls /\ c = cmdQueue[1]
      /\ Len(cmdQueue') = Len(cmdQueue) - 1
      /\ Len(cmdQueue) \in Nat \ {0}
      /\ \A i \in 1..Len(cmdQueue') : i + 1 \in 1..Len(cmdQueue) /\ cmdQueue'[i] = cmdQueue[i + 1]
  BY <1>1, TailFacts DEF TypeOK
<1>3. c \in Queued /\ Queued' \subseteq Queued
  BY <1>2 DEF Queued
<1>4. c \notin Queued'
  <2>1. \A i \in 1..Len(cmdQueue') : cmdQueue'[i] # c
    BY <1>2 DEF CallInv, OnceInv
  <2>2. QED
    BY <2>1 DEF Queued
<1>5. Answered' = Answered /\ Owed' = Owed \cup {c} /\ c \notin Owed
  BY <1>1, <1>3 DEF Answered, Owed, CallInv, OnceInv
<1>6. \A i, j \in 1..Len(cmdQueue') : cmdQueue'[i] = cmdQueue'[j] => i = j
  BY <1>2 DEF CallInv, OnceInv
<1>7. OnceInv'
  BY <1>1, <1>3, <1>4, <1>5, <1>6 DEF CallInv, OnceInv, Owed
<1>8. OwedInv' /\ StaleOnlyAfterCancel'
  <2>1. None \notin Owed
    BY CallsAssumption DEF Owed, Answered, TypeOK
  <2>2. QED
    BY <1>1, <1>5, <2>1 DEF CallInv, OwedInv, StaleOnlyAfterCancel, Explained
<1>9. QED
  BY <1>7, <1>8 DEF CallInv

(* Commands leave the queue without reaching the controller, or all of it *)
(* is dropped.                                                            *)
LEMMA ShrinkQueueCallInv ==
  ASSUME TypeOK, CallInv,
         \/ cmdQueue # <<>> /\ cmdQueue' = Tail(cmdQueue)
         \/ cmdQueue' = <<>>,
         alive' => alive /\ outstanding' = outstanding,
         UNCHANGED <<answer, controller, events>>,
         \A c \in Calls : /\ status[c] = "dropped" => status'[c] = "dropped"
                          /\ status'[c] = "new" => status[c] = "new"
  PROVE  CallInv'
<1>1. /\ Queued' \subseteq Queued
      /\ \A i, j \in 1..Len(cmdQueue') : cmdQueue'[i] = cmdQueue'[j] => i = j
  <2>1. CASE cmdQueue' = <<>>
    BY <2>1 DEF Queued
  <2>2. CASE cmdQueue # <<>> /\ cmdQueue' = Tail(cmdQueue)
    <3>1. \A i \in 1..Len(cmdQueue') : i + 1 \in 1..Len(cmdQueue) /\ cmdQueue'[i] = cmdQueue[i + 1]
      BY <2>2, TailFacts DEF TypeOK
    <3>2. QED
      BY <3>1 DEF Queued, CallInv, OnceInv
  <2>3. QED
    BY <2>1, <2>2
<1>2. UNCHANGED <<Answered, Owed>>
  BY DEF Answered, Owed
<1>3. OnceInv'
  BY <1>1, <1>2 DEF CallInv, OnceInv
<1>4. OwedInv' /\ StaleOnlyAfterCancel'
  BY <1>2 DEF CallInv, OwedInv, StaleOnlyAfterCancel, Explained, Owed, Answered, TypeOK
<1>5. QED
  BY <1>3, <1>4 DEF CallInv

(* The slot of a cancelled call is freed: its response becomes explained. *)
LEMMA DroppedCallInv ==
  ASSUME TypeOK, CallInv, OutstandingDropped
  PROVE  CallInv'
<1>1. /\ outstanding \in Calls /\ status[outstanding] = "dropped" /\ alive
      /\ outstanding' = None
      /\ UNCHANGED <<status, answer, cmdQueue, alive, controller, events>>
  BY DEF OutstandingDropped, TypeOK, caller, life, device
<1>2. UNCHANGED <<Queued, Answered, Owed>>
  BY <1>1 DEF Queued, Answered, Owed
<1>3. OnceInv'
  BY <1>1, <1>2 DEF CallInv, OnceInv
<1>4. Explained(outstanding)
  BY <1>1 DEF Explained
<1>5. OwedInv' /\ StaleOnlyAfterCancel'
  BY <1>1, <1>2, <1>4 DEF CallInv, OwedInv, StaleOnlyAfterCancel, Explained
<1>6. QED
  BY <1>3, <1>5 DEF CallInv

(* The controller's answer moves a command to the pipe; it stays owed. *)
LEMMA AnswerCallInv ==
  ASSUME TypeOK, CallInv, NEW c \in Calls, Answer(c)
  PROVE  CallInv'
<1>1. /\ c \in controller /\ controller' = controller \ {c}
      /\ events' = Append(events, Response(c))
      /\ UNCHANGED <<status, answer, cmdQueue, outstanding, alive>>
  BY DEF Answer, caller, queues, life
<1>2. /\ Len(events') = Len(events) + 1
      /\ Len(events) \in Nat
      /\ events'[Len(events) + 1] = Response(c)
      /\ \A i \in 1..Len(events) : events'[i] = events[i]
  BY <1>1, EventMembers, AppendFacts DEF TypeOK
<1>3. c \notin Answered
  BY <1>1 DEF CallInv, OnceInv
<1>4. Answered' = Answered \cup {c}
  <2>1. ASSUME NEW d \in Calls, NEW i \in 1..Len(events'), events'[i] = Response(d)
        PROVE  d = c \/ (i \in 1..Len(events) /\ events[i] = Response(d))
    BY <1>2, <2>1, ResponseInjective
  <2>2. c \in Answered'
    BY <1>2 DEF Answered
  <2>3. Answered \subseteq Answered'
    BY <1>2 DEF Answered
  <2>4. Answered' \subseteq Answered \cup {c}
    BY <2>1 DEF Answered
  <2>5. QED
    BY <2>2, <2>3, <2>4
<1>5. Owed' = Owed /\ Queued' = Queued
  BY <1>1, <1>4 DEF Owed, Queued
<1>6. ASSUME NEW d \in Calls, NEW i \in 1..Len(events'), NEW j \in 1..Len(events'),
             events'[i] = Response(d), events'[j] = Response(d)
      PROVE  i = j
  <2>1. CASE d = c
    <3>1. \A k \in 1..Len(events) : events[k] # Response(c)
      BY <1>3 DEF Answered
    <3>2. QED
      BY <1>2, <1>6, <2>1, <3>1
  <2>2. CASE d # c
    <3>1. Response(d) # Response(c)
      BY <2>2, ResponseInjective
    <3>2. i \in 1..Len(events) /\ j \in 1..Len(events)
      BY <1>2, <1>6, <3>1
    <3>3. QED
      BY <1>2, <1>6, <3>2 DEF CallInv, OnceInv
  <2>3. QED
    BY <2>1, <2>2
<1>7. OnceInv'
  <2>1. controller' \cap Answered' = {}
    BY <1>1, <1>4 DEF CallInv, OnceInv
  <2>2. QED
    BY <1>1, <1>5, <1>6, <2>1 DEF CallInv, OnceInv
<1>8. OwedInv' /\ StaleOnlyAfterCancel'
  BY <1>1, <1>5 DEF CallInv, OwedInv, StaleOnlyAfterCancel, Explained
<1>9. QED
  BY <1>7, <1>8 DEF CallInv

(* The loop ends: nothing is matched any more. *)
LEMMA ExitCallInv ==
  ASSUME TypeOK, CallInv, Exit
  PROVE  CallInv'
<1>1. /\ alive' = FALSE /\ cmdQueue' = <<>>
      /\ UNCHANGED <<answer, controller, events>>
  BY DEF Exit, device
<1>2. \A c \in Calls : /\ status[c] = "dropped" => status'[c] = "dropped"
                       /\ status'[c] = "new" => status[c] = "new"
  BY DEF Exit
<1>3. QED
  BY <1>1, <1>2, ShrinkQueueCallInv

(* At the start nothing is queued, owed or answered. *)
LEMMA InitCallInv == Init => CallInv
<1> SUFFICES ASSUME Init PROVE CallInv
  OBVIOUS
<1>1. Queued = {} /\ Answered = {} /\ Owed = {}
  BY DEF Init, Queued, Answered, Owed
<1>2. OnceInv
  BY <1>1 DEF Init, OnceInv
<1>3. OwedInv /\ StaleOnlyAfterCancel
  BY <1>1 DEF Init, OwedInv, StaleOnlyAfterCancel
<1>4. QED
  BY <1>2, <1>3 DEF CallInv

(* Every step keeps the invariant of calls and responses. *)
LEMMA NextCallInv == TypeOK /\ CallInv /\ [Next]_vars => CallInv'
<1> SUFFICES ASSUME TypeOK, CallInv, [Next]_vars PROVE CallInv'
  OBVIOUS
<1> USE DEF caller, queues, life, device
<1>1. ASSUME NEW c \in Calls, Call(c) PROVE CallInv'
  BY <1>1, EnqueueCallInv DEF Call
<1>2. ASSUME NEW c \in Calls, Cancel(c) PROVE CallInv'
  <2>1. \A d \in Calls : /\ status[d] = "dropped" => status'[d] = "dropped"
                         /\ status'[d] = "new" => status[d] = "new"
    BY <1>2 DEF Cancel, TypeOK
  <2>2. QED
    BY <1>2, <2>1, CallInvFrame DEF Cancel
<1>3. ASSUME NEW c \in Closers, BeginShutdown(c) PROVE CallInv'
  BY <1>3, CallsAssumption, EnqueueCallInv DEF BeginShutdown
<1>4. ASSUME NEW c \in Closers,
             ShutdownAgain(c) \/ SendShutdown(c) \/ FailShutdown(c) \/ Joined(c)
      PROVE  CallInv'
  BY <1>4, CallInvFrame DEF ShutdownAgain, SendShutdown, FailShutdown, Joined
<1>5. ASSUME NEW h \in Handlers, RegisterHandler(h) \/ DropHandler(h) PROVE CallInv'
  BY <1>5, CallInvFrame DEF RegisterHandler, DropHandler
<1>6. ASSUME NEW p \in Packets,
             \/ SendAcl(p) \/ TakeAcl(p) \/ AclDelivered(p)
             \/ AclWriteFails(p) \/ Flush(Handle[p])
      PROVE  CallInv'
  BY <1>6, CallInvFrame DEF SendAcl, TakeAcl, AclDelivered, AclWriteFails, Flush
<1>7. CASE DropHci
  BY <1>7, CallInvFrame DEF DropHci
<1>8. CASE TakeCommand
  BY <1>8, TakeCallInv
<1>9. CASE TakeCommandFails
  <2>1. \A d \in Calls : /\ status[d] = "dropped" => status'[d] = "dropped"
                         /\ status'[d] = "new" => status[d] = "new"
    BY <1>9 DEF TakeCommandFails, Resolve, TypeOK
  <2>2. QED
    BY <1>9, <2>1, ShrinkQueueCallInv DEF TakeCommandFails
<1>10. CASE OutstandingDropped
  BY <1>10, DroppedCallInv
<1>11. CASE HandleEvent
  <2>1. CASE Head(events).kind = "response" /\ OnResponse
    BY <1>11, <2>1, ResponseCallInv
  <2>2. CASE OnCompleted \/ Dispatch
    BY <1>11, <2>2, PopCallInv DEF HandleEvent, OnCompleted, Dispatch
  <2>3. QED
    BY <1>11, <2>1, <2>2 DEF HandleEvent
<1>12. CASE EventTransferFails
  BY <1>12, PopCallInv DEF EventTransferFails
<1>13. CASE ChannelClosed
  BY <1>13, ExitCallInv DEF ChannelClosed
<1>14. CASE HandleCtl
  <2>1. CASE Exit
    BY <2>1, ExitCallInv
  <2>2. CASE UNCHANGED <<caller, cmdQueue, outstanding, life, device>>
    BY <2>2, CallInvFrame
  <2>3. QED
    BY <1>14, <2>1, <2>2 DEF HandleCtl
<1>15. ASSUME NEW c \in Calls, Answer(c) PROVE CallInv'
  BY <1>15, AnswerCallInv
<1>16. CASE Emit
  <2>1. emitted + 1 \in 1..MaxEvents
    BY <1>16, BoundsAssumption DEF Emit, TypeOK
  <2>2. Other(emitted + 1) \in Event /\ \A c \in Calls : Other(emitted + 1) # Response(c)
    BY <2>1, EventMembers, ResponseInjective
  <2>3. QED
    BY <1>16, <2>2, CallInvAppend DEF Emit
<1>17. CASE EmitNop
  <2>1. Response(None) \in Event /\ \A c \in Calls : Response(None) # Response(c)
    BY EventMembers, ResponseInjective, CallsAssumption
  <2>2. QED
    BY <1>17, <2>1, CallInvAppend DEF EmitNop
<1>18. ASSUME NEW S \in SUBSET Packets, Complete(S) PROVE CallInv'
  <2>1. PICK list \in SetToSeqs(Connections(S)) : events' = Append(events, Completed(S, list))
    BY <1>18 DEF Complete
  <2>2. Completed(S, list) \in Event
    <3>1. S # {}
      BY <1>18 DEF Complete
    <3>2. QED
      BY <3>1, EventMembers
  <2>3. \A c \in Calls : Completed(S, list) # Response(c)
    BY ResponseInjective
  <2>4. QED
    BY <1>18, <2>1, <2>2, <2>3, CallInvAppend DEF Complete
<1>19. CASE UNCHANGED vars
  BY <1>19, CallInvFrame DEF vars
<1>20. QED
  BY <1>1, <1>2, <1>3, <1>4, <1>5, <1>6, <1>7, <1>8, <1>9, <1>10, <1>11, <1>12, <1>13,
     <1>14, <1>15, <1>16, <1>17, <1>18, <1>19
  DEF Next, LoopStep, ApiStep, DeviceStep

(***************************************************************************)
(* A call is given a response to another call only if a call with its      *)
(* opcode was cancelled: process_hci_event's comparison of opcodes is      *)
(* enough as long as nobody drops a call.                                  *)
(***************************************************************************)
THEOREM ResponsesMatch == Spec => []StaleOnlyAfterCancel
<1>1. Spec => []CallInv
  BY InitCallInv, NextCallInv, TypeCorrect, PTL DEF Spec
<1>2. CallInv => StaleOnlyAfterCancel
  BY DEF CallInv
<1>3. QED
  BY <1>1, <1>2, PTL

-----------------------------------------------------------------------------
(***************************************************************************)
(* A waiting call's oneshot sender is in the queue or in the slot.         *)
(***************************************************************************)
LEMMA NextNoOrphan == TypeOK /\ NoOrphanedCall /\ [Next]_vars => NoOrphanedCall'
<1> SUFFICES ASSUME TypeOK, NoOrphanedCall, [Next]_vars PROVE NoOrphanedCall'
  OBVIOUS
<1> USE DEF caller, queues, life, device
<1>1. ASSUME UNCHANGED <<cmdQueue, outstanding>>,
             \A c \in Calls : status'[c] = "waiting" => status[c] = "waiting"
      PROVE  NoOrphanedCall'
  BY <1>1 DEF NoOrphanedCall, Queued
<1>2. ASSUME NEW c \in Calls, Enqueue(c) PROVE NoOrphanedCall'
  <2>1. UNCHANGED outstanding /\ \A d \in Calls \ {c} : status'[d] = status[d]
    BY <1>2 DEF Enqueue, TypeOK
  <2>2. CASE alive
    <3>1. /\ Len(cmdQueue') = Len(cmdQueue) + 1
          /\ Len(cmdQueue) \in Nat
          /\ cmdQueue'[Len(cmdQueue) + 1] = c
          /\ \A i \in 1..Len(cmdQueue) : cmdQueue'[i] = cmdQueue[i]
      BY <1>2, <2>2, AppendFacts DEF Enqueue, TypeOK
    <3>2. Queued \cup {c} \subseteq Queued'
      BY <3>1 DEF Queued
    <3>3. QED
      BY <2>1, <3>2 DEF NoOrphanedCall
  <2>3. CASE ~alive
    <3>1. cmdQueue' = cmdQueue /\ status'[c] = "closed"
      BY <1>2, <2>3 DEF Enqueue, TypeOK
    <3>2. \A d \in Calls : status'[d] = "waiting" => status[d] = "waiting"
      BY <2>1, <3>1
    <3>3. QED
      BY <1>1, <2>1, <3>1, <3>2
  <2>4. QED
    BY <2>2, <2>3 DEF TypeOK
<1>3. ASSUME cmdQueue # <<>>, cmdQueue' = Tail(cmdQueue)
      PROVE  Queued \subseteq Queued' \cup {Head(cmdQueue)}
  <2>1. /\ Len(cmdQueue) \in Nat \ {0} /\ Head(cmdQueue) = cmdQueue[1]
        /\ Len(cmdQueue') = Len(cmdQueue) - 1
        /\ \A i \in 1..Len(cmdQueue') : cmdQueue'[i] = cmdQueue[i + 1]
    BY <1>3, TailFacts DEF TypeOK
  <2>2. ASSUME NEW i \in 1..Len(cmdQueue), i # 1 PROVE cmdQueue[i] \in Queued'
    <3>1. i - 1 \in 1..Len(cmdQueue') /\ cmdQueue'[i - 1] = cmdQueue[i]
      BY <2>1, <2>2
    <3>2. QED
      BY <3>1 DEF Queued
  <2>3. QED
    BY <2>1, <2>2 DEF Queued
<1>4. CASE TakeCommand
  <2>1. Queued \subseteq Queued' \cup {outstanding'} /\ UNCHANGED status /\ outstanding = None
    BY <1>3, <1>4 DEF TakeCommand
  <2>2. QED
    BY <2>1, CallsAssumption DEF NoOrphanedCall
<1>5. CASE TakeCommandFails
  <2>1. Queued \subseteq Queued' \cup {Head(cmdQueue)} /\ Head(cmdQueue) \in Calls
    BY <1>3, <1>5, TailFacts DEF TakeCommandFails, TypeOK
  <2>2. /\ status'[Head(cmdQueue)] # "waiting"
        /\ \A c \in Calls : status'[c] = "waiting" => status[c] = "waiting"
    BY <1>5, <2>1 DEF TakeCommandFails, Resolve, TypeOK
  <2>3. QED
    BY <1>5, <2>1, <2>2 DEF TakeCommandFails, NoOrphanedCall
<1>6. CASE OutstandingDropped
  BY <1>6 DEF OutstandingDropped, NoOrphanedCall, Queued
<1>7. CASE HandleEvent
  <2>1. CASE OnResponse
    <3>1. CASE Matches(Head(events).call)
      <4>1. /\ outstanding \in Calls /\ Resolve(outstanding, "ok") /\ cmdQueue' = cmdQueue
        BY <2>1, <3>1 DEF OnResponse, Matches, TypeOK
      <4>2. /\ status'[outstanding] # "waiting"
            /\ \A c \in Calls : status'[c] = "waiting" => status[c] = "waiting"
        BY <4>1 DEF Resolve, TypeOK
      <4>3. QED
        BY <4>1, <4>2 DEF NoOrphanedCall, Queued
    <3>2. CASE ~Matches(Head(events).call)
      BY <1>1, <2>1, <3>2 DEF OnResponse
    <3>3. QED
      BY <3>1, <3>2
  <2>2. CASE OnCompleted \/ Dispatch
    BY <1>1, <2>2 DEF OnCompleted, Dispatch
  <2>3. QED
    BY <1>7, <2>1, <2>2 DEF HandleEvent
<1>8. CASE Exit
  <2>1. ASSUME NEW c \in Calls, status'[c] = "waiting" PROVE FALSE
    BY <1>8, <2>1 DEF Exit, NoOrphanedCall
  <2>2. QED
    BY <2>1 DEF NoOrphanedCall
<1>9. CASE HandleCtl
  BY <1>1, <1>8, <1>9 DEF HandleCtl
<1>10. ASSUME NEW c \in Calls, Cancel(c) PROVE NoOrphanedCall'
  <2>1. \A d \in Calls : status'[d] = "waiting" => status[d] = "waiting"
    BY <1>10 DEF Cancel, TypeOK
  <2>2. QED
    BY <1>1, <1>10, <2>1 DEF Cancel
<1>11. ASSUME UNCHANGED <<status, cmdQueue, outstanding>> PROVE NoOrphanedCall'
  BY <1>1, <1>11
<1>12. ASSUME NEW c \in Closers,
              ShutdownAgain(c) \/ SendShutdown(c) \/ FailShutdown(c) \/ Joined(c)
       PROVE  NoOrphanedCall'
  BY <1>11, <1>12 DEF ShutdownAgain, SendShutdown, FailShutdown, Joined
<1>13. ASSUME NEW p \in Packets,
              \/ SendAcl(p) \/ TakeAcl(p) \/ AclDelivered(p)
              \/ AclWriteFails(p) \/ Flush(Handle[p])
       PROVE  NoOrphanedCall'
  BY <1>11, <1>13 DEF SendAcl, TakeAcl, AclDelivered, AclWriteFails, Flush
<1>14. ASSUME NEW h \in Handlers, RegisterHandler(h) \/ DropHandler(h) PROVE NoOrphanedCall'
  BY <1>11, <1>14 DEF RegisterHandler, DropHandler
<1>15. CASE \/ DropHci \/ EventTransferFails \/ Emit \/ EmitNop
            \/ \E c \in Calls : Answer(c)
            \/ \E S \in SUBSET Packets : Complete(S)
  BY <1>11, <1>15 DEF DropHci, EventTransferFails, Emit, EmitNop, Answer, Complete
<1>16. CASE UNCHANGED vars
  BY <1>11, <1>16 DEF vars
<1>17. QED
  BY <1>2, <1>4, <1>5, <1>6, <1>7, <1>8, <1>9, <1>10, <1>12, <1>13, <1>14, <1>15, <1>16,
     CallsAssumption
  DEF Next, LoopStep, ApiStep, DeviceStep, Call, BeginShutdown, ChannelClosed

(* A call that waits is in the queue or the slot in every behaviour: no    *)
(* error path of the loop forgets a sender.                                *)
THEOREM CallsKeepTheirSender == Spec => []NoOrphanedCall
<1>1. Init => NoOrphanedCall
  BY DEF Init, NoOrphanedCall
<1>2. QED
  BY <1>1, NextNoOrphan, TypeCorrect, PTL DEF Spec

-----------------------------------------------------------------------------
(***************************************************************************)
(* Credits.  The count is exact because NumberOfCompletedPackets reports   *)
(* packets that are in the pipe once: the sets in the pipe are disjoint.   *)
(***************************************************************************)
ReportedInv ==
  \A i, j \in 1..Len(events) :
    events[i].kind = "completed" =>
      /\ events[i].packets \subseteq At({"reported"})
      /\ events[j].kind = "completed" /\ i # j =>
           events[i].packets \cap events[j].packets = {}

CreditInv == CreditsExact /\ ReportedInv

(* Sets of packets are finite, so they can be counted. *)
LEMMA PacketSets ==
  /\ \A places : IsFiniteSet(At(places)) /\ Cardinality(At(places)) \in Nat
  /\ IsFiniteSet(Unreturned) /\ Cardinality(Unreturned) \in Nat
  /\ \A S \in SUBSET Packets : IsFiniteSet(S) /\ Cardinality(S) \in Nat
<1>1. \A S \in SUBSET Packets : IsFiniteSet(S) /\ Cardinality(S) \in Nat
  BY PacketsAssumption, FS_Subset, FS_CardinalityType
<1>2. \A places : At(places) \in SUBSET Packets
  BY DEF At
<1>3. QED
  BY <1>1, <1>2 DEF Unreturned

(* Steps that move packets only within what is in flight, or outside it. *)
LEMMA CreditFrame ==
  ASSUME CreditInv, UNCHANGED <<inFlight, drift, events>>,
         Unreturned' = Unreturned, At({"reported"}) \subseteq At({"reported"})'
  PROVE  CreditInv'
BY DEF CreditInv, CreditsExact, ReportedInv

(* Reading an event leaves the completions behind it disjoint. *)
LEMMA PopReported ==
  ASSUME TypeOK, ReportedInv, events # <<>>, events' = Tail(events),
         \A p \in At({"reported"}) :
            \/ \/ Head(events).kind = "completed" /\ p \in Head(events).packets
 \/ p \in At({"reported"})'
  PROVE  ReportedInv'
<1>1. /\ Len(events) \in Nat \ {0} /\ Head(events) = events[1]
      /\ \A i \in 1..Len(events') : i + 1 \in 1..Len(events) /\ events'[i] = events[i + 1]
  BY TailFacts DEF TypeOK
<1>2. \A i \in 1..Len(events') : i \in Nat /\ i + 1 # 1
  OBVIOUS
<1>3. SUFFICES ASSUME NEW i \in 1..Len(events'), NEW j \in 1..Len(events'),
                      events'[i].kind = "completed"
               PROVE  /\ events'[i].packets \subseteq At({"reported"})'
                      /\ events'[j].kind = "completed" /\ i # j =>
                           events'[i].packets \cap events'[j].packets = {}
  BY DEF ReportedInv
<1>4. /\ events[i + 1].packets \subseteq At({"reported"})
      /\ Head(events).kind = "completed" => events[i + 1].packets \cap Head(events).packets = {}
  BY <1>1, <1>2, <1>3 DEF ReportedInv
<1>5. events'[i].packets \subseteq At({"reported"})'
  BY <1>1, <1>4
<1>6. ASSUME events'[j].kind = "completed", i # j
      PROVE  events'[i].packets \cap events'[j].packets = {}
  <2>1. i + 1 # j + 1
    BY <1>6
  <2>2. QED
    BY <1>1, <1>3, <1>6, <2>1 DEF ReportedInv
<1>7. QED
  BY <1>5, <1>6

(* A completion of packets not reported before keeps them disjoint. *)
LEMMA AppendReported ==
  ASSUME TypeOK, ReportedInv, NEW e \in Event, events' = Append(events, e),
         At({"reported"}) \subseteq At({"reported"})',
         e.kind = "completed" => /\ e.packets \subseteq At({"reported"})'
                                 /\ e.packets \cap At({"reported"}) = {}
  PROVE  ReportedInv'
<1>1. /\ Len(events') = Len(events) + 1
      /\ Len(events) \in Nat
      /\ events'[Len(events) + 1] = e
      /\ \A i \in 1..Len(events) : events'[i] = events[i]
  BY AppendFacts DEF TypeOK
<1>2. SUFFICES ASSUME NEW i \in 1..Len(events'), NEW j \in 1..Len(events'),
                      events'[i].kind = "completed"
               PROVE  /\ events'[i].packets \subseteq At({"reported"})'
                      /\ events'[j].kind = "completed" /\ i # j =>
                           events'[i].packets \cap events'[j].packets = {}
  BY DEF ReportedInv
<1>3. \A k \in 1..Len(events) :
        events[k].kind = "completed" => events[k].packets \subseteq At({"reported"})
  BY DEF ReportedInv
<1>4. events'[i].packets \subseteq At({"reported"})'
  BY <1>1, <1>2, <1>3
<1>5. ASSUME events'[j].kind = "completed", i # j
      PROVE  events'[i].packets \cap events'[j].packets = {}
  <2>1. CASE i \in 1..Len(events) /\ j \in 1..Len(events)
    BY <1>1, <1>2, <1>5, <2>1 DEF ReportedInv
  <2>2. CASE i = Len(events) + 1 /\ j \in 1..Len(events)
    BY <1>1, <1>2, <1>3, <1>5, <2>2
  <2>3. CASE j = Len(events) + 1 /\ i \in 1..Len(events)
    BY <1>1, <1>2, <1>3, <1>5, <2>3
  <2>4. QED
    BY <1>1, <1>5, <2>1, <2>2, <2>3
<1>6. QED
  BY <1>4, <1>5

(* Every step keeps the count of credits exact. *)
LEMMA NextCredits == TypeOK /\ CreditInv /\ [Next]_vars => CreditInv'
<1> SUFFICES ASSUME TypeOK, CreditInv, [Next]_vars PROVE CreditInv'
  OBVIOUS
<1> USE DEF acl, device
<1>1. ASSUME UNCHANGED <<inFlight, drift, events, packet>> PROVE CreditInv'
  BY <1>1, CreditFrame DEF Unreturned, At
<1>2. ASSUME NEW c \in Calls, Call(c) \/ Cancel(c) PROVE CreditInv'
  BY <1>1, <1>2 DEF Call, Enqueue, Cancel
<1>3. ASSUME NEW c \in Closers,
             \/ BeginShutdown(c) \/ ShutdownAgain(c) \/ SendShutdown(c)
             \/ FailShutdown(c) \/ Joined(c)
      PROVE  CreditInv'
  BY <1>1, <1>3 DEF BeginShutdown, Enqueue, ShutdownAgain, SendShutdown, FailShutdown, Joined
<1>4. ASSUME NEW h \in Handlers, RegisterHandler(h) \/ DropHandler(h) PROVE CreditInv'
  BY <1>1, <1>4 DEF RegisterHandler, DropHandler
<1>5. CASE DropHci \/ TakeCommand \/ TakeCommandFails \/ OutstandingDropped
  BY <1>1, <1>5 DEF DropHci, TakeCommand, TakeCommandFails, OutstandingDropped
<1>6. ASSUME NEW p \in Packets, SendAcl(p) PROVE CreditInv'
  <2>1. Unreturned' = Unreturned /\ At({"reported"})' = At({"reported"})
    BY <1>6 DEF SendAcl, Unreturned, At, TypeOK
  <2>2. QED
    BY <1>6, <2>1, CreditFrame DEF SendAcl
<1>7. ASSUME NEW p \in Packets, TakeAcl(p) PROVE CreditInv'
  <2>1. p \notin Unreturned /\ Unreturned' = Unreturned \cup {p}
    BY <1>7 DEF TakeAcl, Unreturned, At, TypeOK
  <2>2. Cardinality(Unreturned') = Cardinality(Unreturned) + 1
    BY <2>1, PacketSets, FS_AddElement
  <2>3. CreditsExact'
    BY <1>7, <2>2, PacketSets DEF TakeAcl, CreditInv, CreditsExact, TypeOK
  <2>4. At({"reported"})' = At({"reported"})
    BY <1>7 DEF TakeAcl, At, TypeOK
  <2>5. ReportedInv'
    BY <1>7, <2>4 DEF TakeAcl, CreditInv, ReportedInv
  <2>6. QED
    BY <2>3, <2>5 DEF CreditInv
<1>8. ASSUME NEW p \in Packets, AclDelivered(p) \/ AclWriteFails(p) \/ Flush(Handle[p])
      PROVE  CreditInv'
  <2>1. UNCHANGED <<inFlight, drift, events>>
    BY <1>8 DEF AclDelivered, AclWriteFails, Flush
  <2>2. CASE AclDelivered(p)
    BY <2>1, <2>2, CreditFrame DEF AclDelivered, Unreturned, At, TypeOK
  <2>3. CASE AclWriteFails(p)
    BY <2>1, <2>3, CreditFrame DEF AclWriteFails, Unreturned, At, TypeOK
  <2>4. CASE Flush(Handle[p])
    <3>1. \A q \in Packets : /\ q \in Unreturned' <=> q \in Unreturned
                             /\ packet[q] = "reported" => packet'[q] = "reported"
      BY <2>4 DEF Flush, Unreturned, At, TypeOK
    <3>2. Unreturned' = Unreturned /\ At({"reported"}) \subseteq At({"reported"})'
      BY <3>1 DEF Unreturned, At
    <3>3. QED
      BY <2>1, <3>2, CreditFrame
  <2>5. QED
    BY <1>8, <2>2, <2>3, <2>4
<1>9. CASE HandleEvent
  <2>1. /\ events # <<>> /\ events' = Tail(events) /\ Head(events) = events[1]
        /\ Head(events) \in Event /\ 1 \in 1..Len(events)
    BY <1>9, TailFacts DEF HandleEvent, TypeOK
  <2>2. CASE Head(events).kind = "completed" /\ OnCompleted
    <3> DEFINE S == Head(events).packets
    <3>1. S \subseteq At({"reported"}) /\ S \subseteq Unreturned /\ S \in SUBSET Packets
      BY <2>1, <2>2 DEF CreditInv, ReportedInv, At, Unreturned
    <3>2. Unreturned' = Unreturned \ S
      BY <2>2, <3>1 DEF OnCompleted, Unreturned, At, TypeOK
    <3>3. /\ Cardinality(Unreturned') = Cardinality(Unreturned) - Cardinality(S)
          /\ Cardinality(S) <= Cardinality(Unreturned)
      <4>1. Unreturned \cap S = S
        BY <3>1
      <4>2. Cardinality(Unreturned \ S) = Cardinality(Unreturned) - Cardinality(Unreturned \cap S)
        BY PacketSets, FS_Difference
      <4>3. Cardinality(S) <= Cardinality(Unreturned)
        BY <3>1, PacketSets, FS_Subset
      <4>4. QED
        BY <3>2, <4>1, <4>2, <4>3
    <3>4. CreditsExact'
      <4>1. /\ Credited(Head(events)) \in Nat /\ Cardinality(S) \in Nat
            /\ Len(Head(events).handles) = 1 => Credited(Head(events)) = Cardinality(S)
        BY <2>1, <2>2, CreditedCounts
      <4>2. inFlight' = SaturatingSub(inFlight, Credited(Head(events))) /\ Drifts(Head(events))
        BY <2>2 DEF OnCompleted
      <4>3. inFlight \in Nat /\ drift \in Int /\ inFlight = Cardinality(Unreturned) + drift
        BY BoundsAssumption DEF CreditInv, CreditsExact, TypeOK
      <4>4. inFlight' \in Nat
        BY <4>1, <4>2, <4>3 DEF SaturatingSub
      <4>5. CASE Len(Head(events).handles) = 1 /\ Cardinality(S) <= inFlight
        <5>1. inFlight' = inFlight - Cardinality(S) /\ drift' = drift
          BY <4>1, <4>2, <4>3, <4>5 DEF SaturatingSub, Drifts
        <5>2. QED
          BY <3>3, <4>1, <4>3, <5>1, PacketSets DEF CreditsExact
      <4>6. CASE ~(Len(Head(events).handles) = 1 /\ Cardinality(S) <= inFlight)
        <5>1. drift' = drift + Cardinality(S) - (inFlight - inFlight')
          BY <4>2, <4>6 DEF Drifts
        <5>2. QED
          BY <3>3, <4>1, <4>3, <4>4, <5>1, PacketSets DEF CreditsExact
      <4>7. QED
        BY <4>5, <4>6
    <3>5. \A p \in At({"reported"}) : p \in S \/ p \in At({"reported"})'
      BY <2>2 DEF OnCompleted, At, TypeOK
    <3>6. ReportedInv'
      BY <2>1, <2>2, <3>5, PopReported DEF CreditInv
    <3>7. QED
      BY <3>4, <3>6 DEF CreditInv
  <2>3. CASE OnResponse \/ Dispatch
    <3>1. UNCHANGED <<inFlight, drift, packet>>
      BY <2>3 DEF OnResponse, Dispatch
    <3>2. Unreturned' = Unreturned /\ At({"reported"})' = At({"reported"})
      BY <3>1 DEF Unreturned, At
    <3>3. ReportedInv'
      BY <2>1, <3>2, PopReported DEF CreditInv
    <3>4. QED
      BY <3>1, <3>2, <3>3 DEF CreditInv, CreditsExact
  <2>4. QED
    BY <1>9, <2>2, <2>3 DEF HandleEvent
<1>10. CASE EventTransferFails
  <2>1. events # <<>> /\ events' = Tail(events) /\ UNCHANGED <<inFlight, drift>>
    BY <1>10 DEF EventTransferFails
  <2>2. /\ Head(events) = events[1] /\ 1 \in 1..Len(events)
        /\ Head(events).kind = "completed" => Head(events).packets \subseteq At({"reported"})
    BY <2>1, TailFacts DEF TypeOK, CreditInv, ReportedInv
  <2>3. \A p \in Packets :
          packet'[p] = IF Head(events).kind = "completed" /\ p \in Head(events).packets
                       THEN "lost" ELSE packet[p]
    BY <1>10 DEF EventTransferFails
  <2>4. Unreturned' = Unreturned
    BY <2>2, <2>3 DEF Unreturned, At
  <2>5. \A p \in At({"reported"}) :
          \/ Head(events).kind = "completed" /\ p \in Head(events).packets
          \/ p \in At({"reported"})'
    BY <2>3 DEF At
  <2>6. ReportedInv'
    BY <2>1, <2>5, PopReported DEF CreditInv
  <2>7. QED
    BY <2>1, <2>4, <2>6 DEF CreditInv, CreditsExact
<1>11. CASE Exit
  <2>1. Unreturned' = Unreturned /\ At({"reported"})' = At({"reported"})
    BY <1>11 DEF Exit, Unreturned, At, TypeOK
  <2>2. QED
    BY <1>11, <2>1, CreditFrame DEF Exit
<1>12. CASE ChannelClosed \/ HandleCtl
  BY <1>1, <1>11, <1>12 DEF ChannelClosed, HandleCtl
<1>13. ASSUME NEW e \in Event, e.kind # "completed", events' = Append(events, e),
              UNCHANGED <<inFlight, drift, packet>>
       PROVE  CreditInv'
  <2>1. Unreturned' = Unreturned /\ At({"reported"})' = At({"reported"})
    BY <1>13 DEF Unreturned, At
  <2>2. ReportedInv'
    BY <1>13, <2>1, AppendReported DEF CreditInv
  <2>3. QED
    BY <1>13, <2>1, <2>2 DEF CreditInv, CreditsExact
<1>14. CASE EmitNop \/ \E c \in Calls : Answer(c)
  <2>1. \A c \in Calls \cup {None} : Response(c) \in Event /\ Response(c).kind # "completed"
    BY EventMembers DEF Response
  <2>2. QED
    BY <1>13, <1>14, <2>1 DEF EmitNop, Answer
<1>15. CASE Emit
  <2>1. emitted + 1 \in 1..MaxEvents
    BY <1>15, BoundsAssumption DEF Emit, TypeOK
  <2>2. Other(emitted + 1) \in Event /\ Other(emitted + 1).kind # "completed"
    BY <2>1, EventMembers DEF Other
  <2>3. QED
    BY <1>13, <1>15, <2>2 DEF Emit
<1>16. ASSUME NEW S \in SUBSET Packets, Complete(S) PROVE CreditInv'
  <2>1. /\ S # {} /\ S \subseteq At({"buffered"})
        /\ \E list \in SetToSeqs(Connections(S)) : events' = Append(events, Completed(S, list))
        /\ UNCHANGED <<inFlight, drift>>
        /\ \A p \in Packets : packet'[p] = IF p \in S THEN "reported" ELSE packet[p]
    BY <1>16 DEF Complete
  <2>2. PICK e \in Event : events' = Append(events, e) /\ e.packets = S
    <3>1. PICK list \in SetToSeqs(Connections(S)) : events' = Append(events, Completed(S, list))
      BY <2>1
    <3>2. Completed(S, list) \in Event
      BY <2>1, EventMembers
    <3>3. Completed(S, list).packets = S
      BY DEF Completed
    <3>4. QED
      BY <3>1, <3>2, <3>3
  <2>3. /\ Unreturned' = Unreturned
        /\ At({"reported"}) \subseteq At({"reported"})'
        /\ S \subseteq At({"reported"})'
        /\ S \cap At({"reported"}) = {}
    BY <2>1 DEF Unreturned, At
  <2>4. ReportedInv'
    BY <2>1, <2>2, <2>3, AppendReported DEF CreditInv
  <2>5. QED
    BY <2>1, <2>3, <2>4 DEF CreditInv, CreditsExact
<1>17. CASE UNCHANGED vars
  BY <1>1, <1>17 DEF vars
<1>18. QED
  BY <1>2, <1>3, <1>4, <1>5, <1>6, <1>7, <1>8, <1>9, <1>10, <1>12, <1>14, <1>15, <1>16, <1>17
  DEF Next, LoopStep, ApiStep, DeviceStep

(* At the start no packet is under way and in_flight is 0. *)
LEMMA InitCredits == Init => CreditInv
<1> SUFFICES ASSUME Init PROVE CreditInv
  OBVIOUS
<1>1. Unreturned = {}
  BY DEF Init, Unreturned, At
<1>2. QED
  BY <1>1, FS_EmptySet DEF Init, CreditInv, CreditsExact, ReportedInv

(* in_flight counts the packets whose completion the loop has not read, and *)
(* what events about several connections left over, however completions    *)
(* are batched, flushed or lost.                                           *)
THEOREM CreditsAreExact == Spec => []CreditsExact
<1>1. Spec => []CreditInv
  BY InitCredits, NextCredits, TypeCorrect, PTL DEF Spec
<1>2. CreditInv => CreditsExact
  BY DEF CreditInv
<1>3. QED
  BY <1>1, <1>2, PTL

(***************************************************************************)
(* Whatever number of packets is queued, flushed or lost, the controller's *)
(* buffers are enough for what it is sent, until events about several      *)
(* connections have given away more credits than they kept back.           *)
(***************************************************************************)
THEOREM BuffersSuffice == Spec => []BuffersKept
<1>1. TypeOK /\ CreditsExact => BuffersKept
  <2> SUFFICES ASSUME TypeOK, CreditsExact, drift >= 0 PROVE BuffersRespected
    BY DEF BuffersKept
  <2>1. At({"usb", "buffered"}) \subseteq Unreturned
    BY DEF At, Unreturned
  <2>2. Cardinality(At({"usb", "buffered"})) <= Cardinality(Unreturned)
    BY <2>1, PacketSets, FS_Subset
  <2>3. QED
    BY <2>2, PacketSets, BoundsAssumption DEF TypeOK, CreditsExact, BuffersRespected
<1>2. QED
  BY <1>1, TypeCorrect, CreditsAreExact, PTL

(* Every packet is sent on the same connection. *)
OneConnection == \A p, q \in Packets : Handle[p] = Handle[q]

(* Events of one connection leave nothing over. *)
LEMMA OneConnectionKeeps ==
  ASSUME OneConnection, TypeOK, CreditInv, drift = 0, [Next]_vars
  PROVE  drift' = 0
<1> USE DEF acl, usb, device, receivers
<1>1. CASE HandleEvent
  <2>1. /\ events # <<>> /\ Head(events) = events[1] /\ Head(events) \in Event
        /\ 1 \in 1..Len(events)
    BY <1>1, TailFacts DEF HandleEvent, TypeOK
  <2>2. CASE Head(events).kind = "completed" /\ OnCompleted
    <3> DEFINE e == Head(events)
               S == e.packets
    <3>1. S \in SUBSET Packets /\ S # {} /\ e.handles \in SetToSeqs(Connections(S))
      BY <2>1, <2>2, EventShape
    <3>2. Len(e.handles) = Cardinality(Connections(S))
      BY <3>1, ListFacts
    <3>3. PICK p : p \in S
      BY <3>1
    <3>4. Connections(S) = {Handle[p]}
      BY <3>1, <3>3 DEF Connections, OneConnection
    <3>5. Len(e.handles) = 1
      BY <3>2, <3>4, FS_Singleton
    <3>6. S \subseteq Unreturned
      BY <2>1, <2>2 DEF CreditInv, ReportedInv, At, Unreturned
    <3>7. Cardinality(S) <= Cardinality(Unreturned)
      BY <3>6, PacketSets, FS_Subset
    <3>8. Cardinality(S) <= inFlight
      BY <3>7, PacketSets DEF CreditInv, CreditsExact
    <3>9. QED
      BY <2>2, <3>5, <3>8 DEF OnCompleted, Drifts
  <2>3. CASE OnResponse \/ Dispatch
    BY <2>3 DEF OnResponse, Dispatch
  <2>4. QED
    BY <1>1, <2>2, <2>3 DEF HandleEvent
<1>2. CASE Exit
  BY <1>2 DEF Exit
<1>3. CASE LoopStep /\ ~HandleEvent /\ ~Exit
  BY <1>3 DEF LoopStep, TakeCommand, TakeCommandFails, OutstandingDropped, EventTransferFails,
              HandleCtl, ChannelClosed, TakeAcl
<1>4. CASE ApiStep
  BY <1>4 DEF ApiStep, DropHci, Call, Enqueue, Cancel, BeginShutdown, ShutdownAgain, SendShutdown,
              FailShutdown, Joined, RegisterHandler, DropHandler, SendAcl
<1>5. CASE DeviceStep
  BY <1>5 DEF DeviceStep, Answer, Emit, EmitNop, AclDelivered, AclWriteFails, Flush, Complete
<1>6. CASE UNCHANGED vars
  BY <1>6 DEF vars
<1>7. QED
  BY <1>1, <1>2, <1>3, <1>4, <1>5, <1>6 DEF Next

(***************************************************************************)
(* With one connection in_flight is exactly the number of packets that are *)
(* not returned, and the controller's buffers are always enough: what goes *)
(* wrong needs an event about several.                                     *)
(***************************************************************************)
THEOREM OneConnectionExact ==
  OneConnection /\ Spec => [](inFlight = Cardinality(Unreturned) /\ BuffersRespected)
<1> DEFINE Inv == OneConnection /\ CreditInv /\ drift = 0
<1>1. OneConnection /\ Init => Inv
  BY InitCredits DEF Init
<1>2. TypeOK /\ Inv /\ [Next]_vars => Inv'
  BY NextCredits, OneConnectionKeeps DEF OneConnection
<1>3. TypeOK /\ BuffersKept /\ Inv
        => inFlight = Cardinality(Unreturned) /\ BuffersRespected
  BY PacketSets DEF CreditInv, CreditsExact, BuffersKept
<1>4. QED
  BY <1>1, <1>2, <1>3, TypeCorrect, BuffersSuffice, PTL DEF Spec

-----------------------------------------------------------------------------
(* Implementation of CallService.                                          *)

(* A step that changes neither a caller's status nor the loop's life is a  *)
(* stutter of the service.                                                 *)
LEMMA ServiceFrame ==
  ASSUME UNCHANGED <<status, alive>>
  PROVE  UNCHANGED Service!vars
BY DEF Service!vars

(* A step that tells one waiting caller o, and nothing to the others. *)
LEMMA ServiceTell ==
  ASSUME TypeOK, NEW c \in Calls, NEW o \in {"ok", "failed"}, alive, UNCHANGED alive, Resolve(c, o)
  PROVE  [Service!Next]_(Service!vars)
<1>1. CASE status[c] = "waiting"
  <2>1. \A d \in Calls : status'[d] = IF d = c THEN o ELSE status[d]
    BY <1>1 DEF Resolve, TypeOK
  <2>2. Outcome(status[c]) = "pending" /\ Outcome(o) \in {"succeeded", "failed"}
    BY <1>1 DEF Outcome
  <2>3. [d \in Calls |-> Outcome(status'[d])]
          = [[d \in Calls |-> Outcome(status[d])] EXCEPT ![c] = Outcome(o)]
    BY <2>1
  <2>4. Service!Answer(c)
    BY <2>2, <2>3 DEF Service!Answer
  <2>5. QED
    BY <2>4 DEF Service!Next
<1>2. CASE status[c] # "waiting"
  <2>1. status' = status
    BY <1>2 DEF Resolve, TypeOK
  <2>2. QED
    BY <2>1, ServiceFrame
<1>3. QED
  BY <1>1, <1>2

(* The end of the loop tells every waiting caller: none is forgotten. *)
LEMMA ServiceClose ==
  ASSUME TypeOK, NoOrphanedCall, alive, Exit
  PROVE  Service!Close
<1>1. \A c \in Calls : status'[c] = IF status[c] = "waiting" THEN "closed" ELSE status[c]
  BY DEF Exit, NoOrphanedCall
<1>2. \A s \in {"new", "waiting", "ok", "failed", "closed", "dropped"} :
        Outcome(s) = "pending" <=> s = "waiting"
  BY DEF Outcome
<1>3. Outcome("closed") = "failed"
  BY DEF Outcome
<1>4. \A c \in Calls : Outcome(status'[c]) = IF Outcome(status[c]) = "pending" THEN "failed"
                                             ELSE Outcome(status[c])
  BY <1>1, <1>2, <1>3 DEF TypeOK
<1>5. QED
  BY <1>4 DEF Exit, Service!Close

(* Every step of the loop is a step of the service, or none. *)
LEMMA NextService == TypeOK /\ NoOrphanedCall /\ [Next]_vars => [Service!Next]_(Service!vars)
<1> SUFFICES ASSUME TypeOK, NoOrphanedCall, [Next]_vars PROVE [Service!Next]_(Service!vars)
  OBVIOUS
<1>1. CASE UNCHANGED <<status, alive>>
  BY <1>1, ServiceFrame
<1>2. ASSUME NEW c \in Calls, Enqueue(c) PROVE [Service!Next]_(Service!vars)
  <2>1. /\ status[c] = "new" /\ UNCHANGED alive
        /\ \A d \in Calls : status'[d] = IF d # c THEN status[d]
                                          ELSE IF alive THEN "waiting" ELSE "closed"
    BY <1>2 DEF Enqueue, TypeOK, life
  <2>2. Outcome("new") = "new" /\ Outcome("waiting") = "pending" /\ Outcome("closed") = "failed"
    BY DEF Outcome
  <2>3. [d \in Calls |-> Outcome(status'[d])]
          = [[d \in Calls |-> Outcome(status[d])] EXCEPT ![c] = IF ~alive THEN "failed" ELSE "pending"]
    BY <2>1, <2>2
  <2>4. Service!Ask(c)
    BY <2>1, <2>2, <2>3 DEF Service!Ask
  <2>5. QED
    BY <2>4 DEF Service!Next
<1>3. ASSUME NEW c \in Calls, Cancel(c) PROVE [Service!Next]_(Service!vars)
  <2>1. /\ status[c] = "waiting" /\ UNCHANGED alive
        /\ \A d \in Calls : status'[d] = IF d # c THEN status[d] ELSE "dropped"
    BY <1>3 DEF Cancel, TypeOK, life
  <2>2. Outcome("waiting") = "pending" /\ Outcome("dropped") = "abandoned"
    BY DEF Outcome
  <2>3. [d \in Calls |-> Outcome(status'[d])]
          = [[d \in Calls |-> Outcome(status[d])] EXCEPT ![c] = "abandoned"]
    BY <2>1, <2>2
  <2>4. Service!Abandon(c)
    BY <2>1, <2>2, <2>3 DEF Service!Abandon
  <2>5. QED
    BY <2>4 DEF Service!Next
<1>4. ASSUME Exit, alive PROVE [Service!Next]_(Service!vars)
  BY <1>4, ServiceClose DEF Service!Next
<1>5. CASE TakeCommandFails
  <2>1. Head(cmdQueue) \in Calls
    BY <1>5, TailFacts DEF TakeCommandFails, TypeOK
  <2>2. QED
    BY <1>5, <2>1, ServiceTell DEF TakeCommandFails, life
<1>6. CASE HandleEvent
  <2>1. CASE OnResponse
    <3>1. CASE Matches(Head(events).call)
      BY <1>6, <2>1, <3>1, ServiceTell DEF HandleEvent, OnResponse, Matches, TypeOK, life
    <3>2. CASE ~Matches(Head(events).call)
      BY <1>1, <1>6, <2>1, <3>2 DEF HandleEvent, OnResponse, life
    <3>3. QED
      BY <3>1, <3>2
  <2>2. CASE OnCompleted \/ Dispatch
    BY <1>1, <1>6, <2>2 DEF HandleEvent, OnCompleted, Dispatch, caller, life
  <2>3. QED
    BY <1>6, <2>1, <2>2 DEF HandleEvent
<1>7. CASE LoopStep
  <2>1. CASE TakeCommand \/ OutstandingDropped \/ EventTransferFails \/ \E p \in Packets : TakeAcl(p)
    BY <1>1, <2>1 DEF TakeCommand, OutstandingDropped, EventTransferFails, TakeAcl, caller, life
  <2>2. CASE HandleCtl \/ ChannelClosed
    BY <1>1, <1>4, <2>2 DEF HandleCtl, ChannelClosed, caller, life
  <2>3. QED
    BY <1>5, <1>6, <1>7, <2>1, <2>2 DEF LoopStep
<1>8. CASE ApiStep
  <2>1. ASSUME NEW c \in Calls, Call(c) \/ Cancel(c) PROVE [Service!Next]_(Service!vars)
    BY <1>2, <1>3, <2>1 DEF Call
  <2>2. ASSUME NEW c \in Closers, BeginShutdown(c) PROVE [Service!Next]_(Service!vars)
    BY <1>2, <2>2, CallsAssumption DEF BeginShutdown
  <2>3. ASSUME NEW c \in Closers,
               ShutdownAgain(c) \/ SendShutdown(c) \/ FailShutdown(c) \/ Joined(c)
        PROVE  [Service!Next]_(Service!vars)
    BY <1>1, <2>3 DEF ShutdownAgain, SendShutdown, FailShutdown, Joined, life
  <2>4. CASE \/ DropHci
             \/ \E h \in Handlers : RegisterHandler(h) \/ DropHandler(h)
             \/ \E p \in Packets : SendAcl(p)
    BY <1>1, <2>4 DEF DropHci, RegisterHandler, DropHandler, SendAcl, caller, life
  <2>5. QED
    BY <1>8, <2>1, <2>2, <2>3, <2>4 DEF ApiStep
<1>9. CASE DeviceStep
  BY <1>1, <1>9 DEF DeviceStep, Answer, Emit, EmitNop, AclDelivered, AclWriteFails, Flush, Complete,
                    caller, life
<1>10. CASE UNCHANGED vars
  BY <1>1, <1>10 DEF vars, caller, life
<1>11. QED
  BY <1>7, <1>8, <1>9, <1>10 DEF Next

(***************************************************************************)
(* The event loop implements the service of calls: whatever is sent,       *)
(* cancelled, answered or lost, each caller is told at most once, and the  *)
(* end of the loop tells all of them.                                      *)
(***************************************************************************)
THEOREM ServiceImplemented == Spec => ImplementsService
<1>1. Init => Service!Init
  <2>1. Outcome("new") = "new"
    BY DEF Outcome
  <2>2. QED
    BY <2>1 DEF Init, Service!Init
<1>2. QED
  BY <1>1, NextService, TypeCorrect, CallsKeepTheirSender, PTL
  DEF Spec, ImplementsService, Service!Spec

-----------------------------------------------------------------------------
(* The events of the handlers.  Those in the pipe are the latest, in order *)
(* and without a gap; what a handler was sent came before them.            *)
IsOther(q, i) == i \in 1..Len(q) /\ q[i].kind = "other"
Id(q, i) == q[i].id
Coming(q, n) == \E i \in Nat : IsOther(q, i) /\ Id(q, i) = n

PipeInv ==
  /\ \A i \in Nat : IsOther(events, i) =>
       /\ Id(events, i) <= emitted
       /\ \A j \in Nat : IsOther(events, j) /\ i < j => Id(events, i) < Id(events, j)
       /\ \A n \in Nat : Id(events, i) < n /\ n <= emitted => Coming(events, n)

(* A handler that listens has all since its last event to come.            *)
Latest(h) == inbox[h][Len(inbox[h])]

HandlerInv ==
  \A h \in Handlers : inbox[h] # <<>> =>
    /\ Latest(h) <= emitted
    /\ \A i \in Nat : IsOther(events, i) => Latest(h) < Id(events, i)
    /\ alive /\ h \in live =>
         /\ h \in handlers
         /\ \A n \in Nat : Latest(h) < n /\ n <= emitted => Coming(events, n) \/ Other(n) \in missed

EventInv == PipeInv /\ HandlerInv /\ HandlersMissNothing

LEMMA SeqElements ==
  ASSUME NEW S, NEW s \in Seq(S)
  PROVE  Len(s) \in Nat /\ \A i \in 1..Len(s) : s[i] \in S
OBVIOUS

LEMMA OthersType ==
  ASSUME TypeOK
  PROVE  /\ events \in Seq(Event) /\ Len(events) \in Nat /\ emitted \in Nat
         /\ \A i \in Nat : IsOther(events, i) => Id(events, i) \in 1..MaxEvents /\ events[i] = Other(Id(events, i))
         /\ \A h \in Handlers : inbox[h] \in Seq(1..MaxEvents)
         /\ \A h \in Handlers : Len(inbox[h]) \in Nat /\ \A i \in 1..Len(inbox[h]) : inbox[h][i] \in Nat
         /\ \A h \in Handlers : inbox[h] # <<>> => Len(inbox[h]) \in 1..Len(inbox[h]) /\ Latest(h) \in Nat
<1>1. events \in Seq(Event) /\ Len(events) \in Nat /\ emitted \in Nat
  BY BoundsAssumption DEF TypeOK
<1>2. ASSUME NEW i \in Nat, IsOther(events, i)
      PROVE  Id(events, i) \in 1..MaxEvents /\ events[i] = Other(Id(events, i))
  <2>1. PICK e \in Event : e = events[i] /\ e.kind = "other"
    BY <1>1, <1>2, SeqElements DEF IsOther
  <2>2. e.id \in 1..MaxEvents /\ e = Other(e.id)
    BY <2>1, EventShape
  <2>3. QED
    BY <2>1, <2>2 DEF Id
<1>3. ASSUME NEW h \in Handlers
      PROVE  /\ inbox[h] \in Seq(1..MaxEvents)
             /\ Len(inbox[h]) \in Nat /\ \A i \in 1..Len(inbox[h]) : inbox[h][i] \in Nat
             /\ inbox[h] # <<>> => Len(inbox[h]) \in 1..Len(inbox[h]) /\ Latest(h) \in Nat
  <2>1. inbox[h] \in Seq(1..MaxEvents)
    BY DEF TypeOK
  <2>2. Len(inbox[h]) \in Nat /\ \A i \in 1..Len(inbox[h]) : inbox[h][i] \in 1..MaxEvents
    BY <2>1, SeqElements
  <2>3. inbox[h] # <<>> => Len(inbox[h]) \in 1..Len(inbox[h])
    BY <2>1
  <2>4. QED
    BY <2>1, <2>2, <2>3, BoundsAssumption DEF Latest
<1>4. QED
  BY <1>1, <1>2, <1>3

(* A step that touches neither the pipe nor what handlers were sent; it may *)
(* end the loop, add a handler that has got nothing yet, or drop one.       *)
LEMMA EventsFrame ==
  ASSUME EventInv, UNCHANGED <<events, emitted, missed, inbox>>, alive' => alive,
         alive' => \A h \in live' : inbox[h] # <<>> => h \in live /\ (h \in handlers => h \in handlers')
  PROVE  EventInv'
<1>1. PipeInv'
  BY DEF EventInv, PipeInv
<1>2. HandlersMissNothing'
  BY DEF EventInv, HandlersMissNothing
<1>3. HandlerInv'
  <2>1. SUFFICES ASSUME NEW h \in Handlers, inbox[h] # <<>>
                 PROVE  /\ Latest(h) <= emitted
                        /\ \A i \in Nat : IsOther(events, i) => Latest(h) < Id(events, i)
                        /\ alive' /\ h \in live' =>
                             /\ h \in handlers'
                             /\ \A n \in Nat : Latest(h) < n /\ n <= emitted => Coming(events, n) \/ Other(n) \in missed
    BY <2>1 DEF HandlerInv, Latest
  <2>2. QED
    BY <2>1 DEF EventInv, HandlerInv
<1>4. QED
  BY <1>1, <1>2, <1>3 DEF EventInv

(* The controller sends an event, the next one if it is for the handlers.   *)
LEMMA EventsAppend ==
  ASSUME TypeOK, EventInv, NEW e \in Event, events' = Append(events, e),
         UNCHANGED <<missed, inbox, handlers, live, alive>>,
         IF e.kind = "other" THEN e = Other(emitted + 1) /\ emitted' = emitted + 1 ELSE emitted' = emitted
  PROVE  EventInv'
<1>1. PICK k : k = Len(events) + 1
  OBVIOUS
<1>2. /\ Len(events) \in Nat /\ k \in Nat /\ Len(events') = k /\ events'[k] = e
      /\ \A i \in 1..Len(events) : events'[i] = events[i]
  <2>1. events \in Seq(Event)
    BY OthersType
  <2>2. QED
    BY <1>1, <2>1, AppendFacts
<1>3. \A i \in Nat : IsOther(events', i) <=> (IsOther(events, i) \/ (i = k /\ e.kind = "other"))
  BY <1>1, <1>2 DEF IsOther
<1>4. \A i \in Nat : IsOther(events, i) => i < k /\ Id(events', i) = Id(events, i) /\ Id(events, i) \in Nat
  BY <1>1, <1>2, OthersType DEF IsOther, Id
<1>5. e.kind = "other" => Id(events', k) = emitted + 1 /\ emitted' = emitted + 1
  BY <1>2 DEF Other, Id
<1>6. emitted \in Nat /\ emitted' \in Nat /\ emitted <= emitted'
  BY OthersType
<1>7. \A n \in Nat : Coming(events, n) => Coming(events', n)
  BY <1>3, <1>4 DEF Coming
<1>8. \A n \in Nat : n <= emitted' /\ ~(n <= emitted) => n = emitted + 1 /\ Coming(events', n)
  <2>1. ASSUME NEW n \in Nat, n <= emitted', ~(n <= emitted) PROVE n = emitted + 1 /\ e.kind = "other"
    BY <1>5, <1>6, <2>1
  <2>2. QED
    BY <1>2, <1>3, <1>5, <2>1 DEF Coming
<1>9. PipeInv'
  <2>1. ASSUME NEW i \in Nat, IsOther(events', i)
        PROVE  /\ Id(events', i) <= emitted'
               /\ \A j \in Nat : IsOther(events', j) /\ i < j => Id(events', i) < Id(events', j)
               /\ \A n \in Nat : Id(events', i) < n /\ n <= emitted' => Coming(events', n)
    <3>1. CASE IsOther(events, i)
      <4>1. /\ Id(events, i) <= emitted /\ Id(events', i) = Id(events, i) /\ Id(events, i) \in Nat
            /\ \A j \in Nat : IsOther(events, j) /\ i < j => Id(events, i) < Id(events, j)
            /\ \A n \in Nat : Id(events, i) < n /\ n <= emitted => Coming(events, n)
        BY <1>4, <3>1 DEF EventInv, PipeInv
      <4>2. Id(events', i) <= emitted'
        BY <1>6, <4>1
      <4>3. ASSUME NEW j \in Nat, IsOther(events', j), i < j PROVE Id(events', i) < Id(events', j)
        <5>1. CASE IsOther(events, j)
          BY <1>4, <4>1, <4>3, <5>1
        <5>2. CASE j = k /\ e.kind = "other"
          BY <1>5, <1>6, <4>1, <5>2
        <5>3. QED
          BY <1>3, <4>3, <5>1, <5>2
      <4>4. ASSUME NEW n \in Nat, Id(events', i) < n, n <= emitted' PROVE Coming(events', n)
        BY <1>7, <1>8, <4>1, <4>4
      <4>5. QED
        BY <4>2, <4>3, <4>4
    <3>2. CASE i = k /\ e.kind = "other"
      <4>1. Id(events', i) = emitted' /\ emitted' \in Nat
        BY <1>5, <1>6, <3>2
      <4>2. \A j \in Nat : IsOther(events', j) => ~(i < j)
        BY <1>2, <1>3, <1>4, <3>2
      <4>3. QED
        BY <4>1, <4>2
    <3>3. QED
      BY <1>3, <2>1, <3>1, <3>2
  <2>2. QED
    BY <2>1 DEF PipeInv
<1>10. HandlerInv'
  <2>1. SUFFICES ASSUME NEW h \in Handlers, inbox[h] # <<>>
                 PROVE  /\ Latest(h) <= emitted'
                        /\ \A i \in Nat : IsOther(events', i) => Latest(h) < Id(events', i)
                        /\ alive /\ h \in live =>
                             /\ h \in handlers
                             /\ \A n \in Nat : Latest(h) < n /\ n <= emitted' => Coming(events', n) \/ Other(n) \in missed
    BY <2>1 DEF HandlerInv, Latest
  <2>2. /\ \A i \in Nat : IsOther(events, i) => Latest(h) < Id(events, i)
        /\ alive /\ h \in live =>
             /\ h \in handlers
             /\ \A n \in Nat : Latest(h) < n /\ n <= emitted => Coming(events, n) \/ Other(n) \in missed
    BY <2>1 DEF EventInv, HandlerInv
  <2>3. Latest(h) <= emitted /\ Latest(h) <= emitted' /\ Latest(h) \in Nat
    <3>1. Latest(h) <= emitted /\ Latest(h) \in Nat
      BY <2>1, OthersType DEF EventInv, HandlerInv
    <3>2. QED
      BY <1>6, <3>1
  <2>4. \A i \in Nat : IsOther(events', i) => Latest(h) < Id(events', i)
    <3>1. ASSUME NEW i \in Nat, IsOther(events', i) PROVE Latest(h) < Id(events', i)
      <4>1. CASE IsOther(events, i)
        BY <1>4, <2>2, <4>1
      <4>2. CASE i = k /\ e.kind = "other"
        BY <1>5, <1>6, <2>3, <4>2
      <4>3. QED
        BY <1>3, <3>1, <4>1, <4>2
    <3>2. QED
      BY <3>1
  <2>5. QED
    BY <1>7, <1>8, <2>2, <2>3, <2>4
<1>11. HandlersMissNothing'
  BY DEF EventInv, HandlersMissNothing
<1>12. QED
  BY <1>9, <1>10, <1>11 DEF EventInv

(* The loop reads an event: the others keep their order, one place forward. *)
LEMMA EventsPop ==
  ASSUME TypeOK, PipeInv, events # <<>>, events' = Tail(events), emitted' = emitted
  PROVE  /\ events[1] = Head(events) /\ 1 \in 1..Len(events)
         /\ PipeInv'
         /\ \A i, j \in Nat : IsOther(events', i) /\ j = i + 1 => IsOther(events, j) /\ 1 < j /\ Id(events', i) = Id(events, j)
         /\ \A n \in Nat : Coming(events, n) => Coming(events', n) \/ (IsOther(events, 1) /\ n = Id(events, 1))
<1>1. /\ events[1] = Head(events) /\ Len(events) \in Nat \ {0} /\ Len(events') = Len(events) - 1
      /\ \A i \in 1..Len(events') : i + 1 \in 1..Len(events) /\ events'[i] = events[i + 1]
  <2>1. events \in Seq(Event)
    BY OthersType
  <2>2. QED
    BY <2>1, TailFacts
<1>2. \A i, j \in Nat : IsOther(events', i) /\ j = i + 1 => IsOther(events, j) /\ 1 < j /\ Id(events', i) = Id(events, j)
  BY <1>1 DEF IsOther, Id
<1>3. \A j \in Nat : IsOther(events, j) /\ j # 1 =>
        \E i \in Nat : j = i + 1 /\ IsOther(events', i) /\ Id(events', i) = Id(events, j)
  <2>1. ASSUME NEW j \in Nat, IsOther(events, j), j # 1
        PROVE  \E i \in Nat : j = i + 1 /\ IsOther(events', i) /\ Id(events', i) = Id(events, j)
    <3>1. PICK i \in Nat : i \in 1..Len(events') /\ i + 1 = j
      <4>1. j - 1 \in 1..Len(events') /\ (j - 1) + 1 = j
        BY <1>1, <2>1 DEF IsOther
      <4>2. QED
        BY <4>1
    <3>2. events'[i] = events[j]
      BY <1>1, <3>1
    <3>3. QED
      BY <2>1, <3>1, <3>2 DEF IsOther, Id
  <2>2. QED
    BY <2>1
<1>4. \A n \in Nat : Coming(events, n) => Coming(events', n) \/ (IsOther(events, 1) /\ n = Id(events, 1))
  <2>1. ASSUME NEW n \in Nat, NEW j \in Nat, IsOther(events, j), Id(events, j) = n
        PROVE  Coming(events', n) \/ (IsOther(events, 1) /\ n = Id(events, 1))
    <3>1. CASE j = 1
      BY <2>1, <3>1
    <3>2. CASE j # 1
      BY <1>3, <2>1, <3>2 DEF Coming
    <3>3. QED
      BY <3>1, <3>2
  <2>2. QED
    BY <2>1 DEF Coming
<1>5. PipeInv'
  <2>1. ASSUME NEW i \in Nat, IsOther(events', i)
        PROVE  /\ Id(events', i) <= emitted'
               /\ \A j \in Nat : IsOther(events', j) /\ i < j => Id(events', i) < Id(events', j)
               /\ \A n \in Nat : Id(events', i) < n /\ n <= emitted' => Coming(events', n)
    <3>1. PICK k \in Nat : k = i + 1 /\ IsOther(events, k) /\ 1 < k /\ Id(events', i) = Id(events, k)
      BY <1>2, <2>1
    <3>2. /\ Id(events, k) <= emitted
          /\ \A j \in Nat : IsOther(events, j) /\ k < j => Id(events, k) < Id(events, j)
          /\ \A n \in Nat : Id(events, k) < n /\ n <= emitted => Coming(events, n)
      BY <3>1 DEF PipeInv
    <3>3. IsOther(events, 1) => Id(events, 1) < Id(events, k) /\ Id(events, 1) \in Nat /\ Id(events, k) \in Nat
      <4>1. IsOther(events, 1) => Id(events, 1) < Id(events, k)
        BY <3>1 DEF PipeInv
      <4>2. QED
        BY <3>1, <4>1, OthersType
    <3>4. ASSUME NEW j \in Nat, IsOther(events', j), i < j PROVE Id(events', i) < Id(events', j)
      <4>1. PICK l \in Nat : l = j + 1 /\ k < l
        BY <3>1, <3>4
      <4>2. IsOther(events, l) /\ Id(events', j) = Id(events, l)
        BY <1>2, <3>4, <4>1
      <4>3. QED
        BY <3>1, <3>2, <4>1, <4>2
    <3>5. ASSUME NEW n \in Nat, Id(events', i) < n, n <= emitted' PROVE Coming(events', n)
      <4>1. Coming(events, n)
        BY <3>1, <3>2, <3>5
      <4>2. ~(IsOther(events, 1) /\ n = Id(events, 1))
        BY <3>1, <3>3, <3>5
      <4>3. QED
        BY <1>4, <4>1, <4>2
    <3>6. QED
      BY <3>1, <3>2, <3>4, <3>5
  <2>2. QED
    BY <2>1 DEF PipeInv
<1>6. QED
  BY <1>1, <1>2, <1>4, <1>5

(* It is not for the handlers, or the transfer failed.                      *)
LEMMA EventsSkip ==
  ASSUME TypeOK, EventInv, events # <<>>, events' = Tail(events),
         UNCHANGED <<emitted, inbox, handlers, live, alive>>,
         missed \subseteq missed', Head(events).kind = "other" => Head(events) \in missed'
  PROVE  EventInv'
<1>1. /\ events[1] = Head(events)
      /\ PipeInv'
      /\ \A i, j \in Nat : IsOther(events', i) /\ j = i + 1 => IsOther(events, j) /\ Id(events', i) = Id(events, j)
      /\ \A n \in Nat : Coming(events, n) => Coming(events', n) \/ (IsOther(events, 1) /\ n = Id(events, 1))
  BY EventsPop DEF EventInv
<1>2. IsOther(events, 1) => Other(Id(events, 1)) \in missed'
  <2>1. IsOther(events, 1) => events[1] = Other(Id(events, 1))
    BY OthersType
  <2>2. QED
    BY <1>1, <2>1 DEF IsOther
<1>3. HandlerInv'
  <2>1. SUFFICES ASSUME NEW h \in Handlers, inbox[h] # <<>>
                 PROVE  /\ Latest(h) <= emitted
                        /\ \A i \in Nat : IsOther(events', i) => Latest(h) < Id(events', i)
                        /\ alive /\ h \in live =>
                             /\ h \in handlers
                             /\ \A n \in Nat : Latest(h) < n /\ n <= emitted => Coming(events', n) \/ Other(n) \in missed'
    BY <2>1 DEF HandlerInv, Latest
  <2>2. /\ Latest(h) <= emitted
        /\ \A i \in Nat : IsOther(events, i) => Latest(h) < Id(events, i)
        /\ alive /\ h \in live =>
             /\ h \in handlers
             /\ \A n \in Nat : Latest(h) < n /\ n <= emitted => Coming(events, n) \/ Other(n) \in missed
    BY <2>1 DEF EventInv, HandlerInv
  <2>3. \A n \in Nat : Coming(events, n) => Coming(events', n) \/ Other(n) \in missed'
    BY <1>1, <1>2
  <2>4. QED
    BY <1>1, <2>2, <2>3
<1>4. HandlersMissNothing'
  BY DEF EventInv, HandlersMissNothing
<1>5. QED
  BY <1>1, <1>3, <1>4 DEF EventInv

(* The handlers that still listen get it.                                   *)
LEMMA EventsDispatch ==
  ASSUME TypeOK, EventInv, alive, events # <<>>, events' = Tail(events),
         Head(events).kind = "other", Dispatch, UNCHANGED <<emitted, missed, alive>>
  PROVE  EventInv'
<1>1. /\ events[1] = Head(events) /\ IsOther(events, 1)
      /\ PipeInv /\ PipeInv'
      /\ \A i, j \in Nat : IsOther(events', i) /\ j = i + 1 => IsOther(events, j) /\ 1 < j /\ Id(events', i) = Id(events, j)
      /\ \A n \in Nat : Coming(events, n) => Coming(events', n) \/ n = Id(events, 1)
  BY EventsPop DEF EventInv, IsOther
<1>2. PICK n : n = Id(events, 1)
  OBVIOUS
<1>3. n \in 1..MaxEvents /\ n \in Nat /\ n <= emitted /\ emitted \in Nat
  BY <1>1, <1>2, OthersType, BoundsAssumption DEF PipeInv
<1>4. \A i \in Nat : IsOther(events', i) => n < Id(events', i)
  BY <1>1, <1>2 DEF PipeInv
<1>5. \A m \in Nat : n < m /\ m <= emitted => Coming(events', m)
  <2>1. \A m \in Nat : n < m /\ m <= emitted => Coming(events, m)
    BY <1>1, <1>2 DEF PipeInv
  <2>2. QED
    BY <1>1, <1>2, <1>3, <2>1
<1>6. \A m \in Nat : Coming(events, m) => n <= m
  <2>1. ASSUME NEW j \in Nat, IsOther(events, j) PROVE n <= Id(events, j)
    <3>1. j = 1 \/ 1 < j
      BY <2>1 DEF IsOther
    <3>2. Id(events, j) \in Nat
      BY <2>1, OthersType, BoundsAssumption
    <3>3. QED
      BY <1>1, <1>2, <1>3, <2>1, <3>1, <3>2 DEF PipeInv
  <2>2. QED
    BY <2>1 DEF Coming
<1>7. /\ handlers' = handlers \cap live /\ live' = live
      /\ \A h \in Handlers : inbox'[h] = IF h \in handlers \cap live THEN Append(inbox[h], n) ELSE inbox[h]
  BY <1>1, <1>2 DEF Dispatch, Id
<1>8. ASSUME NEW h \in Handlers, h \notin handlers \cap live
      PROVE  /\ inbox'[h] = inbox[h]
             /\ inbox[h] # <<>> => h \notin live /\ Latest(h) <= emitted /\ Latest(h) < n
  <2>1. inbox[h] # <<>> => /\ Latest(h) <= emitted /\ Latest(h) < n
                           /\ h \in live => h \in handlers
    BY <1>1, <1>2 DEF EventInv, HandlerInv
  <2>2. QED
    BY <1>7, <1>8, <2>1
<1>9. ASSUME NEW h \in Handlers, h \in handlers \cap live
      PROVE  /\ inbox'[h] # <<>> /\ Len(inbox[h]) \in Nat /\ Len(inbox'[h]) = Len(inbox[h]) + 1
             /\ inbox'[h][Len(inbox[h]) + 1] = n /\ \A i \in 1..Len(inbox[h]) : inbox'[h][i] = inbox[h][i]
             /\ inbox[h] # <<>> => /\ Latest(h) < n /\ Latest(h) \in Nat
                                  /\ \A m \in Nat : Latest(h) < m /\ m < n => Other(m) \in missed
  <2>1. inbox'[h] = Append(inbox[h], n) /\ inbox[h] \in Seq(1..MaxEvents)
    BY <1>7, <1>9, OthersType
  <2>2. /\ Len(inbox[h]) \in Nat /\ Len(inbox'[h]) = Len(inbox[h]) + 1
        /\ inbox'[h][Len(inbox[h]) + 1] = n /\ \A i \in 1..Len(inbox[h]) : inbox'[h][i] = inbox[h][i]
    BY <1>3, <2>1, AppendFacts
  <2>3. inbox'[h] # <<>>
    BY <2>2
  <2>4. ASSUME inbox[h] # <<>>
        PROVE  /\ Latest(h) < n /\ Latest(h) \in Nat
               /\ \A m \in Nat : Latest(h) < m /\ m < n => Other(m) \in missed
    <3>1. /\ Latest(h) < n
          /\ \A m \in Nat : Latest(h) < m /\ m <= emitted => Coming(events, m) \/ Other(m) \in missed
      BY <1>1, <1>2, <1>9, <2>4 DEF EventInv, HandlerInv
    <3>2. Latest(h) \in Nat
      BY <2>4, OthersType
    <3>3. QED
      BY <1>3, <1>6, <3>1, <3>2
  <2>5. QED
    BY <2>2, <2>3, <2>4
<1>10. HandlerInv'
  <2>1. SUFFICES ASSUME NEW h \in Handlers, inbox'[h] # <<>>
                 PROVE  /\ Latest(h)' <= emitted
                        /\ \A i \in Nat : IsOther(events', i) => Latest(h)' < Id(events', i)
                        /\ h \in live =>
                             /\ h \in handlers'
                             /\ \A m \in Nat : Latest(h)' < m /\ m <= emitted => Coming(events', m) \/ Other(m) \in missed
    BY <1>7 DEF HandlerInv
  <2>2. CASE h \in handlers \cap live
    <3>1. Latest(h)' = n
      BY <1>9, <2>2 DEF Latest
    <3>2. QED
      BY <1>3, <1>4, <1>5, <1>7, <2>2, <3>1
  <2>3. CASE h \notin handlers \cap live
    <3>1. /\ Latest(h)' = Latest(h) /\ h \notin live /\ Latest(h) <= emitted
          /\ \A i \in Nat : IsOther(events, i) => Latest(h) < Id(events, i)
      BY <1>8, <2>1, <2>3 DEF Latest, EventInv, HandlerInv
    <3>2. QED
      BY <1>1, <3>1
  <2>4. QED
    BY <2>2, <2>3
<1>11. HandlersMissNothing'
  <2>1. SUFFICES ASSUME NEW h \in Handlers, NEW i \in 1..(Len(inbox'[h]) - 1)
                 PROVE  /\ inbox'[h][i] < inbox'[h][i + 1]
                        /\ \A m \in (inbox'[h][i] + 1)..(inbox'[h][i + 1] - 1) : Other(m) \in missed
    BY DEF HandlersMissNothing
  <2>2. ASSUME i \in 1..(Len(inbox[h]) - 1)
        PROVE  /\ inbox[h][i] < inbox[h][i + 1]
               /\ \A m \in (inbox[h][i] + 1)..(inbox[h][i + 1] - 1) : Other(m) \in missed
    BY <2>2 DEF EventInv, HandlersMissNothing
  <2>3. CASE h \in handlers \cap live
    <3>1. PICK k \in Nat : k = Len(inbox[h])
      BY <1>9, <2>3
    <3>2. i \in 1..k /\ Len(inbox'[h]) = k + 1 /\ inbox'[h][k + 1] = n
      BY <1>9, <2>1, <2>3, <3>1
    <3>3. CASE i = k
      <4>1. inbox[h] # <<>> /\ inbox'[h][i] = Latest(h) /\ inbox'[h][i + 1] = n
        BY <1>9, <2>3, <3>1, <3>2, <3>3 DEF Latest
      <4>2. Latest(h) < n /\ Latest(h) \in Nat /\ \A m \in Nat : Latest(h) < m /\ m < n => Other(m) \in missed
        BY <1>9, <2>3, <4>1
      <4>3. \A m \in (Latest(h) + 1)..(n - 1) : m \in Nat /\ Latest(h) < m /\ m < n
        BY <1>3, <4>2
      <4>4. QED
        BY <4>1, <4>2, <4>3
    <3>4. CASE i # k
      <4>1. i \in 1..(Len(inbox[h]) - 1) /\ i \in 1..Len(inbox[h]) /\ i + 1 \in 1..Len(inbox[h])
        BY <3>1, <3>2, <3>4
      <4>2. inbox'[h][i] = inbox[h][i] /\ inbox'[h][i + 1] = inbox[h][i + 1]
        BY <1>9, <2>3, <4>1
      <4>3. QED
        BY <2>2, <4>1, <4>2
    <3>5. QED
      BY <3>3, <3>4
  <2>4. CASE h \notin handlers \cap live
    BY <1>8, <2>1, <2>2, <2>4
  <2>5. QED
    BY <2>3, <2>4
<1>12. QED
  BY <1>1, <1>10, <1>11 DEF EventInv

LEMMA NextEvents == TypeOK /\ EventInv /\ [Next]_vars => EventInv'
<1> SUFFICES ASSUME TypeOK, EventInv, [Next]_vars PROVE EventInv'
  OBVIOUS
<1>1. ASSUME UNCHANGED <<events, emitted, missed, inbox, handlers, alive>>, live' = live PROVE EventInv'
  BY <1>1, EventsFrame
<1>2. ASSUME Exit PROVE EventInv'
  BY <1>2, EventsFrame DEF Exit, device, usb
<1>3. CASE HandleCtl
  <2>1. CASE Head(ctlQueue) = Shutdown
    BY <1>2, <1>3, <2>1 DEF HandleCtl
  <2>2. CASE Head(ctlQueue) # Shutdown
    <3>1. UNCHANGED <<events, emitted, missed, inbox, live, alive>> /\ handlers \subseteq handlers'
      BY <1>3, <2>2 DEF HandleCtl, life, device, usb
    <3>2. QED
      BY <3>1, EventsFrame
  <2>3. QED
    BY <2>1, <2>2
<1>4. CASE HandleEvent
  <2>1. /\ alive /\ events # <<>> /\ events' = Tail(events)
        /\ UNCHANGED <<emitted, missed, alive>>
    BY <1>4 DEF HandleEvent, life, usb
  <2>2. CASE Head(events).kind = "other" /\ Dispatch
    BY <2>1, <2>2, EventsDispatch
  <2>3. CASE Head(events).kind # "other" /\ (OnResponse \/ OnCompleted)
    <3>1. UNCHANGED <<inbox, handlers, live>>
      BY <2>3 DEF OnResponse, OnCompleted, receivers
    <3>2. QED
      BY <2>1, <2>3, <3>1, EventsSkip
  <2>4. QED
    BY <1>4, <2>2, <2>3 DEF HandleEvent
<1>5. CASE EventTransferFails
  <2>1. /\ events # <<>> /\ events' = Tail(events) /\ missed' = missed \cup {Head(events)}
        /\ UNCHANGED <<emitted, inbox, handlers, live, alive>>
    BY <1>5 DEF EventTransferFails, receivers, life
  <2>2. QED
    BY <2>1, EventsSkip
<1>6. CASE LoopStep
  <2>1. CASE TakeCommand \/ TakeCommandFails \/ OutstandingDropped \/ \E p \in Packets : TakeAcl(p)
    BY <1>1, <2>1 DEF TakeCommand, TakeCommandFails, OutstandingDropped, TakeAcl, receivers, device, usb, life
  <2>2. CASE ChannelClosed
    BY <1>2, <2>2 DEF ChannelClosed
  <2>3. QED
    BY <1>3, <1>4, <1>5, <1>6, <2>1, <2>2 DEF LoopStep
<1>7. CASE ApiStep
  <2>1. ASSUME NEW c \in Calls, Call(c) \/ Cancel(c) PROVE EventInv'
    BY <1>1, <2>1 DEF Call, Enqueue, Cancel, receivers, life, device, usb
  <2>2. ASSUME NEW c \in Closers, \/ BeginShutdown(c) \/ ShutdownAgain(c) \/ SendShutdown(c)
                                  \/ FailShutdown(c) \/ Joined(c)
        PROVE  EventInv'
    BY <1>1, <2>2 DEF BeginShutdown, Enqueue, ShutdownAgain, SendShutdown, FailShutdown, Joined,
                      receivers, life, device, usb
  <2>3. CASE DropHci \/ \E p \in Packets : SendAcl(p)
    BY <1>1, <2>3 DEF DropHci, SendAcl, receivers, life, device, usb
  <2>4. ASSUME NEW h \in Handlers, RegisterHandler(h) PROVE EventInv'
    <3>1. /\ UNCHANGED <<events, emitted, missed, inbox, handlers, alive>>
          /\ live' = live \cup {h} /\ inbox[h] = <<>>
      BY <2>4 DEF RegisterHandler, life, device, usb
    <3>2. QED
      BY <3>1, EventsFrame
  <2>5. ASSUME NEW h \in Handlers, DropHandler(h) PROVE EventInv'
    <3>1. /\ UNCHANGED <<events, emitted, missed, inbox, handlers, alive>>
          /\ live' = live \ {h}
      BY <2>5 DEF DropHandler, life, device, usb
    <3>2. QED
      BY <3>1, EventsFrame
  <2>6. QED
    BY <1>7, <2>1, <2>2, <2>3, <2>4, <2>5 DEF ApiStep
<1>8. CASE DeviceStep
  <2>1. ASSUME NEW e \in Event, events' = Append(events, e), e.kind # "other",
               UNCHANGED <<emitted, missed, inbox, handlers, live, alive>>
        PROVE  EventInv'
    BY <2>1, EventsAppend
  <2>2. ASSUME NEW c \in Calls, Answer(c) PROVE EventInv'
    <3>1. Response(c) \in Event /\ Response(c).kind # "other"
      BY EventMembers DEF Response
    <3>2. QED
      BY <2>1, <2>2, <3>1 DEF Answer, receivers, life, usb
  <2>3. CASE Emit
    <3>1. emitted + 1 \in 1..MaxEvents
      BY <2>3, BoundsAssumption DEF Emit, TypeOK
    <3>2. Other(emitted + 1) \in Event /\ Other(emitted + 1).kind = "other"
      BY <3>1, EventMembers DEF Other
    <3>3. QED
      BY <2>3, <3>2, EventsAppend DEF Emit, receivers, life, usb
  <2>4. CASE EmitNop
    <3>1. Response(None) \in Event /\ Response(None).kind # "other"
      BY EventMembers DEF Response
    <3>2. QED
      BY <2>1, <2>4, <3>1 DEF EmitNop, receivers, life, usb
  <2>5. ASSUME NEW S \in SUBSET Packets, Complete(S) PROVE EventInv'
    <3>1. PICK list \in SetToSeqs(Connections(S)) : events' = Append(events, Completed(S, list))
      BY <2>5 DEF Complete
    <3>2. Completed(S, list) \in Event
      <4>1. S # {}
        BY <2>5 DEF Complete
      <4>2. QED
        BY <4>1, EventMembers
    <3>3. Completed(S, list).kind # "other"
      BY DEF Completed
    <3>4. QED
      BY <2>1, <2>5, <3>1, <3>2, <3>3 DEF Complete, receivers, life, usb
  <2>6. ASSUME NEW p \in Packets, AclDelivered(p) \/ AclWriteFails(p) \/ Flush(Handle[p]) PROVE EventInv'
    BY <1>1, <2>6 DEF AclDelivered, AclWriteFails, Flush, receivers, life, device, usb
  <2>7. QED
    BY <1>8, <2>2, <2>3, <2>4, <2>5, <2>6 DEF DeviceStep
<1>9. CASE UNCHANGED vars
  BY <1>1, <1>9 DEF vars, receivers, life, device, usb
<1>10. QED
  BY <1>6, <1>7, <1>8, <1>9 DEF Next

(***************************************************************************)
(* A handler that listens is sent every event after its first, in order,   *)
(* but those lost on the USB pipe: a handler is never passed over by       *)
(* dispatch(), registered twice or sent an event that it was sent.         *)
(***************************************************************************)
THEOREM HandlersGetAll == Spec => []HandlersMissNothing
<1>1. Init => EventInv
  <2>1. SUFFICES ASSUME Init PROVE EventInv
    OBVIOUS
  <2>2. Len(events) = 0 /\ \A h \in Handlers : inbox[h] = <<>>
    BY <2>1 DEF Init
  <2>3. PipeInv
    BY <2>2 DEF PipeInv, IsOther
  <2>4. HandlerInv
    BY <2>2 DEF HandlerInv
  <2>5. HandlersMissNothing
    BY <2>2 DEF HandlersMissNothing
  <2>6. QED
    BY <2>3, <2>4, <2>5 DEF EventInv
<1>2. EventInv => HandlersMissNothing
  BY DEF EventInv
<1>3. QED
  BY <1>1, <1>2, NextEvents, TypeCorrect, PTL DEF Spec
=============================================================================
