---------------------------- MODULE SignalingIds ----------------------------
(***************************************************************************)
(* SignalingIds::next (l2cap/mod.rs): an AtomicU8 shared by the channels   *)
(* of a server, advanced with a load and a loop around                     *)
(* compare_exchange_weak, which may fail for no reason.  All accesses are  *)
(* to one atomic, so Relaxed ordering still gives it a single history.     *)
(***************************************************************************)
EXTENDS Naturals, Sequences, TLAPS

CONSTANTS
  Callers,    (* the tasks that signal                                      *)
  MaxId,      (* u8::MAX                                                    *)
  MaxIssued   (* bound: identifiers taken                                   *)

ASSUME IdAssumption == MaxId \in Nat \ {0} /\ MaxIssued \in Nat

VARIABLES
  counter,  (* the atomic                                                   *)
  pc,       (* where each task is in next()                                 *)
  current,  (* next()'s local variable                                      *)
  issued    (* history: what the calls of next() returned, in the order of  *)
            (* their exchanges                                              *)

idVars == <<counter, pc, current, issued>>

IdsInit ==
  /\ counter = 1
  /\ pc = [t \in Callers |-> "idle"]
  /\ current = [t \in Callers |-> 1]
  /\ issued = <<>>

(* checked_add(1).unwrap_or(1) *)
Successor(i) == IF i = MaxId THEN 1 ELSE i + 1

ReadCounter(t) ==
  /\ pc[t] = "idle"
  /\ Len(issued) < MaxIssued
  /\ current' = [current EXCEPT ![t] = counter]
  /\ pc' = [pc EXCEPT ![t] = "exchange"]
  /\ UNCHANGED <<counter, issued>>

(* Mutant: a store instead of an exchange. *)
Exchange_Store(t) ==
  /\ pc[t] = "exchange"
  /\ counter' = Successor(current[t])
  /\ issued' = Append(issued, current[t])
  /\ pc' = [pc EXCEPT ![t] = "idle"]
  /\ UNCHANGED current

Exchange(t) ==
  /\ pc[t] = "exchange"
  /\ counter = current[t]
  /\ counter' = Successor(current[t])
  /\ issued' = Append(issued, current[t])
  /\ pc' = [pc EXCEPT ![t] = "idle"]
  /\ UNCHANGED current

(* The exchange fails, spuriously or not: go on with the value it found. *)
ExchangeFails(t) ==
  /\ pc[t] = "exchange"
  /\ current' = [current EXCEPT ![t] = counter]
  /\ UNCHANGED <<counter, pc, issued>>

IdsNext == \E t \in Callers : ReadCounter(t) \/ Exchange(t) \/ ExchangeFails(t)

IdsSpec == IdsInit /\ [][IdsNext]_idVars

-----------------------------------------------------------------------------
(* The type of every variable. *)
IdTypes ==
  /\ counter \in 1..MaxId
  /\ pc \in [Callers -> {"idle", "exchange"}]
  /\ current \in [Callers -> 1..MaxId]
  /\ issued \in Seq(1..MaxId)

(***************************************************************************)
(* next() behaves as one atomic step: no identifier is skipped or handed   *)
(* out twice in a round, whichever tasks race for it.                      *)
(***************************************************************************)
Abstract == INSTANCE IdCounter
Atomic == Abstract!Spec

(***************************************************************************)
(* An identifier comes back only after all the others: the commands of any *)
(* MaxId consecutive requests can be told apart.                           *)
(***************************************************************************)
DistinctInARound ==
  \A i, j \in 1..Len(issued) : i < j /\ issued[i] = issued[j] => j >= i + MaxId

-----------------------------------------------------------------------------
(* The theorems hold for any number of tasks and identifiers. *)

(* The variables stay in their ranges; 0 is never an identifier. *)
THEOREM TypeCorrect == IdsSpec => []IdTypes
<1>1. IdsInit => IdTypes
  BY IdAssumption DEF IdsInit, IdTypes
<1>2. IdTypes /\ [IdsNext]_idVars => IdTypes'
  <2> SUFFICES ASSUME IdTypes, [IdsNext]_idVars PROVE IdTypes'
    OBVIOUS
  <2>1. ASSUME NEW t \in Callers, ReadCounter(t) PROVE IdTypes'
    BY <2>1 DEF ReadCounter, IdTypes
  <2>2. ASSUME NEW t \in Callers, Exchange(t) PROVE IdTypes'
    <3>1. Successor(current[t]) \in 1..MaxId
      BY IdAssumption DEF IdTypes, Successor
    <3> QED BY <2>2, <3>1 DEF Exchange, IdTypes
  <2>3. ASSUME NEW t \in Callers, ExchangeFails(t) PROVE IdTypes'
    BY <2>3 DEF ExchangeFails, IdTypes
  <2>4. CASE UNCHANGED idVars
    BY <2>4 DEF idVars, IdTypes
  <2> QED BY <2>1, <2>2, <2>3, <2>4 DEF IdsNext
<1> QED BY <1>1, <1>2, PTL DEF IdsSpec

-----------------------------------------------------------------------------
(* Refinement: the successful exchange is the step of the atomic counter,  *)
(* and every other step leaves the counter and the history alone.          *)
THEOREM ImplementsCounter == IdsSpec => Atomic
<1>1. IdsInit => Abstract!Init
  BY DEF IdsInit, Abstract!Init
<1>2. [IdsNext]_idVars => [Abstract!Take]_<<counter, issued>>
  <2> SUFFICES ASSUME [IdsNext]_idVars PROVE [Abstract!Take]_<<counter, issued>>
    OBVIOUS
  <2>1. ASSUME NEW t \in Callers, ReadCounter(t) PROVE UNCHANGED <<counter, issued>>
    BY <2>1 DEF ReadCounter
  <2>2. ASSUME NEW t \in Callers, Exchange(t) PROVE Abstract!Take
    BY <2>2 DEF Exchange, Successor, Abstract!Take, Abstract!Succ
  <2>3. ASSUME NEW t \in Callers, ExchangeFails(t) PROVE UNCHANGED <<counter, issued>>
    BY <2>3 DEF ExchangeFails
  <2>4. CASE UNCHANGED idVars
    BY <2>4 DEF idVars
  <2> QED BY <2>1, <2>2, <2>3, <2>4 DEF IdsNext
<1> QED BY <1>1, <1>2, PTL DEF IdsSpec, Atomic, Abstract!Spec

-----------------------------------------------------------------------------
(* Identifiers d requests apart differ by d, or by d - MaxId once the      *)
(* counter has wrapped.                                                    *)
Apart(x, y, d) == y = x + d \/ y = x + d - MaxId

(* The strengthening of DistinctInARound: it says how far apart any two    *)
(* identifiers of a round are, the one the counter holds included.         *)
RoundInv ==
  /\ \A i, j \in 1..Len(issued) : i < j /\ j < i + MaxId => Apart(issued[i], issued[j], j - i)
  /\ \A i \in 1..Len(issued) : Len(issued) < i + MaxId
                                 => Apart(issued[i], counter, Len(issued) + 1 - i)

(* One more step of the counter keeps identifiers apart. *)
LEMMA ApartSuccessor ==
  ASSUME NEW x \in 1..MaxId, NEW y \in 1..MaxId, NEW d \in Nat, d < MaxId, Apart(x, y, d)
  PROVE  Apart(x, Successor(y), d + 1)
BY IdAssumption DEF Apart, Successor

(* An identifier of the round is handed out: RoundInv holds afterwards. *)
LEMMA ExchangeKeepsRound ==
  ASSUME IdTypes, RoundInv, NEW t \in Callers, Exchange(t)
  PROVE  RoundInv'
<1> DEFINE n == Len(issued)
<1>1. /\ n \in Nat
      /\ counter \in 1..MaxId
      /\ MaxId \in Nat \ {0}
      /\ counter' = Successor(counter)
      /\ issued' = Append(issued, counter)
  BY IdAssumption DEF IdTypes, Exchange
<1>2. /\ Len(issued') = n + 1
      /\ issued'[n + 1] = counter
      /\ \A i \in 1..n : issued'[i] = issued[i] /\ issued[i] \in 1..MaxId
  BY <1>1 DEF IdTypes
<1>3. ASSUME NEW i \in 1..(n + 1), NEW j \in 1..(n + 1), i < j, j < i + MaxId
      PROVE  Apart(issued'[i], issued'[j], j - i)
  <2>1. CASE j <= n
    BY <2>1, <1>1, <1>2, <1>3 DEF RoundInv
  <2>2. CASE j = n + 1
    BY <2>2, <1>1, <1>2, <1>3 DEF RoundInv
  <2> QED BY <2>1, <2>2, <1>1
<1>4. ASSUME NEW i \in 1..(n + 1), n + 1 < i + MaxId
      PROVE  Apart(issued'[i], counter', (n + 1) + 1 - i)
  <2>1. CASE i = n + 1
    BY <2>1, <1>1, <1>2 DEF Apart, Successor
  <2>2. CASE i <= n
    <3>1. issued[i] \in 1..MaxId /\ issued'[i] = issued[i]
      BY <2>2, <1>1, <1>2
    <3>2. Apart(issued[i], counter, n + 1 - i)
      BY <2>2, <1>1, <1>4 DEF RoundInv
    <3>3. n + 1 - i \in Nat /\ n + 1 - i < MaxId
      BY <2>2, <1>1, <1>4
    <3>4. Apart(issued[i], Successor(counter), (n + 1 - i) + 1)
      BY <3>1, <3>2, <3>3, <1>1, ApartSuccessor
    <3>5. (n + 1 - i) + 1 = (n + 1) + 1 - i
      BY <1>1
    <3> QED BY <3>1, <3>4, <3>5, <1>1
  <2> QED BY <2>1, <2>2, <1>1
<1> QED BY <1>2, <1>3, <1>4 DEF RoundInv

(* The history is a sequence of identifiers. *)
LEMMA IdsInRange ==
  ASSUME IdTypes
  PROVE  Len(issued) \in Nat /\ \A m \in 1..Len(issued) : issued[m] \in 1..MaxId
<1>1. issued \in Seq(1..MaxId)
  BY DEF IdTypes
<1>2. MaxId \in Nat
  BY IdAssumption
<1>3. Len(issued) \in Nat
  BY <1>1
<1>4. \A m \in 1..Len(issued) : issued[m] \in 1..MaxId
  BY <1>1, <1>2, <1>3
<1> QED BY <1>3, <1>4

(* Any MaxId consecutive requests get MaxId different identifiers, however *)
(* the tasks race: responses and requests under way can be told apart.     *)
THEOREM IdsDistinct == IdsSpec => []DistinctInARound
<1>1. IdsInit => RoundInv
  BY DEF IdsInit, RoundInv
<1>2. IdTypes /\ RoundInv /\ [IdsNext]_idVars => RoundInv'
  <2> SUFFICES ASSUME IdTypes, RoundInv, [IdsNext]_idVars PROVE RoundInv'
    OBVIOUS
  <2>1. ASSUME NEW t \in Callers, ReadCounter(t) PROVE RoundInv'
    BY <2>1 DEF ReadCounter, RoundInv, Apart
  <2>2. ASSUME NEW t \in Callers, Exchange(t) PROVE RoundInv'
    BY <2>2, ExchangeKeepsRound
  <2>3. ASSUME NEW t \in Callers, ExchangeFails(t) PROVE RoundInv'
    BY <2>3 DEF ExchangeFails, RoundInv, Apart
  <2>4. CASE UNCHANGED idVars
    BY <2>4 DEF idVars, RoundInv, Apart
  <2> QED BY <2>1, <2>2, <2>3, <2>4 DEF IdsNext
<1>3. IdTypes /\ RoundInv => DistinctInARound
  <2> SUFFICES ASSUME IdTypes, RoundInv,
                      NEW i \in 1..Len(issued), NEW j \in 1..Len(issued),
                      i < j, issued[i] = issued[j], ~(j >= i + MaxId)
               PROVE  FALSE
    BY DEF DistinctInARound
  <2>1. Len(issued) \in Nat /\ issued[i] \in 1..MaxId /\ issued[j] \in 1..MaxId
    BY IdsInRange
  <2>2. i \in Nat /\ j \in Nat /\ j < i + MaxId
    BY <2>1, IdAssumption
  <2>3. Apart(issued[i], issued[j], j - i)
    BY <2>2 DEF RoundInv
  <2> QED BY <2>1, <2>2, <2>3, IdAssumption DEF Apart
<1> QED BY <1>1, <1>2, <1>3, TypeCorrect, PTL DEF IdsSpec

=============================================================================
