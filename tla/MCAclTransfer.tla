---------------------------- MODULE MCAclTransfer ----------------------------
(* Instances of AclTransfer for TLC: two tasks, chunks of two units. *)
EXTENDS AclTransfer, TLC

CONSTANTS t1, t2, h1, h2, p1, p2, p3, p4

MCPdus == t1 :> <<p1, p2>> @@ t2 :> <<p3, p4>>

(* p1 and p2 have the same length, two chunks; p3 has a short last chunk. *)
MCSize == p1 :> 4 @@ p2 :> 4 @@ p3 :> 5 @@ p4 :> 1

MCOwnHandles == t1 :> h1 @@ t2 :> h2
MCSharedHandle == [t \in Tasks |-> h1]

=============================================================================
