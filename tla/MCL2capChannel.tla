--------------------------- MODULE MCL2capChannel ---------------------------
(* Instances of L2capChannel for TLC: two hosts, a and b. *)
EXTENDS L2capChannel, TLC

CONSTANTS a, b, k, l

(* Every connection is opened from a. *)
MCOpener == [c \in Connections |-> a]

(* Both tables are empty, so both ends get the same channel id. *)
MCSameCids == [s \in Hosts |-> {64}]

(* b has a channel with id 64 already. *)
MCOtherCids == a :> {64} @@ b :> {65}

(* The same with two ids: 65 is one of each host's. *)
MCOverlappingCids == a :> {64, 65} @@ b :> {65, 66}

MCTwoWrites == [e \in Ends |-> 2]

(* Only connection l carries data, from a to b; a may close the other *)
(* connection, and b may close l.                                      *)
MCFromA == [e \in Ends |-> IF e = <<l, a>> THEN 1 ELSE 0]
MCQuitters == {<<k, a>>, <<l, b>>}

=============================================================================
