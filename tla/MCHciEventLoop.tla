--------------------------- MODULE MCHciEventLoop ---------------------------
(* Instances of HciEventLoop small enough for TLC. *)
EXTENDS HciEventLoop, TLC

CONSTANTS c1, c2, c3, s1, s2, h1, h2, p1, p2, p3, p4, p5, p6

(* Two calls share an opcode; shutdowns send the reset opcode. *)
MCOpcode == c1 :> "read" @@ c2 :> "read" @@ c3 :> "write" @@ s1 :> "reset" @@ s2 :> "reset"

(* One packet on a connection of its own: a list of both connections gives *)
(* credits away or keeps them back, by the order it is in.                 *)
MCHandle == [p \in Packets |-> IF p = p3 THEN 0 ELSE 2]

(* The first connections of a controller that counts them from one. *)
MCTwoHandles == [p \in Packets |-> IF p = p1 THEN 1 ELSE 2]

=============================================================================
