------------------------------ MODULE IdCounter ------------------------------
(***************************************************************************)
(* What SignalingIds promises: an atomic counter of identifiers 1..MaxId.  *)
(* Each request takes the next identifier in one step; after MaxId comes 1 *)
(* (0 is not an identifier, [Vol 3] Part A, Section 4).                    *)
(***************************************************************************)
EXTENDS Naturals, Sequences

CONSTANT MaxId

VARIABLES
  counter,  (* the next identifier                                          *)
  issued    (* the identifiers taken, in order                              *)

Succ(i) == IF i = MaxId THEN 1 ELSE i + 1

Init ==
  /\ counter = 1
  /\ issued = <<>>

Take ==
  /\ issued' = Append(issued, counter)
  /\ counter' = Succ(counter)

Spec == Init /\ [][Take]_<<counter, issued>>

=============================================================================
