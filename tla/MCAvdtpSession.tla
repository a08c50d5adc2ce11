--------------------------- MODULE MCAvdtpSession ---------------------------
(* An instance of AvdtpSession for TLC. *)
EXTENDS AvdtpSession, TLC

CONSTANTS h, c1, c2, c3, l1, e, f

MCConnectionOf == [c \in Channels |-> h]
Symmetry == Permutations({c1, c2, c3}) \cup Permutations({e, f})

=============================================================================
