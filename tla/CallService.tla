----------------------------- MODULE CallService -----------------------------
(***************************************************************************)
(* What a task that answers calls promises to its callers, whatever it     *)
(* does inside: a call is answered once, by success or failure; a caller   *)
(* may give up; and when the task ends every caller that waits is told,    *)
(* later calls fail, and nothing succeeds any more.                        *)
(*                                                                         *)
(* The crate has two: the HCI event loop (Hci::call) and the AVRCP session *)
(* (AvrcpSession's methods).  Both hand a oneshot sender through a channel *)
(* and rely on its being dropped when the task ends.                       *)
(***************************************************************************)
CONSTANT Calls

VARIABLES
  outcome,  (* what each call has come to       *)
  closed    (* whether the service has ended    *)

vars == <<outcome, closed>>

Outcomes == {"new", "pending", "succeeded", "failed", "abandoned"}

Init ==
  /\ outcome = [c \in Calls |-> "new"]
  /\ closed = FALSE

Ask(c) ==
  /\ outcome[c] = "new"
  /\ outcome' = [outcome EXCEPT ![c] = IF closed THEN "failed" ELSE "pending"]
  /\ UNCHANGED closed

Answer(c) ==
  /\ outcome[c] = "pending"
  /\ ~closed
  /\ \E o \in {"succeeded", "failed"} : outcome' = [outcome EXCEPT ![c] = o]
  /\ UNCHANGED closed

Abandon(c) ==
  /\ outcome[c] = "pending"
  /\ outcome' = [outcome EXCEPT ![c] = "abandoned"]
  /\ UNCHANGED closed

Close ==
  /\ ~closed
  /\ closed' = TRUE
  /\ outcome' = [c \in Calls |-> IF outcome[c] = "pending" THEN "failed" ELSE outcome[c]]

Next == Close \/ \E c \in Calls : Ask(c) \/ Answer(c) \/ Abandon(c)

Spec == Init /\ [][Next]_vars

=============================================================================
