---------------------------- MODULE SessionContract ----------------------------
(***************************************************************************)
(* What the Session authority promises about one Session, without workers, *)
(* reapers, leases or provider calls: a Session runs once, an ending is    *)
(* never taken back, and a provider resource of the Session is being       *)
(* deleted by at most one process and never while the Session runs.        *)
(***************************************************************************)
CONSTANT Procs

VARIABLES
  phase,      \* "new", "running", "ending" or "over"
  destroyer   \* the process with a provider delete in flight, or "none"

Init == phase = "new" /\ destroyer = "none"

(* prepare claims the Session: no delete may be in flight then. *)
Start == phase = "new" /\ destroyer = "none" /\ phase' = "running" /\ UNCHANGED destroyer

(* A stop request, a deadline or a failure. *)
End == phase = "running" /\ phase' = "ending" /\ UNCHANGED destroyer

Close == phase = "ending" /\ phase' = "over" /\ UNCHANGED destroyer

BeginDelete(p) ==
  phase # "running" /\ destroyer = "none" /\ destroyer' = p /\ UNCHANGED phase

EndDelete == destroyer # "none" /\ destroyer' = "none" /\ UNCHANGED phase

Next == Start \/ End \/ Close \/ EndDelete \/ \E p \in Procs : BeginDelete(p)

Spec == Init /\ [][Next]_<<phase, destroyer>>
=============================================================================
