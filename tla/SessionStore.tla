------------------------------ MODULE SessionStore ------------------------------
(***************************************************************************)
(* One Session record and the cleanup lease kept beside it, as             *)
(* apps/control-api/session_store.py persists them.  Every method of the   *)
(* store runs under one exclusive file lock and rewrites the file before   *)
(* the lock is released, so each is one atomic function of the record:     *)
(* this module gives those functions, and the modules that extend it give  *)
(* the processes that call them.                                           *)
(*                                                                         *)
(* The record keeps the fields the lifecycle decisions read:               *)
(*   status      Session state                                             *)
(*   op          provisioning_operation_id, NoOp when it is None           *)
(*   inProgress  provisioning_in_progress                                  *)
(*   cancel      provisioning_cancel_requested                             *)
(*   pending     cleanup_pending                                           *)
(*   server      provider_server_id is recorded (a node can then bind)     *)
(*   overdue     provisioning_started_at is more than the provisioning     *)
(*               timeout ago                                               *)
(***************************************************************************)
EXTENDS Naturals

ACTIVE_STATES ==
  {"PROVISIONING", "BOOTSTRAPPING", "READY_WAIT_INGEST", "LIVE", "DEGRADED", "HOLDING"}

TERMINAL_STATES == {"STOPPED", "FINISHED", "FAILED"}

CLEANUP_STATES == {"STOPPING", "FAILED_CLEANUP"}

CAPACITY_STATES == ACTIVE_STATES \cup CLEANUP_STATES

SESSION_STATES == CAPACITY_STATES \cup TERMINAL_STATES

TRANSITIONS ==
  [s \in SESSION_STATES |->
     CASE s = "STOPPED"           -> {"PROVISIONING"}
       [] s = "PROVISIONING"      -> {"BOOTSTRAPPING"} \cup CLEANUP_STATES
       [] s = "BOOTSTRAPPING"     -> {"READY_WAIT_INGEST"} \cup CLEANUP_STATES
       [] s = "READY_WAIT_INGEST" -> {"LIVE", "DEGRADED"} \cup CLEANUP_STATES
       [] s = "LIVE"              -> {"DEGRADED", "HOLDING"} \cup CLEANUP_STATES
       [] s = "DEGRADED"          -> {"LIVE", "HOLDING"} \cup CLEANUP_STATES
       [] s = "HOLDING"           -> {"LIVE", "DEGRADED"} \cup CLEANUP_STATES
       [] s = "STOPPING"          -> {"FINISHED", "FAILED_CLEANUP"}
       [] s = "FAILED_CLEANUP"    -> {"FAILED", "STOPPING"}
       [] OTHER                   -> {}]

(* Operation ids are fresh UUIDs in the code, positive numbers here. *)
NoOp == 0

Session ==
  [status: SESSION_STATES, op: Nat, inProgress: BOOLEAN, cancel: BOOLEAN,
   pending: BOOLEAN, server: BOOLEAN, overdue: BOOLEAN]

NewSession ==
  [status |-> "STOPPED", op |-> NoOp, inProgress |-> FALSE, cancel |-> FALSE,
   pending |-> FALSE, server |-> FALSE, overdue |-> FALSE]

-----------------------------------------------------------------------------
(* Provisioning: claim_provisioning and provisioning_checkpoint. *)

ClaimableStatus(s) == s.status \in {"STOPPED", "PROVISIONING", "BOOTSTRAPPING"}

(* A bug: the claim does not look at the operation that holds the Session. *)
AlreadyProvisioningIgnored(s) == FALSE

(* ProvisioningInProgress: another operation holds the Session. *)
AlreadyProvisioning(s) == s.op # NoOp

ClaimProvisioning(s, op) ==
  [s EXCEPT !.status = "PROVISIONING", !.op = op, !.inProgress = TRUE,
            !.cancel = FALSE, !.pending = FALSE, !.overdue = FALSE]

(* What both provisioning_checkpoint and the workflow take for a cancelled
   provisioning. *)
Cancelled(s) ==
  s.cancel \/ s.status \in {"STOPPING", "FAILED_CLEANUP", "FINISHED", "FAILED"}

(* The status a checkpoint with next_state leaves behind; the caller has
   ruled out a cancelled Session and a transition the table forbids. *)
Advance(s, next) == [s EXCEPT !.status = next]

(* complete=True: the operation ends. *)
Complete(s) == [s EXCEPT !.op = NoOp, !.inProgress = FALSE, !.cancel = FALSE]

-----------------------------------------------------------------------------
(* Stopping and failing: request_stop, request_stop_if_current, transition. *)

RequestStop(s) == [s EXCEPT !.status = "STOPPING", !.cancel = TRUE, !.pending = TRUE]

(* transition(FAILED_CLEANUP, cleanup_pending=True) that leaves the
   provisioning operation in place. *)
MarkFailed(s) == [s EXCEPT !.status = "FAILED_CLEANUP", !.pending = TRUE]

(* provisioning_in_progress=False, provisioning_operation_id=None *)
DropOperation(s) == [s EXCEPT !.op = NoOp, !.inProgress = FALSE]

ClearCancel(s) == [s EXCEPT !.cancel = FALSE]

MarkFinished(s) ==
  ClearCancel(DropOperation([s EXCEPT !.status = "FINISHED", !.pending = FALSE]))

(* FAILED_CLEANUP -> FAILED *)
CloseFailed(s) == [s EXCEPT !.status = "FAILED", !.pending = FALSE]

-----------------------------------------------------------------------------
(* The cleanup lease of the Session: one slot, shared by the orphan scope
   (a tombstone on a terminal Session) and the session scope (cleanup of a
   Session that is STOPPING or FAILED_CLEANUP).  A holder names its lease by
   a fresh lease_id; it holds one lease at a time, so the holder stands for
   the id.  live is FALSE once expires_at has passed. *)

NoLease == [holder |-> "none", scope |-> "none", live |-> FALSE]

NewLease(p, scope) == [holder |-> p, scope |-> scope, live |-> TRUE]

LeaseActive(l) == l.live

CanClaimSessionCleanup(s, l) == s.status \in CLEANUP_STATES /\ ~LeaseActive(l)

SessionCleanupStillOwned(s, l, p) ==
  LeaseActive(l) /\ l.holder = p /\ l.scope = "session" /\ s.status \in CLEANUP_STATES

CanClaimOrphanCleanup(s, l) == s.status \in TERMINAL_STATES /\ ~LeaseActive(l)

OrphanCleanupStillOwned(s, l, p) ==
  LeaseActive(l) /\ l.holder = p /\ l.scope = "orphan" /\ s.status \in TERMINAL_STATES

(* release_session_cleanup and release_orphan_cleanup: only the holder's own
   lease is removed, expired or not. *)
ReleaseLease(l, p) == IF l.holder = p THEN NoLease ELSE l
=============================================================================
