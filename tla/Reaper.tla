--------------------------------- MODULE Reaper ---------------------------------
(***************************************************************************)
(* apps/control-api/reaper.py.  A sweep looks at the Session several       *)
(* times, each time with a fresh read: provisioning timeout, deadlines,    *)
(* missing heartbeat, Sessions left in STOPPING or FAILED_CLEANUP, and     *)
(* resources that belong to no running Session.  Here each look is a call  *)
(* of its own, in any order: a sweep that an exception cuts short, and two *)
(* sweeps that overlap, are then included.  A look that compares the       *)
(* fields it read inside the store lock is one step; one that does not     *)
(* keeps a step between what it read and what it does.                     *)
(***************************************************************************)
EXTENDS Cleanup

Sweep(p, call, step) ==
  /\ pc[p] = "idle"
  /\ job' = [job EXCEPT ![p] = call]
  /\ Goto(p, step)

(* A bug: a provisioning that never ends is waited for without end. *)
StopRevokePatient(s) == IF ~s.inProgress THEN "revoke" ELSE "revokeOnly"

(* What _stop_and_cleanup does about a provisioning that may still be
   running: it leaves it alone until the provisioning timeout and then takes
   its operation away.  s is the record request_stop returned. *)
StopRevoke(s) ==
  IF ~s.inProgress THEN "revoke" ELSE IF s.overdue THEN "revokeDrop" ELSE "revokeOnly"

(* A provisioning older than the timeout loses its operation and fails. *)
ProvisioningTimeout(p) ==
  /\ sess.status \in {"PROVISIONING", "BOOTSTRAPPING"}
  /\ sess.overdue
  /\ sess' = [DropOperation(MarkFailed(sess)) EXCEPT !.cancel = TRUE]
  /\ Sweep(p, "sweepFail", "revoke")
  /\ UNCHANGED <<lease, provider, creds, myop, ok, todo, nextOp, faults>>

(* The absolute deadline of any active Session, the no-ingest timeout of a
   ready one and the hold timeout of a holding one: request_stop_if_current. *)
DeadlineStop(p) ==
  /\ sess.status \in ACTIVE_STATES
  /\ sess' = RequestStop(sess)
  /\ Sweep(p, "sweepStop", StopRevoke(sess))
  /\ UNCHANGED <<lease, provider, creds, myop, ok, todo, nextOp, faults>>

(* A node that bound to the Session has gone silent.  The provisioning
   operation, if one is recorded, is left in place. *)
HeartbeatFailure(p) ==
  /\ sess.status \in ACTIVE_STATES
  /\ sess.server
  /\ sess' = MarkFailed(sess)
  /\ Sweep(p, "sweepFail", "revokeOnly")
  /\ UNCHANGED <<lease, provider, creds, myop, ok, todo, nextOp, faults>>

(* STOPPING was read; request_stop then takes the Session as it is. *)
SweepStopping(p) ==
  /\ sess.status = "STOPPING"
  /\ Sweep(p, "sweepStop", "requestStop")
  /\ UNCHANGED <<store, provider, creds, myop, ok, todo, nextOp, faults>>

SweepRequestStop(p) ==
  /\ pc[p] = "requestStop"
  /\ \/ sess.status \in TERMINAL_STATES /\ Done(p) /\ UNCHANGED sess
     \/ /\ sess.status \notin TERMINAL_STATES
        /\ sess' = RequestStop(sess)
        /\ Goto(p, StopRevoke(sess))
        /\ UNCHANGED <<job, myop, ok, todo>>
  /\ UNCHANGED <<lease, provider, creds, nextOp, faults>>

(* The operation of an overdue provisioning is taken away. *)
DropOverdueOperation(p) ==
  /\ pc[p] = "drop"
  /\ sess' = DropOperation(sess)
  /\ Goto(p, "lease")
  /\ UNCHANGED <<lease, provider, creds, job, myop, ok, todo, nextOp, faults>>

SweepFailedCleanup(p) ==
  /\ sess.status = "FAILED_CLEANUP"
  /\ Sweep(p, "sweepFail", "revoke")
  /\ UNCHANGED <<store, provider, creds, myop, ok, todo, nextOp, faults>>

-----------------------------------------------------------------------------
(* Orphans: a resource whose Session is over and that is older than the
   grace period (or past its delete-after tag; the age of a resource is left
   to choice). *)

SweepOrphan(p) ==
  /\ sess.status \in TERMINAL_STATES
  /\ \/ \E r \in srvs : /\ todo' = [todo EXCEPT ![p] = {r}]
                        /\ Sweep(p, "orphanSrv", "orphanClaim")
     \/ \E r \in vols : /\ todo' = [todo EXCEPT ![p] = {r}]
                        /\ Sweep(p, "orphanVol", "orphanClaim")
  /\ UNCHANGED <<store, provider, creds, myop, ok, nextOp, faults>>

(* A bug: the tombstone is taken whatever the Session has become since. *)
OrphanClaimAllowedAlways == ~LeaseActive(lease)

(* A bug: only a Session that never ran gives its resources up. *)
OrphanClaimOfStopped == sess.status = "STOPPED" /\ ~LeaseActive(lease)

OrphanClaimAllowed == CanClaimOrphanCleanup(sess, lease)

ClaimOrphanCleanup(p) ==
  /\ pc[p] = "orphanClaim"
  /\ \/ /\ OrphanClaimAllowed
        /\ lease' = NewLease(p, "orphan")
        /\ Goto(p, "orphanList")
        /\ UNCHANGED <<job, myop, ok, todo>>
     \/ ~OrphanClaimAllowed /\ UNCHANGED lease /\ Done(p)
  /\ UNCHANGED <<sess, provider, creds, nextOp, faults>>

(* The list is read again; a volume waits for the Session's last server. *)
OrphanConfirmed(p) ==
  /\ OrphanCleanupStillOwned(sess, lease, p)
  /\ job[p] = "orphanSrv" => todo[p] \subseteq srvs
  /\ job[p] = "orphanVol" => todo[p] \subseteq vols /\ srvs = {}

ConfirmOrphan(p) ==
  /\ pc[p] = "orphanList"
  /\ \/ OrphanConfirmed(p) /\ Goto(p, "orphanCall") /\ NoFault
     \/ ~OrphanConfirmed(p) /\ Goto(p, "release") /\ NoFault
     \/ Fault /\ Goto(p, "release")
  /\ UNCHANGED <<store, provider, creds, job, myop, ok, todo, nextOp>>

OrphanCall(p) ==
  /\ pc[p] = "orphanCall"
  /\ \E r \in todo[p], good \in BOOLEAN :
       \/ job[p] = "orphanSrv" /\ DeleteServer(r, good) /\ UNCHANGED vols
       \/ job[p] = "orphanVol" /\ DeleteVolume(r, good) /\ UNCHANGED <<srvs, dying>>
  /\ Goto(p, "release")
  /\ UNCHANGED <<store, creds, job, myop, ok, todo, nextOp>>

ReaperStep(p) ==
  \/ SweepRequestStop(p)
  \/ DropOverdueOperation(p)
  \/ ClaimOrphanCleanup(p)
  \/ ConfirmOrphan(p)
  \/ OrphanCall(p)
=============================================================================
