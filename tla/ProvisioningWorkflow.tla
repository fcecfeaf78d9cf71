-------------------------- MODULE ProvisioningWorkflow --------------------------
(***************************************************************************)
(* apps/control-api/session_workflow.py: prepare and stop, as the threads  *)
(* of the Control API run them, and the credential issue of ingest_api.py  *)
(* that races with stop.  prepare claims the Session for one operation,    *)
(* finds or creates the volume and the server, and records each in a       *)
(* checkpoint that fails once the operation has been taken away.           *)
(***************************************************************************)
EXTENDS Cleanup

CONSTANTS
  Handshake,  \* prod: a node must report ready before the Session is
  Preparers   \* the workers that are asked to prepare the Session

ASSUME HandshakeAssumption == Handshake \in BOOLEAN
ASSUME PreparersAssumption == Preparers \subseteq Workers

Begin(p, call, step) ==
  /\ pc[p] = "idle"
  /\ job' = [job EXCEPT ![p] = call]
  /\ Goto(p, step)

(* An exception other than ProvisioningInProgress in the body of prepare. *)
Raise(p) == Goto(p, "except") /\ UNCHANGED <<job, myop, ok, todo>>

Continue(p, step) == Goto(p, step) /\ UNCHANGED <<job, myop, ok, todo>>

Finish(p, call) ==
  Goto(p, "finish") /\ job' = [job EXCEPT ![p] = call] /\ UNCHANGED <<myop, ok, todo>>

-----------------------------------------------------------------------------
(* prepare *)

(* The Session is read first: a running one is returned as it is, one that
   is ending or over is refused. *)
PrepareBegin(p) ==
  /\ ClaimableStatus(sess)
  /\ Begin(p, "prepare", "claim")
  /\ UNCHANGED <<store, provider, creds, myop, ok, todo, nextOp, faults>>

(* A bug: prepare claims the Session although a cleanup holds its lease. *)
CleanupHoldsIgnored == FALSE

(* OrphanCleanupInProgress: a cleaner may have deletes in flight. *)
CleanupHolds == LeaseActive(lease)

ClaimSession(p) ==
  /\ pc[p] = "claim"
  /\ \/ /\ CleanupHolds \/ ~ClaimableStatus(sess)
        /\ Raise(p)
        /\ UNCHANGED <<sess, nextOp, faults>>
     \/ /\ ~CleanupHolds /\ ClaimableStatus(sess) /\ AlreadyProvisioning(sess)
        /\ Done(p)
        /\ UNCHANGED <<sess, nextOp, faults>>
     \/ /\ ~CleanupHolds /\ ClaimableStatus(sess) /\ ~AlreadyProvisioning(sess)
        /\ nextOp' = nextOp + 1
        /\ sess' = ClaimProvisioning(sess, nextOp')
        /\ myop' = [myop EXCEPT ![p] = nextOp']
        /\ Goto(p, "findVol")
        /\ UNCHANGED <<job, ok, todo, faults>>
     \/ Fault /\ Raise(p) /\ UNCHANGED <<sess, nextOp>>
  /\ UNCHANGED <<lease, provider, creds>>

(* _find_managed adopts a resource that is already tagged with the Session. *)
FindVolume(p) ==
  /\ pc[p] = "findVol"
  /\ \/ Continue(p, IF vols # {} THEN "ckVol" ELSE "createVol") /\ NoFault
     \/ Fault /\ Raise(p)
  /\ UNCHANGED <<store, provider, creds, nextOp>>

(* A create that fails may have taken effect. *)
CreateVolume(p) ==
  /\ pc[p] = "createVol"
  /\ \/ vols' = vols \cup {myop[p]} /\ Continue(p, "ckVol") /\ NoFault
     \/ vols' \in {vols, vols \cup {myop[p]}} /\ Fault /\ Raise(p)
  /\ UNCHANGED <<store, srvs, dying, creds, nextOp>>

(* ProvisioningInProgress: the operation id recorded is another one, or none. *)
OperationLost(p) == sess.op # myop[p]

CheckpointVolume(p) ==
  /\ pc[p] = "ckVol"
  /\ \/ OperationLost(p) /\ Continue(p, "lost")
     \/ ~OperationLost(p) /\ Cancelled(sess) /\ Finish(p, "finish")
     \/ ~OperationLost(p) /\ ~Cancelled(sess) /\ Continue(p, "findSrv")
  /\ UNCHANGED <<store, provider, creds, nextOp, faults>>

FindServer(p) ==
  /\ pc[p] = "findSrv"
  /\ \/ Continue(p, IF srvs # {} THEN "ckSrv" ELSE "createSrv") /\ NoFault
     \/ Fault /\ Raise(p)
  /\ UNCHANGED <<store, provider, creds, nextOp>>

(* The server boots from the volume, which must still exist. *)
CreateServer(p) ==
  /\ pc[p] = "createSrv"
  /\ \/ vols # {} /\ srvs' = srvs \cup {myop[p]} /\ Continue(p, "ckSrv") /\ NoFault
     \/ vols # {} /\ srvs' \in {srvs, srvs \cup {myop[p]}} /\ Fault /\ Raise(p)
     \/ vols = {} /\ UNCHANGED srvs /\ Raise(p) /\ NoFault
  /\ UNCHANGED <<store, vols, dying, creds, nextOp>>

CheckpointServer(p) ==
  /\ pc[p] = "ckSrv"
  /\ \/ OperationLost(p) /\ Continue(p, "lost") /\ UNCHANGED sess
     \/ /\ ~OperationLost(p)
        /\ sess' = [sess EXCEPT !.server = TRUE]
        /\ IF Cancelled(sess) THEN Finish(p, "finish") ELSE Continue(p, "ckBoot")
  /\ UNCHANGED <<lease, provider, creds, nextOp, faults>>

(* A bug: a stop that came in since the last checkpoint is overlooked. *)
CheckpointBootstrappingUncancelled(p) ==
  /\ pc[p] = "ckBoot"
  /\ \/ OperationLost(p) /\ Continue(p, "lost") /\ UNCHANGED sess
     \/ /\ ~OperationLost(p)
        /\ sess' = Advance(sess, "BOOTSTRAPPING")
        /\ IF Handshake THEN Done(p) ELSE Continue(p, "ckReady")
  /\ UNCHANGED <<lease, provider, creds, nextOp, faults>>

(* next_state is refused when the table forbids it.  With the handshake the
   operation stays recorded, and in progress. *)
CheckpointBootstrapping(p) ==
  /\ pc[p] = "ckBoot"
  /\ \/ OperationLost(p) /\ Continue(p, "lost") /\ UNCHANGED sess
     \/ ~OperationLost(p) /\ Cancelled(sess) /\ Finish(p, "finish") /\ UNCHANGED sess
     \/ /\ ~OperationLost(p) /\ ~Cancelled(sess)
        /\ "BOOTSTRAPPING" \in TRANSITIONS[sess.status]
        /\ sess' = Advance(sess, "BOOTSTRAPPING")
        /\ IF Handshake THEN Done(p) ELSE Continue(p, "ckReady")
     \/ /\ ~OperationLost(p) /\ ~Cancelled(sess)
        /\ "BOOTSTRAPPING" \notin TRANSITIONS[sess.status]
        /\ Raise(p)
        /\ UNCHANGED sess
  /\ UNCHANGED <<lease, provider, creds, nextOp, faults>>

(* The last checkpoint of a cancelled Session is returned as it is. *)
CheckpointReady(p) ==
  /\ pc[p] = "ckReady"
  /\ \/ OperationLost(p) /\ Continue(p, "lost") /\ UNCHANGED sess
     \/ ~OperationLost(p) /\ Cancelled(sess) /\ Done(p) /\ UNCHANGED sess
     \/ /\ ~OperationLost(p) /\ ~Cancelled(sess)
        /\ "READY_WAIT_INGEST" \in TRANSITIONS[sess.status]
        /\ sess' = Complete(Advance(sess, "READY_WAIT_INGEST"))
        /\ Done(p)
     \/ /\ ~OperationLost(p) /\ ~Cancelled(sess)
        /\ "READY_WAIT_INGEST" \notin TRANSITIONS[sess.status]
        /\ Raise(p)
        /\ UNCHANGED sess
  /\ UNCHANGED <<lease, provider, creds, nextOp, faults>>

-----------------------------------------------------------------------------
(* The except clauses of prepare *)

(* ProvisioningInProgress after the claim. *)
LostOperation(p) ==
  /\ pc[p] = "lost"
  /\ IF Cancelled(sess) THEN Finish(p, "refinish") ELSE Done(p)
  /\ UNCHANGED <<store, provider, creds, nextOp, faults>>

ProvisioningFailed(p) ==
  /\ pc[p] = "except"
  /\ \/ Cancelled(sess) /\ Finish(p, "refinish")
     \/ /\ ~Cancelled(sess)
        /\ Goto(p, "fail")
        /\ job' = [job EXCEPT ![p] = "failing"]
        /\ UNCHANGED <<myop, ok, todo>>
  /\ UNCHANGED <<store, provider, creds, nextOp, faults>>

FailProvisioning(p) ==
  /\ pc[p] = "fail"
  /\ \/ /\ sess.status \in {"PROVISIONING", "BOOTSTRAPPING"}
        /\ sess' = DropOperation(MarkFailed(sess))
        /\ Continue(p, "revoke")
     \/ /\ sess.status \notin {"PROVISIONING", "BOOTSTRAPPING"}
        /\ UNCHANGED sess
        /\ Done(p)
  /\ UNCHANGED <<lease, provider, creds, nextOp, faults>>

(* _finish_cancelled_provisioning *)
FinishCancelled(p) ==
  /\ pc[p] = "finish"
  /\ IF sess.status \in CLEANUP_STATES THEN Continue(p, "revoke") ELSE Done(p)
  /\ UNCHANGED <<store, provider, creds, nextOp, faults>>

-----------------------------------------------------------------------------
(* stop.  A Session that is over only has its credentials revoked; a stop
   that finds a provisioning in progress leaves the cleanup to it. *)

(* A bug: stop cleans up although a worker may still be creating. *)
StopSessionAtOnce(p) ==
  /\ \/ /\ sess.status \in TERMINAL_STATES
        /\ Begin(p, "stop", "revokeOnly")
        /\ UNCHANGED sess
     \/ /\ sess.status \notin TERMINAL_STATES
        /\ sess' = RequestStop(sess)
        /\ Begin(p, "stop", "revoke")
  /\ UNCHANGED <<lease, provider, creds, myop, ok, todo, nextOp, faults>>

StopSession(p) ==
  /\ \/ /\ sess.status \in TERMINAL_STATES
        /\ Begin(p, "stop", "revokeOnly")
        /\ UNCHANGED sess
     \/ /\ sess.status \notin TERMINAL_STATES
        /\ sess' = RequestStop(sess)
        /\ Begin(p, "stop", IF sess.inProgress THEN "revokeOnly" ELSE "revoke")
  /\ UNCHANGED <<lease, provider, creds, myop, ok, todo, nextOp, faults>>

(* issue_ingest_credential checks the Session and then writes to another
   store. *)
IssueCheck(p) ==
  /\ sess.status \in {"READY_WAIT_INGEST", "LIVE", "DEGRADED", "HOLDING"}
  /\ Begin(p, "issue", "issue")
  /\ UNCHANGED <<store, provider, creds, myop, ok, todo, nextOp, faults>>

IssueCredential(p) ==
  /\ pc[p] = "issue"
  /\ creds' = TRUE
  /\ Done(p)
  /\ UNCHANGED <<store, provider, nextOp, faults>>

Request(p) == (p \in Preparers /\ PrepareBegin(p)) \/ StopSession(p) \/ IssueCheck(p)

PrepareStep(p) ==
  \/ ClaimSession(p)
  \/ FindVolume(p)
  \/ CreateVolume(p)
  \/ CheckpointVolume(p)
  \/ FindServer(p)
  \/ CreateServer(p)
  \/ CheckpointServer(p)
  \/ CheckpointBootstrapping(p)
  \/ CheckpointReady(p)
  \/ LostOperation(p)
  \/ ProvisioningFailed(p)
  \/ FailProvisioning(p)
  \/ FinishCancelled(p)
  \/ IssueCredential(p)
=============================================================================
