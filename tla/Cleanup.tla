-------------------------------- MODULE Cleanup --------------------------------
(***************************************************************************)
(* The state of one Session that the API workers and the reaper share, the *)
(* provider that holds its volume and its server, and the cleanup both run *)
(* under the cleanup lease: revoke the credentials, claim the lease, list, *)
(* delete the servers, list again, delete the volumes, settle the Session, *)
(* release the lease.  ProvisioningWorkflow._cleanup_resources and         *)
(* Reaper._cleanup_resources are the same procedure over the resources of  *)
(* one Session and one owner.                                              *)
(*                                                                         *)
(* A process is an API worker or a reaper.  pc[p] is its next step, job[p] *)
(* the call it is making, which decides how the cleanup settles:           *)
(*   prepare               the body of prepare                             *)
(*   finish, refinish      _finish_cancelled_provisioning, called from the *)
(*                         body of prepare and from its except clauses     *)
(*   failing               the except clause that fails the Session        *)
(*   stop                  ProvisioningWorkflow.stop                       *)
(*   issue                 issue_ingest_credential                         *)
(*   sweepStop, sweepFail  the reaper stopping or failing the Session      *)
(*   orphanSrv, orphanVol  the reaper deleting an orphan                   *)
(* Everything a process touches outside itself is one step: a method of    *)
(* the store, of the credential store, or the effect of a provider call.   *)
(***************************************************************************)
EXTENDS SessionStore, FiniteSets

CONSTANTS
  Workers,    \* threads of the Control API that run prepare and stop
  Reapers,    \* concurrent runs of reaper_cli.py
  MaxFaults   \* bound on crashes, stalls and failing calls in one behaviour

Procs == Workers \cup Reapers

ASSUME ProcsAssumption == "none" \notin Procs /\ Workers \cap Reapers = {}
ASSUME MaxFaultsAssumption == MaxFaults \in Nat

VARIABLES
  sess,    \* the Session record
  lease,   \* its cleanup lease
  vols,    \* managed volumes the provider lists for the Session
  srvs,    \* managed servers the provider lists for the Session
  dying,   \* servers whose deletion was accepted and that are still listed
  creds,   \* the Session has an active ingest credential
  pc, job, \* next step and current call of each process
  myop,    \* operation id a worker claimed with
  ok,      \* result of the cleanup so far
  todo,    \* resources of the snapshot the cleanup is working through
  nextOp,  \* number of operation ids claimed
  faults   \* faults so far

store    == <<sess, lease>>
provider == <<vols, srvs, dying>>
local    == <<pc, job, myop, ok, todo>>
vars     == <<sess, lease, vols, srvs, dying, creds, pc, job, myop, ok, todo, nextOp, faults>>

Jobs == {"none", "prepare", "finish", "refinish", "failing", "stop", "issue",
         "sweepStop", "sweepFail", "orphanSrv", "orphanVol"}

CleanupSteps == {"revoke", "revokeOnly", "revokeDrop", "drop", "lease", "list",
                 "delSrv", "srvCall", "relist", "delVol", "volCall",
                 "settle", "settleStop", "settleFail", "release", "releaseRaise"}

PrepareSteps == {"claim", "findVol", "createVol", "ckVol", "findSrv", "createSrv",
                 "ckSrv", "ckBoot", "ckReady", "lost", "except", "fail", "finish"}

Steps == CleanupSteps \cup PrepareSteps
           \cup {"idle", "issue", "requestStop", "orphanClaim", "orphanList", "orphanCall"}

(* A provider delete is in flight. *)
DeleteCalls == {"srvCall", "volCall", "orphanCall"}

(* The process is between claiming a lease and releasing it. *)
HoldingSteps == {"list", "delSrv", "srvCall", "relist", "delVol", "volCall", "settle",
                 "settleStop", "settleFail", "release", "releaseRaise",
                 "orphanList", "orphanCall"}

Goto(p, step) == pc' = [pc EXCEPT ![p] = step]

(* The call ends, with a result or with an exception that reaches its
   caller; the locals of the process are forgotten. *)
Done(p) ==
  /\ pc' = [pc EXCEPT ![p] = "idle"]
  /\ job' = [job EXCEPT ![p] = "none"]
  /\ myop' = [myop EXCEPT ![p] = NoOp]
  /\ ok' = [ok EXCEPT ![p] = TRUE]
  /\ todo' = [todo EXCEPT ![p] = {}]

NoFault == UNCHANGED faults

Fault == faults < MaxFaults /\ faults' = faults + 1

-----------------------------------------------------------------------------
(* Credentials are revoked before the lease is claimed.  A store error ends
   the call, except in the clause that fails a provisioning, which swallows
   it, and in the body of prepare, whose except clause takes it. *)

RevokeFailed(p) ==
  CASE job[p] = "failing" -> Goto(p, "lease") /\ UNCHANGED <<job, myop, ok, todo>>
    [] job[p] = "finish"  -> Goto(p, "except") /\ UNCHANGED <<job, myop, ok, todo>>
    [] OTHER              -> Done(p)

RevokeSession(p) ==
  /\ pc[p] \in {"revoke", "revokeOnly", "revokeDrop"}
  /\ \/ /\ creds' = FALSE
        /\ NoFault
        /\ \/ pc[p] = "revoke" /\ Goto(p, "lease") /\ UNCHANGED <<job, myop, ok, todo>>
           \/ pc[p] = "revokeDrop" /\ Goto(p, "drop") /\ UNCHANGED <<job, myop, ok, todo>>
           \/ pc[p] = "revokeOnly" /\ Done(p)
     \/ Fault /\ UNCHANGED creds /\ RevokeFailed(p)
  /\ UNCHANGED <<store, provider, nextOp>>

-----------------------------------------------------------------------------
(* The lease and the two passes over the provider's list. *)

ClaimSessionCleanup(p) ==
  /\ pc[p] = "lease"
  /\ \/ /\ CanClaimSessionCleanup(sess, lease)
        /\ lease' = NewLease(p, "session")
        /\ Goto(p, "list")
        /\ UNCHANGED <<job, myop, ok, todo>>
     \/ /\ ~CanClaimSessionCleanup(sess, lease)
        /\ UNCHANGED lease
        /\ Done(p)
  /\ UNCHANGED <<sess, provider, creds, nextOp, faults>>

(* list_managed_resources raises: the finally clause still releases. *)
ListRaises(p) == Fault /\ Goto(p, "releaseRaise") /\ UNCHANGED <<job, myop, ok, todo>>

ListServers(p) ==
  /\ pc[p] = "list"
  /\ \/ /\ todo' = [todo EXCEPT ![p] = srvs]
        /\ ok' = [ok EXCEPT ![p] = TRUE]
        /\ Goto(p, "delSrv")
        /\ UNCHANGED <<job, myop>>
        /\ NoFault
     \/ ListRaises(p)
  /\ UNCHANGED <<store, provider, creds, nextOp>>

(* A bug: the delete is sent without asking whether the lease is still held. *)
StillOwnedUnchecked(p) == TRUE

StillOwned(p) == SessionCleanupStillOwned(sess, lease, p)

(* The loop over the snapshot: the next delete is sent only while the lease
   is still owned. *)
NextDelete(p, loop, call, after) ==
  /\ pc[p] = loop
  /\ \/ todo[p] # {} /\ StillOwned(p) /\ Goto(p, call) /\ UNCHANGED <<ok, todo>>
     \/ /\ todo[p] # {} /\ ~StillOwned(p)
        /\ ok' = [ok EXCEPT ![p] = FALSE]
        /\ todo' = [todo EXCEPT ![p] = {}]
        /\ Goto(p, "settle")
     \/ /\ todo[p] = {}
        /\ Goto(p, IF ok[p] THEN after ELSE "settle")
        /\ UNCHANGED <<ok, todo>>
  /\ UNCHANGED <<store, provider, creds, job, myop, nextOp, faults>>

(* delete_server(r).  The provider answers an error for a server it does not
   know; it may accept the delete and list the server a while longer; a call
   that fails may have taken effect. *)
DeleteServer(r, good) ==
  \/ r \notin srvs /\ ~good /\ UNCHANGED <<srvs, dying>> /\ NoFault
  \/ r \in srvs /\ good /\ srvs' = srvs \ {r} /\ dying' = dying \ {r} /\ NoFault
  \/ r \in srvs /\ good /\ dying' = dying \cup {r} /\ UNCHANGED srvs /\ NoFault
  \/ r \in srvs /\ ~good /\ UNCHANGED <<srvs, dying>> /\ Fault
  \/ r \in srvs /\ ~good /\ srvs' = srvs \ {r} /\ dying' = dying \ {r} /\ Fault

(* delete_volume(r), refused while a server of the Session holds it. *)
DeleteVolume(r, good) ==
  \/ (r \notin vols \/ srvs # {}) /\ ~good /\ UNCHANGED vols /\ NoFault
  \/ r \in vols /\ srvs = {} /\ good /\ vols' = vols \ {r} /\ NoFault
  \/ r \in vols /\ srvs = {} /\ ~good /\ vols' \in {vols, vols \ {r}} /\ Fault

ServerCall(p) ==
  /\ pc[p] = "srvCall"
  /\ \E r \in todo[p], good \in BOOLEAN :
       /\ DeleteServer(r, good)
       /\ todo' = [todo EXCEPT ![p] = @ \ {r}]
       /\ ok' = [ok EXCEPT ![p] = @ /\ good]
  /\ Goto(p, "delSrv")
  /\ UNCHANGED <<store, vols, creds, job, myop, nextOp>>

(* The second list: a server that is still there defers the volumes. *)
RelistVolumes(p) ==
  /\ pc[p] = "relist"
  /\ \/ /\ srvs # {}
        /\ ok' = [ok EXCEPT ![p] = FALSE]
        /\ Goto(p, "settle")
        /\ UNCHANGED <<job, myop, todo>>
        /\ NoFault
     \/ /\ srvs = {}
        /\ todo' = [todo EXCEPT ![p] = vols]
        /\ Goto(p, "delVol")
        /\ UNCHANGED <<job, myop, ok>>
        /\ NoFault
     \/ ListRaises(p)
  /\ UNCHANGED <<store, provider, creds, nextOp>>

VolumeCall(p) ==
  /\ pc[p] = "volCall"
  /\ \E r \in todo[p], good \in BOOLEAN :
       /\ DeleteVolume(r, good)
       /\ todo' = [todo EXCEPT ![p] = @ \ {r}]
       /\ ok' = [ok EXCEPT ![p] = @ /\ good]
  /\ Goto(p, "delVol")
  /\ UNCHANGED <<store, srvs, dying, creds, job, myop, nextOp>>

-----------------------------------------------------------------------------
(* Settling: what the caller of _cleanup_resources does with its result.
   transition(...) raises InvalidTransition when the status it allows from
   is gone; the finally clause releases the lease either way. *)

(* A bug: the Session is finished whatever the cleanup reported. *)
SettleStoppingRegardless(p, s) ==
  \/ /\ sess.status = "STOPPING"
     /\ sess' = MarkFinished(sess)
     /\ Goto(p, "release")
  \/ /\ sess.status # "STOPPING"
     /\ UNCHANGED sess
     /\ Goto(p, "releaseRaise")

SettleStopping(p, s) ==
  \/ /\ sess.status = "STOPPING"
     /\ sess' = IF ok[p] THEN MarkFinished(sess) ELSE s
     /\ Goto(p, "release")
  \/ /\ sess.status # "STOPPING"
     /\ UNCHANGED sess
     /\ Goto(p, "releaseRaise")

(* stop, and the reaper's _stop_and_cleanup *)
SettleStop(p) ==
  /\ pc[p] = "settle"
  /\ job[p] \in {"stop", "sweepStop"}
  /\ SettleStopping(p, DropOperation(MarkFailed(sess)))
  /\ UNCHANGED <<lease, provider, creds, job, myop, ok, todo, nextOp, faults>>

(* The reaper's _fail_and_cleanup and its FAILED_CLEANUP retries, and the
   except clause of prepare, which swallows InvalidTransition. *)
SettleFailing(p) ==
  /\ pc[p] = "settle"
  /\ job[p] \in {"failing", "sweepFail"}
  /\ \/ /\ ok[p] /\ sess.status = "FAILED_CLEANUP"
        /\ sess' = CloseFailed(sess)
        /\ Goto(p, "release")
     \/ /\ ok[p] /\ sess.status # "FAILED_CLEANUP"
        /\ UNCHANGED sess
        /\ Goto(p, "releaseRaise")
     \/ ~ok[p] /\ UNCHANGED sess /\ Goto(p, "release")
  /\ UNCHANGED <<lease, provider, creds, job, myop, ok, todo, nextOp, faults>>

(* _finish_cancelled_provisioning reads the Session again and decides by
   what it read ... *)
SettleCancelledGet(p) ==
  /\ pc[p] = "settle"
  /\ job[p] \in {"finish", "refinish"}
  /\ Goto(p, CASE sess.status = "STOPPING"       -> "settleStop"
               [] sess.status = "FAILED_CLEANUP" -> "settleFail"
               [] OTHER                          -> "release")
  /\ UNCHANGED <<store, provider, creds, job, myop, ok, todo, nextOp, faults>>

(* ... while the write that follows meets the Session as it is by then; the
   last of its writes is unconditional. *)
SettleCancelled(p) ==
  /\ \/ pc[p] = "settleStop" /\ SettleStopping(p, ClearCancel(DropOperation(MarkFailed(sess))))
     \/ /\ pc[p] = "settleFail" /\ ok[p] /\ sess.status = "FAILED_CLEANUP"
        /\ sess' = ClearCancel(DropOperation(CloseFailed(sess)))
        /\ Goto(p, "release")
     \/ /\ pc[p] = "settleFail" /\ ok[p] /\ sess.status # "FAILED_CLEANUP"
        /\ UNCHANGED sess
        /\ Goto(p, "releaseRaise")
     \/ /\ pc[p] = "settleFail" /\ ~ok[p]
        /\ sess' = ClearCancel(DropOperation([sess EXCEPT !.pending = TRUE]))
        /\ Goto(p, "release")
  /\ UNCHANGED <<lease, provider, creds, job, myop, ok, todo, nextOp, faults>>

(* The finally clause.  An exception inside the body of prepare goes to its
   except clause, every other one to the caller. *)
ReleaseSessionCleanup(p) ==
  /\ pc[p] \in {"release", "releaseRaise"}
  /\ lease' = ReleaseLease(lease, p)
  /\ \/ /\ pc[p] = "releaseRaise" /\ job[p] = "finish"
        /\ Goto(p, "except")
        /\ UNCHANGED <<job, myop, ok, todo>>
     \/ ~(pc[p] = "releaseRaise" /\ job[p] = "finish") /\ Done(p)
  /\ UNCHANGED <<sess, provider, creds, nextOp, faults>>

CleanupStep(p) ==
  \/ RevokeSession(p)
  \/ ClaimSessionCleanup(p)
  \/ ListServers(p)
  \/ NextDelete(p, "delSrv", "srvCall", "relist")
  \/ ServerCall(p)
  \/ RelistVolumes(p)
  \/ NextDelete(p, "delVol", "volCall", "settle")
  \/ VolumeCall(p)
  \/ SettleStop(p)
  \/ SettleFailing(p)
  \/ SettleCancelledGet(p)
  \/ SettleCancelled(p)
  \/ ReleaseSessionCleanup(p)
=============================================================================
