---------------------------- MODULE SessionLifecycle ----------------------------
(***************************************************************************)
(* The life of one Session: API workers running prepare, stop and          *)
(* credential issue, reapers running their sweeps, the media node          *)
(* reporting, the clock, the provider finishing deletions, and crashes of  *)
(* any process between any two of its steps.                               *)
(***************************************************************************)
EXTENDS ProvisioningWorkflow, Reaper

CONSTANT Leftovers   \* resources tagged with the Session id before it starts

ASSUME LeftoversAssumption == Leftovers \subseteq {NoOp}

Init ==
  /\ sess = NewSession
  /\ lease = NoLease
  /\ vols = Leftovers
  /\ srvs = {}
  /\ dying = {}
  /\ creds = FALSE
  /\ pc = [p \in Procs |-> "idle"]
  /\ job = [p \in Procs |-> "none"]
  /\ myop = [p \in Procs |-> NoOp]
  /\ ok = [p \in Procs |-> TRUE]
  /\ todo = [p \in Procs |-> {}]
  /\ nextOp = 0
  /\ faults = 0

-----------------------------------------------------------------------------
(* The media node.  It can bind once the Session names its server. *)

(* The first heartbeat that reports a healthy media stack. *)
NodeReady ==
  /\ sess.status = "BOOTSTRAPPING"
  /\ sess.server
  /\ sess' = Advance(sess, "READY_WAIT_INGEST")
  /\ UNCHANGED <<lease, provider, creds, local, nextOp, faults>>

(* Ingest observations move a Session among the states that accept ingest. *)
IngestObservation ==
  /\ sess.status \in {"READY_WAIT_INGEST", "LIVE", "DEGRADED", "HOLDING"}
  /\ \E s \in TRANSITIONS[sess.status] \ CLEANUP_STATES : sess' = Advance(sess, s)
  /\ UNCHANGED <<lease, provider, creds, local, nextOp, faults>>

(* apply_pipeline_health latches a media failure. *)
PipelineFailure ==
  /\ sess.status \in ACTIVE_STATES
  /\ sess.server
  /\ sess' = MarkFailed(sess)
  /\ UNCHANGED <<lease, provider, creds, local, nextOp, faults>>

-----------------------------------------------------------------------------
(* The clock and the provider. *)

ProvisioningGrowsOld ==
  /\ sess.op # NoOp /\ ~sess.overdue
  /\ sess' = [sess EXCEPT !.overdue = TRUE]
  /\ UNCHANGED <<lease, provider, creds, local, nextOp, faults>>

(* expires_at passes.  A lease runs for 900 s and a provider call for at most
   30 s: the lease of a holder that crashed runs out, the lease of a holder
   that is at work runs out only when that holder stalls between two calls. *)
LeaseExpires ==
  /\ LeaseActive(lease)
  /\ pc[lease.holder] \notin HoldingSteps
  /\ lease' = [lease EXCEPT !.live = FALSE]
  /\ UNCHANGED <<sess, provider, creds, local, nextOp, faults>>

HolderStalls ==
  /\ LeaseActive(lease)
  /\ pc[lease.holder] \in HoldingSteps \ DeleteCalls
  /\ Fault
  /\ lease' = [lease EXCEPT !.live = FALSE]
  /\ UNCHANGED <<sess, provider, creds, local, nextOp>>

ServerVanishes ==
  /\ \E r \in dying : srvs' = srvs \ {r} /\ dying' = dying \ {r}
  /\ UNCHANGED <<store, vols, creds, local, nextOp, faults>>

(* A process dies between two steps.  What it had written stays. *)
Crash(p) ==
  /\ pc[p] # "idle"
  /\ Fault
  /\ Done(p)
  /\ UNCHANGED <<store, provider, creds, nextOp>>

-----------------------------------------------------------------------------
WorkerStep(p) == PrepareStep(p) \/ CleanupStep(p)

SweeperStep(p) == ReaperStep(p) \/ CleanupStep(p)

Next ==
  \/ \E p \in Workers : Request(p) \/ WorkerStep(p)
  \/ \E p \in Reapers : \/ ProvisioningTimeout(p)
                        \/ DeadlineStop(p)
                        \/ HeartbeatFailure(p)
                        \/ SweepStopping(p)
                        \/ SweepFailedCleanup(p)
                        \/ SweepOrphan(p)
                        \/ SweeperStep(p)
  \/ \E p \in Procs : Crash(p)
  \/ NodeReady
  \/ IngestObservation
  \/ PipelineFailure
  \/ ProvisioningGrowsOld
  \/ LeaseExpires
  \/ HolderStalls
  \/ ServerVanishes

Spec == Init /\ [][Next]_vars

(* Threads and sweeps that have begun go on; the timer starts a new sweep
   every five minutes and every sweep takes every look that applies, so a look
   that keeps being due is taken although the reaper is busy in between; time
   passes; the provider finishes the deletions it accepted.  Users, nodes and
   faults owe nothing. *)
Fairness ==
  /\ \A p \in Workers : WF_vars(WorkerStep(p))
  /\ \A p \in Reapers : /\ WF_vars(SweeperStep(p))
                         /\ SF_vars(ProvisioningTimeout(p))
                         /\ SF_vars(DeadlineStop(p))
                         /\ SF_vars(SweepStopping(p))
                         /\ SF_vars(SweepFailedCleanup(p))
                         /\ SF_vars(SweepOrphan(p))
  /\ WF_vars(ProvisioningGrowsOld)
  /\ WF_vars(LeaseExpires)
  /\ WF_vars(ServerVanishes)

FairSpec == Spec /\ Fairness

-----------------------------------------------------------------------------
LeaseType ==
  /\ lease \in [holder: Procs \cup {"none"}, scope: {"none", "session", "orphan"}, live: BOOLEAN]
  /\ lease.live => lease.holder \in Procs

ResourceType ==
  /\ vols \subseteq Nat
  /\ srvs \subseteq Nat
  /\ dying \subseteq srvs

LocalType ==
  /\ pc \in [Procs -> Steps]
  /\ job \in [Procs -> Jobs]
  /\ myop \in [Procs -> Nat]
  /\ ok \in [Procs -> BOOLEAN]
  /\ todo \in [Procs -> SUBSET Nat]

(* Types; the provider only waits for servers it lists, and a lease that has
   not expired names the process that claimed it. *)
TypeOK ==
  /\ sess \in Session
  /\ LeaseType
  /\ ResourceType
  /\ LocalType
  /\ creds \in BOOLEAN
  /\ nextOp \in Nat
  /\ faults \in 0 .. MaxFaults

(* The states no Session comes back from. *)
Ended == CLEANUP_STATES \cup {"FINISHED", "FAILED"}

(* A provider delete is in flight only under the sender's own unexpired lease;
   a session lease outlives only Sessions that are ending or over, an orphan
   lease keeps the Session terminal. *)
LeaseInv ==
  /\ \A p \in Procs : pc[p] \in DeleteCalls => lease.live /\ lease.holder = p
  /\ lease.live => \/ lease.scope = "session" /\ sess.status \in Ended
                   \/ lease.scope = "orphan" /\ sess.status \in TERMINAL_STATES

(* A Session in provisioning has an operation, and a process about to take
   the operation away does so from a Session that is ending or over. *)
OperationInv ==
  /\ sess.status \in {"PROVISIONING", "BOOTSTRAPPING"} => sess.op # NoOp
  /\ \A p \in Procs : pc[p] \in {"revokeDrop", "drop", "settleFail"} => sess.status \in Ended

CreateSteps == {"findVol", "createVol", "ckVol", "findSrv", "createSrv", "ckSrv"}

(* A Session is claimed once; the volume and the server are the claimer's, or
   the volume is the leftover it adopted. *)
ClaimInv ==
  /\ IF sess.status = "STOPPED" THEN nextOp = 0 ELSE nextOp = 1
  /\ \A p \in Procs : pc[p] \in CreateSteps => myop[p] = 1
  /\ srvs \subseteq {1}
  /\ vols \subseteq {1} \/ vols = {NoOp}
  /\ \A p \in Procs : pc[p] = "createVol" => NoOp \notin vols

(* The inductive invariant behind the safety properties below. *)
Inv == TypeOK /\ LeaseInv /\ OperationInv /\ ClaimInv

(* A provider delete, of a session cleanup or of an orphan, is never in flight
   while the Session is active: neither a prepare that claims the Session nor
   a lease that changes hands lets a cleaner hit a Session that runs. *)
NoDeleteWhileActive ==
  \A p \in Procs : pc[p] \in DeleteCalls => sess.status \notin ACTIVE_STATES

(* The one lease serialises every destructive call of API workers and
   reapers, also when leases expire and holders crash or stall. *)
OneDestroyer ==
  \A p, q \in Procs : pc[p] \in DeleteCalls /\ pc[q] \in DeleteCalls => p = q

(* "double prepare creates a single VPS": however many prepares, crashes,
   retries and leftovers, the provider never lists two servers or two volumes
   for the Session. *)
AtMostOneVps ==
  /\ \A r1, r2 \in srvs : r1 = r2
  /\ \A r1, r2 \in vols : r1 = r2

(* Every write of the status, also those that bypass transition() and its
   table (claim_provisioning, request_stop, heartbeats, allow_from), moves
   along the TRANSITIONS table; so nothing revives a Session that is ending. *)
StatusFollowsTable ==
  [][sess'.status # sess.status => sess'.status \in TRANSITIONS[sess.status]]_vars

(* A worker that has claimed the Session and may still create resources. *)
Creating(p) == pc[p] \in CreateSteps /\ myop[p] = sess.op

(* A process that has decided to clean up the Session and has not given its
   lease back. *)
Cleaning(q) ==
  \/ pc[q] \in {"revoke", "lease", "list", "delSrv", "srvCall", "relist", "delVol", "volCall",
                 "settle", "settleStop", "settleFail"}
  \/ pc[q] \in {"release", "releaseRaise"} /\ job[q] \notin {"orphanSrv", "orphanVol"}

(* With one prepare request, nobody cleans up, with a lease or after losing
   it, and no delete is in flight under a worker that is creating resources
   and still owns the operation: stop leaves the cleanup to that worker and
   the reaper takes the operation away first. *)
CleanupExcludesOwner ==
  \A p, q \in Procs : Creating(p) => ~Cleaning(q) /\ pc[q] # "orphanCall"

(* The run of one preparing worker; it may ask again when its call is over. *)
SinglePrepare == \A p, q \in Preparers : p = q

(* The calls of prepare are those of a preparing worker, a call that only
   revokes or waits is not its except clause, and an orphan is deleted under an
   orphan lease. *)
CallInv ==
  /\ \A p \in Procs : pc[p] \in PrepareSteps => p \in Preparers
  /\ \A p \in Procs : job[p] = "finish" => p \in Preparers
  /\ \A p \in Procs : pc[p] \in {"revokeOnly", "revokeDrop", "requestStop"} => job[p] # "failing"
  /\ \A p \in Procs : pc[p] \in {"orphanClaim", "orphanList", "orphanCall"} =>
                         job[p] \in {"orphanSrv", "orphanVol"}
  /\ \A p \in Procs : pc[p] = "orphanCall" => lease.scope = "orphan"

(* The Session of a worker that creates resources: only the provisioning
   timeout takes its operation away, and while it has it the Session is
   provisioning or waits in STOPPING, with nobody cleaning up. *)
OwnerInv ==
  /\ sess.status = "STOPPED" => ~sess.server /\ ~sess.overdue /\ sess.op = NoOp
  /\ \A p \in Procs : pc[p] \in {"revokeDrop", "drop"} => sess.overdue
  /\ \A p \in Procs : Cleaning(p) => sess.status \in Ended
  /\ \A p \in Procs : pc[p] \in CreateSteps => ~sess.server /\ (sess.op = 1 \/ sess.overdue)
  /\ \A p \in Procs : pc[p] \in CreateSteps /\ sess.op = 1 =>
                         /\ sess.inProgress
                         /\ sess.status \in {"PROVISIONING", "STOPPING"}
                         /\ \A q \in Procs : ~Cleaning(q)

(* The inductive invariant behind CleanupExcludesOwner. *)
SingleInv == CallInv /\ OwnerInv

(* A Session that was claimed ends, by the user, a deadline or a failure,
   whatever crashes or fails on the way. *)
EndsEventually ==
  sess.status \in CAPACITY_STATES ~> sess.status \in {"FINISHED", "FAILED"}

(* Once a Session is over its server and volume disappear for good, those
   that a late worker created after the end too. *)
CleanEventually ==
  sess.status \in {"FINISHED", "FAILED"} ~> [](vols = {} /\ srvs = {})

-----------------------------------------------------------------------------
(* What documents and comments say and the code does not do. *)

(* docs/architecture/on-demand-media-node.md: a Session is not FINISHED before
   its cleanup is complete, here even when no timeout fired. *)
FinishedMeansClean ==
  sess.status = "FINISHED" /\ ~sess.overdue => vols = {} /\ srvs = {}

-----------------------------------------------------------------------------
(* The abstract Session that this system implements. *)

Phase ==
  CASE sess.status = "STOPPED"              -> "new"
    [] sess.status \in ACTIVE_STATES        -> "running"
    [] sess.status \in CLEANUP_STATES       -> "ending"
    [] sess.status \in {"FINISHED", "FAILED"} -> "over"

Destroyer ==
  IF \E p \in Procs : pc[p] \in DeleteCalls
    THEN CHOOSE p \in Procs : pc[p] \in DeleteCalls
    ELSE "none"

Contract == INSTANCE SessionContract WITH phase <- Phase, destroyer <- Destroyer

(* The Session runs at most once, its ending is final, and deletes are
   exclusive and never overlap with its running: SessionContract. *)
ImplementsContract == Contract!Spec
=============================================================================
