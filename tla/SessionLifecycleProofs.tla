------------------------- MODULE SessionLifecycleProofs -------------------------
(***************************************************************************)
(* Proofs about SessionLifecycle and EvictedWorker, for any number of      *)
(* workers, of reapers and of faults.                                      *)
(***************************************************************************)
EXTENDS EvictedWorker, TLAPS

(* The steps of a process, and those of everything around the processes. *)
ProcStep(p) ==
  \/ CleanupStep(p) \/ PrepareStep(p) \/ Request(p) \/ ReaperStep(p) \/ Crash(p)
  \/ ProvisioningTimeout(p) \/ DeadlineStop(p) \/ HeartbeatFailure(p)
  \/ SweepStopping(p) \/ SweepFailedCleanup(p) \/ SweepOrphan(p)

NodeStep == NodeReady \/ IngestObservation \/ PipelineFailure \/ ProvisioningGrowsOld

LeaseStep == LeaseExpires \/ HolderStalls

-----------------------------------------------------------------------------
(* The operations of the store on the record. *)

(* Every operation of the store yields a Session record. *)
LEMMA StoreTypes ==
  ASSUME NEW s \in Session
  PROVE  /\ \A op \in Nat : ClaimProvisioning(s, op) \in Session
         /\ \A next \in SESSION_STATES : Advance(s, next) \in Session
         /\ Complete(s) \in Session
         /\ RequestStop(s) \in Session
         /\ MarkFailed(s) \in Session
         /\ DropOperation(s) \in Session
         /\ ClearCancel(s) \in Session
         /\ MarkFinished(s) \in Session
         /\ CloseFailed(s) \in Session
  <1> USE DEF Session, SESSION_STATES, CAPACITY_STATES, ACTIVE_STATES, CLEANUP_STATES,
              TERMINAL_STATES, NoOp
  <1>1. ASSUME NEW op \in Nat PROVE ClaimProvisioning(s, op) \in Session
    BY DEF ClaimProvisioning
  <1>2. ASSUME NEW next \in SESSION_STATES PROVE Advance(s, next) \in Session
    BY DEF Advance
  <1>3. Complete(s) \in Session
    BY DEF Complete
  <1>4. RequestStop(s) \in Session
    BY DEF RequestStop
  <1>5. MarkFailed(s) \in Session
    BY DEF MarkFailed
  <1>6. DropOperation(s) \in Session
    BY DEF DropOperation
  <1>7. ClearCancel(s) \in Session
    BY DEF ClearCancel
  <1>8. MarkFinished(s) \in Session
    BY DEF MarkFinished, ClearCancel, DropOperation
  <1>9. CloseFailed(s) \in Session
    BY DEF CloseFailed
  <1> QED
    BY <1>1, <1>2, <1>3, <1>4, <1>5, <1>6, <1>7, <1>8, <1>9

(* The status and the operation each of them leaves. *)
LEMMA StoreFields ==
  ASSUME NEW s \in Session
  PROVE  /\ \A op \in Nat : /\ ClaimProvisioning(s, op).status = "PROVISIONING"
                            /\ ClaimProvisioning(s, op).op = op
         /\ \A next \in SESSION_STATES : /\ Advance(s, next).status = next
                                         /\ Advance(s, next).op = s.op
         /\ Complete(s).status = s.status
         /\ RequestStop(s).status = "STOPPING" /\ RequestStop(s).op = s.op
         /\ MarkFailed(s).status = "FAILED_CLEANUP" /\ MarkFailed(s).op = s.op
         /\ DropOperation(s).status = s.status
         /\ ClearCancel(s).status = s.status
         /\ MarkFinished(s).status = "FINISHED"
         /\ CloseFailed(s).status = "FAILED"
  BY DEF Session, ClaimProvisioning, Advance, Complete, RequestStop, MarkFailed,
         DropOperation, ClearCancel, MarkFinished, CloseFailed

(* The table: what leads out of a running Session, and that an ending one
   only goes on to another ending state. *)
LEMMA TableFacts ==
  /\ \A s \in ACTIVE_STATES : CLEANUP_STATES \subseteq TRANSITIONS[s]
  /\ \A s \in ACTIVE_STATES : TRANSITIONS[s] \subseteq CAPACITY_STATES \ {"PROVISIONING"}
  /\ \A s \in {"READY_WAIT_INGEST", "LIVE", "DEGRADED", "HOLDING"} :
        "BOOTSTRAPPING" \notin TRANSITIONS[s]
  /\ TRANSITIONS["STOPPED"] = {"PROVISIONING"}
  /\ "READY_WAIT_INGEST" \in TRANSITIONS["BOOTSTRAPPING"]
  /\ TRANSITIONS["STOPPING"] = {"FINISHED", "FAILED_CLEANUP"}
  /\ TRANSITIONS["FAILED_CLEANUP"] = {"FAILED", "STOPPING"}
  BY DEF TRANSITIONS, SESSION_STATES, CAPACITY_STATES, ACTIVE_STATES, CLEANUP_STATES,
         TERMINAL_STATES

-----------------------------------------------------------------------------
(* Types *)

(* The initial state is well typed. *)
LEMMA TypeInit == Init => TypeOK
  <1> SUFFICES ASSUME Init PROVE TypeOK
    OBVIOUS
  <1> USE DEF NoOp, NoLease, Init
  <1>1. sess \in Session
    BY DEF Session, NewSession, SESSION_STATES, CAPACITY_STATES, TERMINAL_STATES
  <1>2. LeaseType
    BY DEF LeaseType
  <1>3. ResourceType
    BY LeftoversAssumption DEF ResourceType
  <1>4. pc \in [Procs -> Steps] /\ job \in [Procs -> Jobs]
    BY DEF Steps, Jobs
  <1>5. myop \in [Procs -> Nat] /\ todo \in [Procs -> SUBSET Nat]
    OBVIOUS
  <1>6. ok \in [Procs -> BOOLEAN]
    OBVIOUS
  <1>7. creds \in BOOLEAN
    OBVIOUS
  <1>8. nextOp \in Nat /\ faults \in 0 .. MaxFaults
    BY MaxFaultsAssumption
  <1> QED
    BY <1>1, <1>2, <1>3, <1>4, <1>5, <1>6, <1>7, <1>8 DEF TypeOK, LocalType

(* A step of a process keeps the locals of all processes well typed. *)
LEMMA LocalTypeStep ==
  ASSUME TypeOK, NEW p \in Procs, ProcStep(p)
  PROVE  LocalType'
  <1> USE DEF TypeOK, LocalType, ResourceType, Steps, CleanupSteps, PrepareSteps, Jobs, NoOp,
              Goto, Done, Begin, Sweep, Continue, Raise, Finish
  <1>1. CASE CleanupStep(p)
    <2> USE <1>1 DEF CleanupStep, RevokeSession, RevokeFailed, ClaimSessionCleanup,
             ListServers, ListRaises, NextDelete, ServerCall, RelistVolumes, VolumeCall,
             SettleStop, SettleStopping, SettleFailing, SettleCancelledGet, SettleCancelled,
             ReleaseSessionCleanup
    <2>1. (pc \in [Procs -> Steps])'
      OBVIOUS
    <2>2. (job \in [Procs -> Jobs] /\ myop \in [Procs -> Nat])'
      OBVIOUS
    <2>3. (ok \in [Procs -> BOOLEAN])'
      OBVIOUS
    <2>4. (todo \in [Procs -> SUBSET Nat])'
      OBVIOUS
    <2> QED
      BY <2>1, <2>2, <2>3, <2>4
  <1>2. CASE PrepareStep(p)
    <2> USE <1>2 DEF PrepareStep, ClaimSession, FindVolume, CreateVolume, CheckpointVolume,
             FindServer, CreateServer, CheckpointServer, CheckpointBootstrapping,
             CheckpointReady, LostOperation, ProvisioningFailed, FailProvisioning,
             FinishCancelled, IssueCredential
    <2>1. (pc \in [Procs -> Steps])'
      OBVIOUS
    <2>2. (job \in [Procs -> Jobs] /\ myop \in [Procs -> Nat])'
      OBVIOUS
    <2>3. (ok \in [Procs -> BOOLEAN])'
      OBVIOUS
    <2>4. (todo \in [Procs -> SUBSET Nat])'
      OBVIOUS
    <2> QED
      BY <2>1, <2>2, <2>3, <2>4
  <1>3. CASE Request(p) \/ Crash(p)
    <2> USE <1>3 DEF Request, PrepareBegin, StopSession, IssueCheck, Crash
    <2>1. (pc \in [Procs -> Steps] /\ job \in [Procs -> Jobs])'
      OBVIOUS
    <2>2. (myop \in [Procs -> Nat] /\ todo \in [Procs -> SUBSET Nat])'
      OBVIOUS
    <2>3. (ok \in [Procs -> BOOLEAN])'
      OBVIOUS
    <2> QED
      BY <2>1, <2>2, <2>3
  <1>4. CASE ReaperStep(p)
    <2> USE <1>4 DEF ReaperStep, SweepRequestStop, StopRevoke, DropOverdueOperation,
             ClaimOrphanCleanup, ConfirmOrphan, OrphanCall
    <2>1. (pc \in [Procs -> Steps] /\ job \in [Procs -> Jobs])'
      OBVIOUS
    <2>2. (myop \in [Procs -> Nat] /\ todo \in [Procs -> SUBSET Nat])'
      OBVIOUS
    <2>3. (ok \in [Procs -> BOOLEAN])'
      OBVIOUS
    <2> QED
      BY <2>1, <2>2, <2>3
  <1>5. CASE \/ ProvisioningTimeout(p) \/ DeadlineStop(p) \/ HeartbeatFailure(p)
             \/ SweepStopping(p) \/ SweepFailedCleanup(p) \/ SweepOrphan(p)
    <2> USE <1>5 DEF ProvisioningTimeout, DeadlineStop, StopRevoke, HeartbeatFailure,
             SweepStopping, SweepFailedCleanup, SweepOrphan
    <2>1. (pc \in [Procs -> Steps] /\ job \in [Procs -> Jobs])'
      OBVIOUS
    <2>2. (myop \in [Procs -> Nat] /\ todo \in [Procs -> SUBSET Nat])'
      OBVIOUS
    <2>3. (ok \in [Procs -> BOOLEAN])'
      OBVIOUS
    <2> QED
      BY <2>1, <2>2, <2>3
  <1> QED
    BY <1>1, <1>2, <1>3, <1>4, <1>5 DEF ProcStep

(* What the store writes to the lease slot is a lease. *)
LEMMA LeaseTypeKept ==
  ASSUME LeaseType, NEW p \in Procs,
         \/ lease' = lease
         \/ lease' = NewLease(p, "session")
         \/ lease' = NewLease(p, "orphan")
         \/ lease' = NoLease
  PROVE  LeaseType'
  <1>1. CASE lease' = lease
    BY <1>1 DEF LeaseType
  <1>2. ASSUME NEW scope \in {"session", "orphan"}, lease' = NewLease(p, scope)
        PROVE  LeaseType'
    <2>1. lease' = [holder |-> p, scope |-> scope, live |-> TRUE]
      BY <1>2 DEF NewLease
    <2>2. lease'.holder \in Procs
      BY <2>1
    <2>3. (lease \in [holder: Procs \cup {"none"}, scope: {"none", "session", "orphan"},
                     live: BOOLEAN])'
      BY <2>1
    <2> QED
      BY <2>2, <2>3 DEF LeaseType
  <1>3. CASE lease' = NoLease
    BY <1>3 DEF LeaseType, NoLease
  <1> QED
    BY <1>1, <1>2, <1>3

(* A step of a process keeps the lease, the resources, the credential flag and
   the counters well typed. *)
LEMMA SharedTypeStep ==
  ASSUME TypeOK, NEW p \in Procs, ProcStep(p)
  PROVE  (LeaseType /\ ResourceType /\ creds \in BOOLEAN /\ nextOp \in Nat
             /\ faults \in 0 .. MaxFaults)'
  <1> USE MaxFaultsAssumption
      DEF TypeOK, NoOp, Goto, Done, NoFault, Fault, store, provider
  <1>1. CASE CleanupStep(p)
    <2> USE <1>1 DEF CleanupStep, RevokeSession, RevokeFailed, ClaimSessionCleanup,
             ListServers, ListRaises, NextDelete, ServerCall, RelistVolumes, VolumeCall,
             SettleStop, SettleStopping, SettleFailing, SettleCancelledGet, SettleCancelled,
             ReleaseSessionCleanup
    <2>1. LeaseType'
      <3>1. lease' = lease \/ lease' = NewLease(p, "session") \/ lease' = NoLease
        BY DEF ReleaseLease
      <3> QED
        BY <3>1, LeaseTypeKept
    <2>2. ResourceType'
      BY DEF ResourceType, DeleteServer, DeleteVolume
    <2>3. (creds \in BOOLEAN)'
      OBVIOUS
    <2>4. (nextOp \in Nat /\ faults \in 0 .. MaxFaults)'
      BY DEF DeleteServer, DeleteVolume
    <2> QED
      BY <2>1, <2>2, <2>3, <2>4
  <1>2. CASE PrepareStep(p) \/ Request(p) \/ Crash(p)
    <2> USE <1>2 DEF PrepareStep, ClaimSession, FindVolume, CreateVolume, CheckpointVolume,
             FindServer, CreateServer, CheckpointServer, CheckpointBootstrapping,
             CheckpointReady, LostOperation, ProvisioningFailed, FailProvisioning,
             FinishCancelled, IssueCredential, Request, PrepareBegin, StopSession,
             IssueCheck, Crash
    <2>1. LeaseType'
      BY DEF LeaseType
    <2>2. ResourceType'
      BY DEF ResourceType, LocalType
    <2>3. (creds \in BOOLEAN)'
      OBVIOUS
    <2>4. (nextOp \in Nat /\ faults \in 0 .. MaxFaults)'
      OBVIOUS
    <2> QED
      BY <2>1, <2>2, <2>3, <2>4
  <1>3. CASE \/ ReaperStep(p)
             \/ ProvisioningTimeout(p) \/ DeadlineStop(p) \/ HeartbeatFailure(p)
             \/ SweepStopping(p) \/ SweepFailedCleanup(p) \/ SweepOrphan(p)
    <2> USE <1>3 DEF ReaperStep, SweepRequestStop, DropOverdueOperation, ClaimOrphanCleanup,
             ConfirmOrphan, OrphanCall, ProvisioningTimeout, DeadlineStop, HeartbeatFailure,
             SweepStopping, SweepFailedCleanup, SweepOrphan
    <2>1. LeaseType'
      <3>1. lease' = lease \/ lease' = NewLease(p, "orphan")
        OBVIOUS
      <3> QED
        BY <3>1, LeaseTypeKept
    <2>2. ResourceType'
      BY DEF ResourceType, DeleteServer, DeleteVolume
    <2>3. (creds \in BOOLEAN)'
      OBVIOUS
    <2>4. (nextOp \in Nat /\ faults \in 0 .. MaxFaults)'
      BY DEF DeleteServer, DeleteVolume
    <2> QED
      BY <2>1, <2>2, <2>3, <2>4
  <1> QED
    BY <1>1, <1>2, <1>3 DEF ProcStep

-----------------------------------------------------------------------------
(* What a step may do to the Session. *)

(* The status and the operation after a step: the same, or claimed, or one
   step along the table. *)
StatusStep ==
  \/ /\ sess'.status = sess.status
     /\ sess'.op = sess.op \/ sess.status \in Ended
     /\ nextOp' = nextOp
  \/ /\ sess.status = "STOPPED"
     /\ sess'.status = "PROVISIONING"
     /\ ~lease.live /\ lease' = lease
     /\ nextOp' = nextOp + 1 /\ sess'.op = nextOp'
  \/ /\ sess.status \notin TERMINAL_STATES
     /\ sess'.status \in TRANSITIONS[sess.status]
     /\ sess'.op = sess.op \/ sess'.status \notin {"PROVISIONING", "BOOTSTRAPPING"}
     /\ nextOp' = nextOp

(* The records the system writes, each with its status and its operation. *)
LEMMA Writes ==
  ASSUME NEW s \in Session
  PROVE  /\ RequestStop(s) \in Session
         /\ RequestStop(s).status = "STOPPING" /\ RequestStop(s).op = s.op
         /\ MarkFailed(s) \in Session
         /\ MarkFailed(s).status = "FAILED_CLEANUP" /\ MarkFailed(s).op = s.op
         /\ DropOperation(s) \in Session /\ DropOperation(s).status = s.status
         /\ DropOperation(MarkFailed(s)) \in Session
         /\ DropOperation(MarkFailed(s)).status = "FAILED_CLEANUP"
         /\ ClearCancel(DropOperation(MarkFailed(s))) \in Session
         /\ ClearCancel(DropOperation(MarkFailed(s))).status = "FAILED_CLEANUP"
         /\ MarkFinished(s) \in Session /\ MarkFinished(s).status = "FINISHED"
         /\ CloseFailed(s) \in Session /\ CloseFailed(s).status = "FAILED"
         /\ ClearCancel(DropOperation(CloseFailed(s))) \in Session
         /\ ClearCancel(DropOperation(CloseFailed(s))).status = "FAILED"
  <1>1. MarkFailed(s) \in Session /\ CloseFailed(s) \in Session
    BY StoreTypes
  <1>2. /\ DropOperation(MarkFailed(s)) \in Session
        /\ DropOperation(MarkFailed(s)).status = "FAILED_CLEANUP"
    <2>1. MarkFailed(s).status = "FAILED_CLEANUP"
      BY StoreFields
    <2> QED
      BY <1>1, <2>1, StoreTypes, StoreFields
  <1>3. /\ DropOperation(CloseFailed(s)) \in Session
        /\ DropOperation(CloseFailed(s)).status = "FAILED"
    <2>1. CloseFailed(s).status = "FAILED"
      BY StoreFields
    <2> QED
      BY <1>1, <2>1, StoreTypes, StoreFields
  <1>6. /\ ClearCancel(DropOperation(MarkFailed(s))) \in Session
        /\ ClearCancel(DropOperation(MarkFailed(s))).status = "FAILED_CLEANUP"
    BY <1>2, StoreTypes, StoreFields
  <1>7. /\ ClearCancel(DropOperation(CloseFailed(s))) \in Session
        /\ ClearCancel(DropOperation(CloseFailed(s))).status = "FAILED"
    BY <1>3, StoreTypes, StoreFields
  <1>4. /\ RequestStop(s) \in Session /\ DropOperation(s) \in Session
        /\ MarkFinished(s) \in Session
    BY StoreTypes
  <1>5. /\ RequestStop(s).status = "STOPPING" /\ RequestStop(s).op = s.op
        /\ MarkFailed(s).status = "FAILED_CLEANUP" /\ MarkFailed(s).op = s.op
        /\ DropOperation(s).status = s.status
        /\ MarkFinished(s).status = "FINISHED" /\ CloseFailed(s).status = "FAILED"
    BY StoreFields
  <1> QED
    BY <1>1, <1>2, <1>4, <1>5, <1>6, <1>7

(* A Session that is not over may always be stopped or failed. *)
LEMMA EndingMove ==
  ASSUME TypeOK, sess' \in Session, nextOp' = nextOp, sess.status \notin TERMINAL_STATES,
         \/ sess'.status = "STOPPING" /\ (sess'.op = sess.op \/ sess.status # "STOPPING")
         \/ sess'.status = "FAILED_CLEANUP" /\ sess.status # "FAILED_CLEANUP"
  PROVE  StatusStep
  <1>1. sess.status \in ACTIVE_STATES \cup {"STOPPING", "FAILED_CLEANUP"}
    BY DEF TypeOK, Session, SESSION_STATES, CAPACITY_STATES, CLEANUP_STATES
  <1>2. CASE sess.status \in ACTIVE_STATES
    <2>1. sess'.status \in TRANSITIONS[sess.status]
      BY <1>2, TableFacts DEF CLEANUP_STATES
    <2> QED
      BY <2>1 DEF StatusStep
  <1>3. CASE sess.status = "STOPPING"
    BY <1>3, TableFacts DEF StatusStep
  <1>4. CASE sess.status = "FAILED_CLEANUP"
    BY <1>4, TableFacts DEF StatusStep
  <1> QED
    BY <1>1, <1>2, <1>3, <1>4

(* A step that leaves status, operation and counter alone. *)
LEMMA SameStatus ==
  ASSUME sess'.status = sess.status, sess'.op = sess.op, nextOp' = nextOp
  PROVE  StatusStep
  BY DEF StatusStep

(* STOPPING ends in FINISHED, FAILED_CLEANUP in FAILED. *)
LEMMA ClosingMove ==
  ASSUME nextOp' = nextOp,
         \/ sess.status = "STOPPING" /\ sess'.status = "FINISHED"
         \/ sess.status = "FAILED_CLEANUP" /\ sess'.status = "FAILED"
  PROVE  StatusStep
  BY TableFacts DEF StatusStep, TERMINAL_STATES

(* The steps that write the record keep it well typed and move it as
   StatusStep says: the claim needs OperationInv, the two unconditional writes
   need that their Session is ending. *)
LEMMA SessionWrites ==
  ASSUME TypeOK, OperationInv, NEW p \in Procs,
         \/ ClaimSession(p) \/ CheckpointServer(p) \/ CheckpointBootstrapping(p)
         \/ CheckpointReady(p) \/ FailProvisioning(p) \/ StopSession(p)
         \/ SettleStop(p) \/ SettleFailing(p) \/ SettleCancelled(p)
         \/ ProvisioningTimeout(p) \/ DeadlineStop(p) \/ HeartbeatFailure(p)
         \/ SweepRequestStop(p) \/ DropOverdueOperation(p)
  PROVE  sess' \in Session /\ StatusStep
  <1> DEFINE Good == sess' \in Session /\ StatusStep
  <1>t. sess \in Session /\ sess.status \in SESSION_STATES
    BY DEF TypeOK, Session
  <1>a. \A s \in ACTIVE_STATES : s \notin TERMINAL_STATES /\ s # "STOPPING" /\ s # "FAILED_CLEANUP"
    BY DEF ACTIVE_STATES, TERMINAL_STATES
  <1>1. CASE ClaimSession(p)
    <2>1. CASE UNCHANGED <<sess, nextOp>>
      BY <2>1, <1>t, SameStatus
    <2>2. CASE /\ ~CleanupHolds /\ ClaimableStatus(sess) /\ ~AlreadyProvisioning(sess)
               /\ nextOp' = nextOp + 1 /\ sess' = ClaimProvisioning(sess, nextOp')
               /\ lease' = lease
      <3>1. sess.status = "STOPPED" /\ ~lease.live
        BY <2>2 DEF ClaimableStatus, AlreadyProvisioning, OperationInv, CleanupHolds, LeaseActive
      <3>2. nextOp' \in Nat
        BY <2>2 DEF TypeOK
      <3>3. sess' \in Session /\ sess'.status = "PROVISIONING" /\ sess'.op = nextOp'
        BY <2>2, <3>2, <1>t, StoreTypes, StoreFields
      <3> QED
        BY <2>2, <3>1, <3>3 DEF StatusStep
    <2> QED
      BY <1>1, <2>1, <2>2 DEF ClaimSession
  <1>2. CASE CheckpointServer(p)
    <2>1. nextOp' = nextOp /\ (sess' = sess \/ sess' = [sess EXCEPT !.server = TRUE])
      BY <1>2 DEF CheckpointServer
    <2>2. sess' \in Session /\ sess'.status = sess.status /\ sess'.op = sess.op
      BY <2>1, <1>t DEF Session
    <2> QED
      BY <2>1, <2>2, SameStatus
  <1>3. CASE CheckpointBootstrapping(p)
    <2>1. nextOp' = nextOp
      BY <1>3 DEF CheckpointBootstrapping
    <2>2. CASE UNCHANGED sess
      BY <2>1, <2>2, <1>t, SameStatus
    <2>3. CASE /\ ~Cancelled(sess) /\ "BOOTSTRAPPING" \in TRANSITIONS[sess.status]
               /\ sess' = Advance(sess, "BOOTSTRAPPING")
      <3>1. "BOOTSTRAPPING" \in SESSION_STATES
        BY DEF SESSION_STATES, CAPACITY_STATES, ACTIVE_STATES
      <3>2. sess' \in Session /\ sess'.status = "BOOTSTRAPPING" /\ sess'.op = sess.op
        BY <2>3, <3>1, <1>t, StoreTypes, StoreFields
      <3>3. sess.status \notin TERMINAL_STATES
        BY <2>3, TableFacts DEF Cancelled, TERMINAL_STATES
      <3> QED
        BY <2>1, <2>3, <3>2, <3>3 DEF StatusStep
    <2> QED
      BY <1>3, <2>2, <2>3 DEF CheckpointBootstrapping
  <1>4. CASE CheckpointReady(p)
    <2>1. nextOp' = nextOp
      BY <1>4 DEF CheckpointReady
    <2>2. CASE UNCHANGED sess
      BY <2>1, <2>2, <1>t, SameStatus
    <2>3. CASE /\ ~Cancelled(sess) /\ "READY_WAIT_INGEST" \in TRANSITIONS[sess.status]
               /\ sess' = Complete(Advance(sess, "READY_WAIT_INGEST"))
      <3>1. "READY_WAIT_INGEST" \in SESSION_STATES
        BY DEF SESSION_STATES, CAPACITY_STATES, ACTIVE_STATES
      <3>2. /\ Advance(sess, "READY_WAIT_INGEST") \in Session
            /\ Advance(sess, "READY_WAIT_INGEST").status = "READY_WAIT_INGEST"
        BY <3>1, <1>t, StoreTypes, StoreFields
      <3>3. sess' \in Session /\ sess'.status = "READY_WAIT_INGEST"
        BY <2>3, <3>2, StoreTypes, StoreFields
      <3>4. sess.status \notin TERMINAL_STATES
        BY <2>3, TableFacts DEF Cancelled, TERMINAL_STATES
      <3> QED
        BY <2>1, <2>3, <3>3, <3>4 DEF StatusStep
    <2> QED
      BY <1>4, <2>2, <2>3 DEF CheckpointReady
  <1>5. CASE FailProvisioning(p)
    <2>1. nextOp' = nextOp
      BY <1>5 DEF FailProvisioning
    <2>2. CASE UNCHANGED sess
      BY <2>1, <2>2, <1>t, SameStatus
    <2>3. CASE /\ sess.status \in {"PROVISIONING", "BOOTSTRAPPING"}
               /\ sess' = DropOperation(MarkFailed(sess))
      <3>1. sess' \in Session /\ sess'.status = "FAILED_CLEANUP"
        BY <2>3, <1>t, Writes
      <3>2. sess.status \in ACTIVE_STATES
        BY <2>3 DEF ACTIVE_STATES
      <3> QED
        BY <2>1, <3>1, <3>2, <1>a, EndingMove
    <2> QED
      BY <1>5, <2>2, <2>3 DEF FailProvisioning
  <1>6. CASE StopSession(p) \/ DeadlineStop(p) \/ SweepRequestStop(p)
    <2>1. nextOp' = nextOp
      BY <1>6 DEF StopSession, DeadlineStop, SweepRequestStop
    <2>2. CASE UNCHANGED sess
      BY <2>1, <2>2, <1>t, SameStatus
    <2>3. CASE sess.status \notin TERMINAL_STATES /\ sess' = RequestStop(sess)
      <3>1. sess' \in Session /\ sess'.status = "STOPPING" /\ sess'.op = sess.op
        BY <2>3, <1>t, Writes
      <3> QED
        BY <2>1, <2>3, <3>1, EndingMove
    <2> QED
      BY <1>6, <2>2, <2>3, <1>a DEF StopSession, DeadlineStop, SweepRequestStop
  <1>7. CASE SettleStop(p) \/ (pc[p] = "settleStop" /\ SettleCancelled(p))
    <2>1. nextOp' = nextOp
      BY <1>7 DEF SettleStop, SettleCancelled
    <2>2. CASE UNCHANGED sess
      BY <2>1, <2>2, <1>t, SameStatus
    <2>3. CASE sess.status = "STOPPING" /\ sess' = MarkFinished(sess)
      <3>1. sess' \in Session /\ sess'.status = "FINISHED"
        BY <2>3, <1>t, Writes
      <3> QED
        BY <2>1, <2>3, <3>1, ClosingMove
    <2>4. CASE /\ sess.status = "STOPPING"
               /\ \/ sess' = DropOperation(MarkFailed(sess))
                  \/ sess' = ClearCancel(DropOperation(MarkFailed(sess)))
      <3>1. sess' \in Session /\ sess'.status = "FAILED_CLEANUP"
        BY <2>4, <1>t, Writes
      <3>2. sess.status \notin TERMINAL_STATES /\ sess.status # "FAILED_CLEANUP"
        BY <2>4 DEF TERMINAL_STATES
      <3> QED
        BY <2>1, <3>1, <3>2, EndingMove
    <2> QED
      BY <1>7, <2>2, <2>3, <2>4 DEF SettleStop, SettleCancelled, SettleStopping
  <1>8. CASE SettleFailing(p) \/ (pc[p] = "settleFail" /\ ok[p] /\ SettleCancelled(p))
    <2>1. nextOp' = nextOp
      BY <1>8 DEF SettleFailing, SettleCancelled
    <2>2. CASE UNCHANGED sess
      BY <2>1, <2>2, <1>t, SameStatus
    <2>3. CASE /\ sess.status = "FAILED_CLEANUP"
               /\ \/ sess' = CloseFailed(sess)
                  \/ sess' = ClearCancel(DropOperation(CloseFailed(sess)))
      <3>1. sess' \in Session /\ sess'.status = "FAILED"
        BY <2>3, <1>t, Writes
      <3> QED
        BY <2>1, <2>3, <3>1, ClosingMove
    <2> QED
      BY <1>8, <2>2, <2>3 DEF SettleFailing, SettleCancelled
  <1>9. CASE pc[p] = "settleFail" /\ ~ok[p] /\ SettleCancelled(p)
    <2>1. /\ sess' = ClearCancel(DropOperation([sess EXCEPT !.pending = TRUE]))
          /\ nextOp' = nextOp
      BY <1>9 DEF SettleCancelled
    <2>2. [sess EXCEPT !.pending = TRUE] \in Session
      BY <1>t DEF Session
    <2>3. [sess EXCEPT !.pending = TRUE].status = sess.status
      BY <1>t DEF Session
    <2>4. /\ DropOperation([sess EXCEPT !.pending = TRUE]) \in Session
          /\ DropOperation([sess EXCEPT !.pending = TRUE]).status = sess.status
      BY <2>2, <2>3, Writes
    <2>5. sess' \in Session /\ sess'.status = sess.status
      BY <2>1, <2>4, StoreTypes, StoreFields
    <2>6. sess.status \in Ended
      BY <1>9 DEF OperationInv
    <2> QED
      BY <2>1, <2>5, <2>6 DEF StatusStep
  <1>10. CASE ProvisioningTimeout(p)
    <2>1. /\ sess' = [DropOperation(MarkFailed(sess)) EXCEPT !.cancel = TRUE]
          /\ nextOp' = nextOp
          /\ sess.status \in ACTIVE_STATES
      BY <1>10 DEF ProvisioningTimeout, ACTIVE_STATES
    <2>2. DropOperation(MarkFailed(sess)) \in Session
      BY <1>t, Writes
    <2>3. DropOperation(MarkFailed(sess)).status = "FAILED_CLEANUP"
      BY <1>t, Writes
    <2>4. sess' \in Session /\ sess'.status = "FAILED_CLEANUP"
      BY <2>1, <2>2, <2>3 DEF Session
    <2> QED
      BY <2>1, <2>4, <1>a, EndingMove
  <1>11. CASE HeartbeatFailure(p)
    <2>1. sess' = MarkFailed(sess) /\ nextOp' = nextOp /\ sess.status \in ACTIVE_STATES
      BY <1>11 DEF HeartbeatFailure
    <2>2. sess' \in Session /\ sess'.status = "FAILED_CLEANUP"
      BY <2>1, <1>t, Writes
    <2> QED
      BY <2>1, <2>2, <1>a, EndingMove
  <1>12. CASE DropOverdueOperation(p)
    <2>1. sess' = DropOperation(sess) /\ nextOp' = nextOp /\ sess.status \in Ended
      BY <1>12 DEF DropOverdueOperation, OperationInv
    <2>2. sess' \in Session /\ sess'.status = sess.status
      BY <2>1, <1>t, Writes
    <2> QED
      BY <2>1, <2>2 DEF StatusStep
  <1>13. SettleCancelled(p) =>
           \/ pc[p] = "settleStop"
           \/ pc[p] = "settleFail" /\ ok[p]
           \/ pc[p] = "settleFail" /\ ~ok[p]
    BY DEF SettleCancelled
  <1> QED
    BY <1>1, <1>2, <1>3, <1>4, <1>5, <1>6, <1>7, <1>8, <1>9, <1>10, <1>11, <1>12, <1>13

(* The media node and the clock write the record the same way. *)
LEMMA EnvironmentWrites ==
  ASSUME TypeOK,
         NodeReady \/ IngestObservation \/ PipelineFailure \/ ProvisioningGrowsOld
  PROVE  sess' \in Session /\ StatusStep
  <1>t. sess \in Session /\ sess.status \in SESSION_STATES
    BY DEF TypeOK, Session
  <1>1. CASE NodeReady \/ IngestObservation
    <2>1. PICK s \in TRANSITIONS[sess.status] \ CLEANUP_STATES :
                 sess' = Advance(sess, s) /\ s \notin {"PROVISIONING", "BOOTSTRAPPING"}
      <3>1. CASE NodeReady
        BY <3>1, TableFacts DEF NodeReady, CLEANUP_STATES
      <3>2. CASE IngestObservation
        <4>1. PICK s \in TRANSITIONS[sess.status] \ CLEANUP_STATES : sess' = Advance(sess, s)
          BY <3>2 DEF IngestObservation
        <4>2. /\ sess.status \in {"READY_WAIT_INGEST", "LIVE", "DEGRADED", "HOLDING"}
              /\ sess.status \in ACTIVE_STATES
          BY <3>2 DEF IngestObservation, ACTIVE_STATES
        <4>3. s \notin {"PROVISIONING", "BOOTSTRAPPING"}
          BY <4>1, <4>2, TableFacts
        <4> QED
          BY <4>1, <4>3
      <3> QED
        BY <1>1, <3>1, <3>2
    <2>2. sess.status \in ACTIVE_STATES /\ nextOp' = nextOp
      BY <1>1 DEF NodeReady, IngestObservation, ACTIVE_STATES
    <2>3. s \in SESSION_STATES
      BY <2>1, <2>2, TableFacts DEF SESSION_STATES
    <2>4. sess' \in Session /\ sess'.status = s
      BY <2>1, <2>3, <1>t, StoreTypes, StoreFields
    <2>5. sess.status \notin TERMINAL_STATES
      BY <2>2 DEF ACTIVE_STATES, TERMINAL_STATES
    <2> QED
      BY <2>1, <2>2, <2>4, <2>5 DEF StatusStep
  <1>2. CASE PipelineFailure
    <2>1. sess' = MarkFailed(sess) /\ nextOp' = nextOp /\ sess.status \in ACTIVE_STATES
      BY <1>2 DEF PipelineFailure
    <2>2. sess' \in Session /\ sess'.status = "FAILED_CLEANUP"
      BY <2>1, <1>t, Writes
    <2>3. sess.status \notin TERMINAL_STATES /\ sess.status # "FAILED_CLEANUP"
      BY <2>1 DEF ACTIVE_STATES, TERMINAL_STATES
    <2> QED
      BY <2>1, <2>2, <2>3, EndingMove
  <1>3. CASE ProvisioningGrowsOld
    <2>1. sess' = [sess EXCEPT !.overdue = TRUE] /\ nextOp' = nextOp
      BY <1>3 DEF ProvisioningGrowsOld
    <2>2. sess' \in Session /\ sess'.status = sess.status /\ sess'.op = sess.op
      BY <2>1, <1>t DEF Session
    <2> QED
      BY <2>1, <2>2, SameStatus
  <1> QED
    BY <1>1, <1>2, <1>3

(* The other steps leave the record alone. *)
LEMMA SessionUntouched ==
  ASSUME NEW p \in Procs,
         \/ RevokeSession(p) \/ ClaimSessionCleanup(p) \/ ListServers(p)
         \/ NextDelete(p, "delSrv", "srvCall", "relist") \/ ServerCall(p)
         \/ RelistVolumes(p) \/ NextDelete(p, "delVol", "volCall", "settle")
         \/ VolumeCall(p) \/ SettleCancelledGet(p) \/ ReleaseSessionCleanup(p)
         \/ FindVolume(p) \/ CreateVolume(p) \/ CheckpointVolume(p) \/ FindServer(p)
         \/ CreateServer(p) \/ LostOperation(p) \/ ProvisioningFailed(p)
         \/ FinishCancelled(p) \/ IssueCredential(p) \/ PrepareBegin(p)
         \/ IssueCheck(p) \/ Crash(p)
         \/ SweepStopping(p) \/ SweepFailedCleanup(p) \/ SweepOrphan(p)
         \/ ClaimOrphanCleanup(p) \/ ConfirmOrphan(p) \/ OrphanCall(p)
  PROVE  UNCHANGED <<sess, nextOp>>
  BY DEF RevokeSession, ClaimSessionCleanup, ListServers, NextDelete, ServerCall,
         RelistVolumes, VolumeCall, SettleCancelledGet, ReleaseSessionCleanup, store,
         FindVolume, CreateVolume, CheckpointVolume, FindServer, CreateServer,
         LostOperation, ProvisioningFailed, FinishCancelled, IssueCredential,
         PrepareBegin, IssueCheck, Crash, SweepStopping, SweepFailedCleanup, SweepOrphan,
         ClaimOrphanCleanup, ConfirmOrphan, OrphanCall

(* A step of the system is a step of one process or of its surroundings. *)
LEMMA NextCases ==
  ASSUME Next
  PROVE  \/ \E p \in Procs : ProcStep(p)
         \/ NodeStep
         \/ LeaseStep
         \/ ServerVanishes
  BY DEF Next, WorkerStep, SweeperStep, Procs, ProcStep, NodeStep, LeaseStep

(* Every step of the system keeps the record well typed and is a StatusStep. *)
LEMMA SessionSteps ==
  ASSUME TypeOK, OperationInv, Next
  PROVE  sess' \in Session /\ StatusStep
  <1>1. CASE UNCHANGED <<sess, nextOp>>
    BY <1>1, SameStatus DEF TypeOK
  <1>2. ASSUME NEW p \in Procs, ProcStep(p)
        PROVE  UNCHANGED <<sess, nextOp>> \/ (sess' \in Session /\ StatusStep)
    BY <1>2, SessionWrites, SessionUntouched
    DEF ProcStep, CleanupStep, PrepareStep, Request, ReaperStep
  <1>3. CASE LeaseStep \/ ServerVanishes
    <2>1. UNCHANGED <<sess, nextOp>>
      BY <1>3 DEF LeaseStep, LeaseExpires, HolderStalls, ServerVanishes, store
    <2> QED
      BY <1>1, <2>1
  <1>4. CASE NodeStep
    BY <1>4, EnvironmentWrites DEF NodeStep
  <1> QED
    BY <1>1, <1>2, <1>3, <1>4, NextCases

(* Every step keeps the whole state well typed. *)
LEMMA TypeStep ==
  ASSUME TypeOK, OperationInv, [Next]_vars
  PROVE  TypeOK'
  <1>1. CASE UNCHANGED vars
    BY <1>1 DEF vars, TypeOK, LeaseType, ResourceType, LocalType
  <1>2. CASE Next
    <2>1. (sess \in Session)'
      BY <1>2, SessionSteps
    <2>2. ASSUME NEW p \in Procs, ProcStep(p) PROVE TypeOK'
      BY <2>1, <2>2, LocalTypeStep, SharedTypeStep DEF TypeOK
    <2>3. CASE NodeStep
      <3>1. UNCHANGED <<lease, vols, srvs, dying, creds, pc, job, myop, ok, todo, nextOp, faults>>
        BY <2>3 DEF NodeStep, NodeReady, IngestObservation, PipelineFailure,
                    ProvisioningGrowsOld, provider, local
      <3> QED
        BY <2>1, <3>1 DEF TypeOK, LeaseType, ResourceType, LocalType
    <2>4. CASE LeaseStep
      <3>1. /\ UNCHANGED <<vols, srvs, dying, creds, pc, job, myop, ok, todo, nextOp>>
            /\ lease' = [lease EXCEPT !.live = FALSE]
            /\ faults' = faults \/ (faults < MaxFaults /\ faults' = faults + 1)
        BY <2>4 DEF LeaseStep, LeaseExpires, HolderStalls, Fault, provider, local
      <3>2. faults' \in 0 .. MaxFaults
        BY <3>1, MaxFaultsAssumption DEF TypeOK
      <3>3. LeaseType'
        BY <3>1 DEF TypeOK, LeaseType
      <3> QED
        BY <2>1, <3>1, <3>2, <3>3 DEF TypeOK, ResourceType, LocalType
    <2>5. CASE ServerVanishes
      <3>1. UNCHANGED <<lease, vols, creds, pc, job, myop, ok, todo, nextOp, faults>>
        BY <2>5 DEF ServerVanishes, store, local
      <3>2. ResourceType'
        BY <2>5, <3>1 DEF ServerVanishes, ResourceType, TypeOK
      <3> QED
        BY <2>1, <3>1, <3>2 DEF TypeOK, LeaseType, LocalType
    <2> QED
      BY <1>2, <2>2, <2>3, <2>4, <2>5, NextCases
  <1> QED
    BY <1>1, <1>2

-----------------------------------------------------------------------------
(* What a step of one process may do to the processes and to the lease. *)

(* The other processes are where they were. *)
LEMMA OthersStay ==
  ASSUME TypeOK, NEW p \in Procs, ProcStep(p), NEW q \in Procs, q # p
  PROVE  /\ pc'[q] = pc[q] /\ myop'[q] = myop[q]
         /\ job'[q] = job[q] /\ ok'[q] = ok[q] /\ todo'[q] = todo[q]
  <1> USE DEF TypeOK, LocalType, Goto, Done, Begin, Sweep, Continue, Raise, Finish
  <1>1. CASE CleanupStep(p)
    BY <1>1 DEF CleanupStep, RevokeSession, RevokeFailed, ClaimSessionCleanup,
             ListServers, ListRaises, NextDelete, ServerCall, RelistVolumes, VolumeCall,
             SettleStop, SettleStopping, SettleFailing, SettleCancelledGet, SettleCancelled,
             ReleaseSessionCleanup
  <1>2. CASE PrepareStep(p)
    BY <1>2 DEF PrepareStep, ClaimSession, FindVolume, CreateVolume, CheckpointVolume,
             FindServer, CreateServer, CheckpointServer, CheckpointBootstrapping,
             CheckpointReady, LostOperation, ProvisioningFailed, FailProvisioning,
             FinishCancelled, IssueCredential
  <1>3. CASE Request(p) \/ Crash(p)
    BY <1>3 DEF Request, PrepareBegin, StopSession, IssueCheck, Crash
  <1>4. CASE ReaperStep(p)
    BY <1>4 DEF ReaperStep, SweepRequestStop, StopRevoke, DropOverdueOperation,
             ClaimOrphanCleanup, ConfirmOrphan, OrphanCall
  <1>5. CASE \/ ProvisioningTimeout(p) \/ DeadlineStop(p) \/ HeartbeatFailure(p)
             \/ SweepStopping(p) \/ SweepFailedCleanup(p) \/ SweepOrphan(p)
    BY <1>5 DEF ProvisioningTimeout, DeadlineStop, StopRevoke, HeartbeatFailure,
             SweepStopping, SweepFailedCleanup, SweepOrphan
  <1> QED
    BY <1>1, <1>2, <1>3, <1>4, <1>5 DEF ProcStep

(* A delete is sent only by the holder of a live lease, and the lease stays. *)
LEMMA DeleteNeedsLease ==
  ASSUME TypeOK, NEW p \in Procs, ProcStep(p), pc'[p] \in DeleteCalls
  PROVE  lease.live /\ lease.holder = p /\ UNCHANGED <<sess, lease>> /\ pc[p] \notin DeleteCalls
  <1> USE DEF TypeOK, LocalType, DeleteCalls, Goto, Done, Begin, Sweep, Continue, Raise, Finish
  <1>1. CASE CleanupStep(p)
    BY <1>1 DEF CleanupStep, RevokeSession, RevokeFailed, ClaimSessionCleanup,
             ListServers, ListRaises, NextDelete, ServerCall, RelistVolumes, VolumeCall,
             SettleStop, SettleStopping, SettleFailing, SettleCancelledGet, SettleCancelled,
             ReleaseSessionCleanup, StillOwned, SessionCleanupStillOwned, LeaseActive, store
  <1>2. CASE PrepareStep(p)
    BY <1>2 DEF PrepareStep, ClaimSession, FindVolume, CreateVolume, CheckpointVolume,
             FindServer, CreateServer, CheckpointServer, CheckpointBootstrapping,
             CheckpointReady, LostOperation, ProvisioningFailed, FailProvisioning,
             FinishCancelled, IssueCredential
  <1>3. CASE Request(p) \/ Crash(p)
    BY <1>3 DEF Request, PrepareBegin, StopSession, IssueCheck, Crash
  <1>4. CASE ReaperStep(p)
    BY <1>4 DEF ReaperStep, SweepRequestStop, StopRevoke, DropOverdueOperation,
             ClaimOrphanCleanup, ConfirmOrphan, OrphanCall, OrphanConfirmed,
             OrphanCleanupStillOwned, LeaseActive, store
  <1>5. CASE \/ ProvisioningTimeout(p) \/ DeadlineStop(p) \/ HeartbeatFailure(p)
             \/ SweepStopping(p) \/ SweepFailedCleanup(p) \/ SweepOrphan(p)
    BY <1>5 DEF ProvisioningTimeout, DeadlineStop, StopRevoke, HeartbeatFailure,
             SweepStopping, SweepFailedCleanup, SweepOrphan
  <1> QED
    BY <1>1, <1>2, <1>3, <1>4, <1>5 DEF ProcStep

(* The lease changes hands only when it is free, and is given back only by
   the process that holds it. *)
LeaseMove(p) ==
  \/ lease' = lease
  \/ CanClaimSessionCleanup(sess, lease) /\ lease' = NewLease(p, "session") /\ sess' = sess
  \/ CanClaimOrphanCleanup(sess, lease) /\ lease' = NewLease(p, "orphan") /\ sess' = sess
  \/ lease' = ReleaseLease(lease, p)

(* Every step of a process is such a move of the lease. *)
LEMMA LeaseMoves ==
  ASSUME NEW p \in Procs, ProcStep(p)
  PROVE  LeaseMove(p)
  BY DEF ProcStep, LeaseMove, store,
         CleanupStep, RevokeSession, ClaimSessionCleanup, ListServers, NextDelete, ServerCall,
         RelistVolumes, VolumeCall, SettleStop, SettleFailing, SettleCancelledGet,
         SettleCancelled, ReleaseSessionCleanup,
         PrepareStep, ClaimSession, FindVolume, CreateVolume, CheckpointVolume, FindServer,
         CreateServer, CheckpointServer, CheckpointBootstrapping, CheckpointReady,
         LostOperation, ProvisioningFailed, FailProvisioning, FinishCancelled,
         IssueCredential, Request, PrepareBegin, StopSession, IssueCheck, Crash,
         ReaperStep, SweepRequestStop, DropOverdueOperation, ClaimOrphanCleanup,
         ConfirmOrphan, OrphanCall, OrphanClaimAllowed, ProvisioningTimeout, DeadlineStop,
         HeartbeatFailure, SweepStopping, SweepFailedCleanup, SweepOrphan

(* Once a Session is ending it stays in the ending states, and a terminal one
   leaves them only for a prepare that saw no live lease. *)
LEMMA EndedStays ==
  ASSUME StatusStep
  PROVE  /\ sess.status \in Ended => sess'.status \in Ended
         /\ sess.status \in TERMINAL_STATES /\ lease.live => sess'.status = sess.status
  BY TableFacts DEF StatusStep, Ended, CLEANUP_STATES, TERMINAL_STATES

(* A live lease keeps the Session where its scope allows. *)
LEMMA LeaseScopeStep ==
  ASSUME TypeOK, OperationInv, LeaseInv, Next
  PROVE  lease'.live => \/ lease'.scope = "session" /\ sess'.status \in Ended
                        \/ lease'.scope = "orphan" /\ sess'.status \in TERMINAL_STATES
  <1>1. StatusStep
    BY SessionSteps
  <1>2. CASE lease' = lease
    BY <1>1, <1>2, EndedStays DEF LeaseInv
  <1>3. CASE lease'.live = FALSE
    BY <1>3
  <1>4. ASSUME NEW p \in Procs, ProcStep(p)
        PROVE  lease'.live => \/ lease'.scope = "session" /\ sess'.status \in Ended
                              \/ lease'.scope = "orphan" /\ sess'.status \in TERMINAL_STATES
    <2>1. LeaseMove(p)
      BY <1>4, LeaseMoves
    <2>2. CASE /\ CanClaimSessionCleanup(sess, lease) /\ lease' = NewLease(p, "session")
               /\ sess' = sess
      BY <2>2 DEF CanClaimSessionCleanup, NewLease, Ended
    <2>3. CASE /\ CanClaimOrphanCleanup(sess, lease) /\ lease' = NewLease(p, "orphan")
               /\ sess' = sess
      BY <2>3 DEF CanClaimOrphanCleanup, NewLease
    <2>4. CASE lease' = ReleaseLease(lease, p)
      BY <1>2, <1>3, <2>4 DEF ReleaseLease, NoLease
    <2> QED
      BY <1>2, <2>1, <2>2, <2>3, <2>4 DEF LeaseMove
  <1>5. CASE LeaseStep
    <2>1. lease' = [lease EXCEPT !.live = FALSE]
      BY <1>5 DEF LeaseStep, LeaseExpires, HolderStalls
    <2> QED
      BY <1>3, <2>1 DEF TypeOK, LeaseType
  <1>6. CASE NodeStep \/ ServerVanishes
    BY <1>2, <1>6 DEF NodeStep, NodeReady, IngestObservation, PipelineFailure,
                      ProvisioningGrowsOld, ServerVanishes, store
  <1> QED
    BY <1>4, <1>5, <1>6, NextCases

(* A delete in flight keeps its lease. *)
LEMMA LeaseHeldStep ==
  ASSUME TypeOK, OperationInv, LeaseInv, Next, NEW q \in Procs, pc'[q] \in DeleteCalls
  PROVE  lease'.live /\ lease'.holder = q
  <1>1. ASSUME NEW p \in Procs, ProcStep(p)
        PROVE  lease'.live /\ lease'.holder = q
    <2>1. CASE q = p
      BY <1>1, <2>1, DeleteNeedsLease
    <2>2. CASE q # p
      <3>1. pc[q] \in DeleteCalls
        BY <1>1, <2>2, OthersStay
      <3>2. lease.live /\ lease.holder = q
        BY <3>1 DEF LeaseInv
      <3>3. lease' = lease
        BY <1>1, <2>2, <3>2, LeaseMoves
        DEF LeaseMove, CanClaimSessionCleanup, CanClaimOrphanCleanup, LeaseActive, ReleaseLease
      <3> QED
        BY <3>2, <3>3
    <2> QED
      BY <2>1, <2>2
  <1>2. CASE LeaseStep
    <2>1. pc' = pc /\ lease.live /\ pc[lease.holder] \notin DeleteCalls
      BY <1>2 DEF LeaseStep, LeaseExpires, HolderStalls, LeaseActive, HoldingSteps, DeleteCalls, local
    <2>2. lease.holder = q
      BY <2>1 DEF LeaseInv
    <2> QED
      BY <2>1, <2>2
  <1>3. CASE NodeStep \/ ServerVanishes
    <2>1. pc' = pc /\ lease' = lease
      BY <1>3 DEF NodeStep, NodeReady, IngestObservation, PipelineFailure,
                  ProvisioningGrowsOld, ServerVanishes, store, local
    <2> QED
      BY <2>1 DEF LeaseInv
  <1> QED
    BY <1>1, <1>2, <1>3, NextCases

(* Every step keeps LeaseInv. *)
LEMMA LeaseInvStep ==
  ASSUME TypeOK, OperationInv, LeaseInv, [Next]_vars
  PROVE  LeaseInv'
  <1>1. CASE UNCHANGED vars
    BY <1>1 DEF vars, LeaseInv
  <1>2. CASE Next
    BY <1>2, LeaseScopeStep, LeaseHeldStep DEF LeaseInv
  <1> QED
    BY <1>1, <1>2

-----------------------------------------------------------------------------
(* OperationInv *)

(* The steps that will take an operation away without looking are entered
   only from a Session that is ending. *)
LEMMA DroppingStep ==
  ASSUME TypeOK, OperationInv, NEW p \in Procs, ProcStep(p),
         pc'[p] \in {"revokeDrop", "drop", "settleFail"}
  PROVE  sess.status \in Ended \/ sess'.status \in Ended
  <1> USE DEF TypeOK, LocalType, Goto, Done, Begin, Sweep, Continue, Raise, Finish
  <1>1. CASE CleanupStep(p)
    BY <1>1 DEF CleanupStep, RevokeSession, RevokeFailed, ClaimSessionCleanup,
             ListServers, ListRaises, NextDelete, ServerCall, RelistVolumes, VolumeCall,
             SettleStop, SettleStopping, SettleFailing, SettleCancelledGet, SettleCancelled,
             ReleaseSessionCleanup, OperationInv, Ended, CLEANUP_STATES
  <1>2. CASE PrepareStep(p)
    BY <1>2 DEF PrepareStep, ClaimSession, FindVolume, CreateVolume, CheckpointVolume,
             FindServer, CreateServer, CheckpointServer, CheckpointBootstrapping,
             CheckpointReady, LostOperation, ProvisioningFailed, FailProvisioning,
             FinishCancelled, IssueCredential
  <1>3. CASE Request(p) \/ Crash(p)
    BY <1>3 DEF Request, PrepareBegin, StopSession, IssueCheck, Crash
  <1>4. CASE ReaperStep(p)
    <2>1. CASE SweepRequestStop(p) /\ sess' = RequestStop(sess)
      BY <2>1, Writes DEF Ended, CLEANUP_STATES
    <2>2. CASE ~(SweepRequestStop(p) /\ sess' = RequestStop(sess))
      BY <1>4, <2>2 DEF ReaperStep, SweepRequestStop, DropOverdueOperation,
             ClaimOrphanCleanup, ConfirmOrphan, OrphanCall
    <2> QED
      BY <2>1, <2>2
  <1>5. CASE DeadlineStop(p)
    BY <1>5, Writes DEF DeadlineStop, Ended, CLEANUP_STATES
  <1>6. CASE \/ ProvisioningTimeout(p) \/ HeartbeatFailure(p)
             \/ SweepStopping(p) \/ SweepFailedCleanup(p) \/ SweepOrphan(p)
    BY <1>6 DEF ProvisioningTimeout, HeartbeatFailure,
             SweepStopping, SweepFailedCleanup, SweepOrphan
  <1> QED
    BY <1>1, <1>2, <1>3, <1>4, <1>5, <1>6 DEF ProcStep

(* Every step keeps OperationInv. *)
LEMMA OperationInvStep ==
  ASSUME TypeOK, OperationInv, [Next]_vars
  PROVE  OperationInv'
  <1>1. CASE UNCHANGED vars
    BY <1>1 DEF vars, OperationInv
  <1>2. CASE Next
    <2>1. StatusStep
      BY <1>2, SessionSteps
    <2>2. sess'.status \in {"PROVISIONING", "BOOTSTRAPPING"} => sess'.op # NoOp
      <3> SUFFICES ASSUME sess'.status \in {"PROVISIONING", "BOOTSTRAPPING"}
                   PROVE  sess'.op # NoOp
        OBVIOUS
      <3>1. CASE sess'.status = sess.status /\ (sess'.op = sess.op \/ sess.status \in Ended)
        BY <3>1 DEF OperationInv, Ended, CLEANUP_STATES
      <3>2. CASE nextOp' = nextOp + 1 /\ sess'.op = nextOp'
        BY <3>2 DEF NoOp, TypeOK
      <3>3. CASE /\ sess.status \notin TERMINAL_STATES
                 /\ sess'.status \in TRANSITIONS[sess.status]
                 /\ sess'.op = sess.op
        <4>1. sess.status \in ACTIVE_STATES \cup {"STOPPING", "FAILED_CLEANUP"}
          BY <3>3 DEF TypeOK, Session, SESSION_STATES, CAPACITY_STATES, CLEANUP_STATES
        <4>2. sess.status \in {"PROVISIONING", "BOOTSTRAPPING"}
          BY <3>3, <4>1, TableFacts DEF ACTIVE_STATES
        <4> QED
          BY <3>3, <4>2 DEF OperationInv
      <3> QED
        BY <2>1, <3>1, <3>2, <3>3 DEF StatusStep
    <2>3. ASSUME NEW q \in Procs, pc'[q] \in {"revokeDrop", "drop", "settleFail"}
          PROVE  sess'.status \in Ended
      <3>1. CASE pc[q] \in {"revokeDrop", "drop", "settleFail"}
        BY <2>1, <3>1, EndedStays DEF OperationInv
      <3>2. ASSUME NEW p \in Procs, ProcStep(p) PROVE sess'.status \in Ended
        BY <2>1, <2>3, <3>1, <3>2, EndedStays, OthersStay, DroppingStep
      <3>3. CASE NodeStep \/ LeaseStep \/ ServerVanishes
        <4>1. pc' = pc
          BY <3>3 DEF NodeStep, NodeReady, IngestObservation, PipelineFailure,
                      ProvisioningGrowsOld, LeaseStep, LeaseExpires, HolderStalls,
                      ServerVanishes, local
        <4> QED
          BY <2>3, <3>1, <4>1
      <3> QED
        BY <1>2, <3>2, <3>3, NextCases
    <2> QED
      BY <2>2, <2>3 DEF OperationInv
  <1> QED
    BY <1>1, <1>2

-----------------------------------------------------------------------------
(* ClaimInv *)

(* Where a process comes from that may create resources, and with which
   operation. *)
LEMMA CreateStepsEntered ==
  ASSUME TypeOK, NEW p \in Procs, ProcStep(p), pc'[p] \in CreateSteps
  PROVE  \/ pc[p] \in CreateSteps /\ myop'[p] = myop[p]
         \/ nextOp' = nextOp + 1 /\ myop'[p] = nextOp'
  <1> USE DEF TypeOK, LocalType, CreateSteps, Goto, Done, Begin, Sweep, Continue, Raise, Finish
  <1>1. CASE CleanupStep(p)
    BY <1>1 DEF CleanupStep, RevokeSession, RevokeFailed, ClaimSessionCleanup,
             ListServers, ListRaises, NextDelete, ServerCall, RelistVolumes, VolumeCall,
             SettleStop, SettleStopping, SettleFailing, SettleCancelledGet, SettleCancelled,
             ReleaseSessionCleanup
  <1>2. CASE PrepareStep(p)
    BY <1>2 DEF PrepareStep, ClaimSession, FindVolume, CreateVolume, CheckpointVolume,
             FindServer, CreateServer, CheckpointServer, CheckpointBootstrapping,
             CheckpointReady, LostOperation, ProvisioningFailed, FailProvisioning,
             FinishCancelled, IssueCredential
  <1>3. CASE Request(p) \/ Crash(p)
    BY <1>3 DEF Request, PrepareBegin, StopSession, IssueCheck, Crash
  <1>4. CASE ReaperStep(p)
    BY <1>4 DEF ReaperStep, SweepRequestStop, StopRevoke, DropOverdueOperation,
             ClaimOrphanCleanup, ConfirmOrphan, OrphanCall
  <1>5. CASE \/ ProvisioningTimeout(p) \/ DeadlineStop(p) \/ HeartbeatFailure(p)
             \/ SweepStopping(p) \/ SweepFailedCleanup(p) \/ SweepOrphan(p)
    BY <1>5 DEF ProvisioningTimeout, DeadlineStop, StopRevoke, HeartbeatFailure,
             SweepStopping, SweepFailedCleanup, SweepOrphan
  <1> QED
    BY <1>1, <1>2, <1>3, <1>4, <1>5 DEF ProcStep

(* A resource appears only under the operation of a process that creates it,
   and a process creates a volume only when it saw none. *)
LEMMA ResourcesAppear ==
  ASSUME TypeOK, NEW p \in Procs, ProcStep(p)
  PROVE  /\ vols' \subseteq vols \/ (pc[p] = "createVol" /\ vols' = vols \cup {myop[p]})
         /\ srvs' \subseteq srvs \/ (pc[p] = "createSrv" /\ srvs' = srvs \cup {myop[p]})
         /\ pc'[p] = "createVol" => vols' = {}
  <1> USE DEF TypeOK, LocalType, NoFault, Fault, provider,
              Goto, Done, Begin, Sweep, Continue, Raise, Finish
  <1>1. CASE CleanupStep(p)
    <2> USE <1>1 DEF CleanupStep, RevokeSession, RevokeFailed, ClaimSessionCleanup,
             ListServers, ListRaises, NextDelete, ServerCall, RelistVolumes, VolumeCall,
             SettleStop, SettleStopping, SettleFailing, SettleCancelledGet, SettleCancelled,
             ReleaseSessionCleanup
    <2>1. vols' \subseteq vols /\ srvs' \subseteq srvs
      BY DEF DeleteServer, DeleteVolume
    <2>2. pc'[p] # "createVol"
      OBVIOUS
    <2> QED
      BY <2>1, <2>2
  <1>2. CASE PrepareStep(p)
    <2> USE <1>2 DEF PrepareStep, ClaimSession, FindVolume, CreateVolume, CheckpointVolume,
             FindServer, CreateServer, CheckpointServer, CheckpointBootstrapping,
             CheckpointReady, LostOperation, ProvisioningFailed, FailProvisioning,
             FinishCancelled, IssueCredential
    <2>1. vols' \subseteq vols \/ (pc[p] = "createVol" /\ vols' = vols \cup {myop[p]})
      OBVIOUS
    <2>2. srvs' \subseteq srvs \/ (pc[p] = "createSrv" /\ srvs' = srvs \cup {myop[p]})
      OBVIOUS
    <2>3. pc'[p] = "createVol" => vols' = {}
      OBVIOUS
    <2> QED
      BY <2>1, <2>2, <2>3
  <1>3. CASE Request(p) \/ Crash(p)
    BY <1>3 DEF Request, PrepareBegin, StopSession, IssueCheck, Crash
  <1>4. CASE ReaperStep(p)
    <2> USE <1>4 DEF ReaperStep, SweepRequestStop, StopRevoke, DropOverdueOperation,
             ClaimOrphanCleanup, ConfirmOrphan, OrphanCall
    <2>1. vols' \subseteq vols /\ srvs' \subseteq srvs
      BY DEF DeleteServer, DeleteVolume
    <2>2. pc'[p] # "createVol"
      OBVIOUS
    <2> QED
      BY <2>1, <2>2
  <1>5. CASE \/ ProvisioningTimeout(p) \/ DeadlineStop(p) \/ HeartbeatFailure(p)
             \/ SweepStopping(p) \/ SweepFailedCleanup(p) \/ SweepOrphan(p)
    BY <1>5 DEF ProvisioningTimeout, DeadlineStop, StopRevoke, HeartbeatFailure,
             SweepStopping, SweepFailedCleanup, SweepOrphan
  <1> QED
    BY <1>1, <1>2, <1>3, <1>4, <1>5 DEF ProcStep

(* The number of claims follows the status. *)
LEMMA ClaimCountStep ==
  ASSUME TypeOK, StatusStep, IF sess.status = "STOPPED" THEN nextOp = 0 ELSE nextOp = 1
  PROVE  /\ IF sess'.status = "STOPPED" THEN nextOp' = 0 ELSE nextOp' = 1
         /\ nextOp' = nextOp + 1 => nextOp' = 1
  <1>1. CASE sess'.status = sess.status /\ nextOp' = nextOp
    BY <1>1
  <1>2. CASE sess.status = "STOPPED" /\ sess'.status = "PROVISIONING" /\ nextOp' = nextOp + 1
    BY <1>2
  <1>3. CASE /\ sess.status \notin TERMINAL_STATES
             /\ sess'.status \in TRANSITIONS[sess.status] /\ nextOp' = nextOp
    <2>1. sess.status \in ACTIVE_STATES \cup {"STOPPING", "FAILED_CLEANUP"}
      BY <1>3 DEF TypeOK, Session, SESSION_STATES, CAPACITY_STATES, CLEANUP_STATES
    <2>2. "STOPPED" \notin CAPACITY_STATES
      BY DEF CAPACITY_STATES, ACTIVE_STATES, CLEANUP_STATES
    <2>3. sess'.status # "STOPPED"
      BY <1>3, <2>1, <2>2, TableFacts
    <2>4. sess.status # "STOPPED"
      BY <1>3 DEF TERMINAL_STATES
    <2> QED
      BY <1>3, <2>3, <2>4
  <1> QED
    BY <1>1, <1>2, <1>3 DEF StatusStep

(* Every step keeps ClaimInv. *)
LEMMA ClaimInvStep ==
  ASSUME TypeOK, OperationInv, ClaimInv, [Next]_vars
  PROVE  ClaimInv'
  <1>1. CASE UNCHANGED vars
    BY <1>1 DEF vars, ClaimInv
  <1>2. CASE Next
    <2>1. /\ IF sess'.status = "STOPPED" THEN nextOp' = 0 ELSE nextOp' = 1
          /\ nextOp' = nextOp + 1 => nextOp' = 1
      BY <1>2, SessionSteps, ClaimCountStep DEF ClaimInv
    <2>2. ASSUME NEW p \in Procs, ProcStep(p) PROVE ClaimInv'
      <3>1. ASSUME NEW q \in Procs, pc'[q] \in CreateSteps PROVE myop'[q] = 1
        BY <2>1, <2>2, <3>1, OthersStay, CreateStepsEntered DEF ClaimInv
      <3>2. srvs' \subseteq {1}
        BY <2>2, ResourcesAppear DEF ClaimInv, CreateSteps
      <3>3. vols' \subseteq vols \/ (vols' \subseteq {1} /\ NoOp \notin vols')
        BY <2>2, ResourcesAppear DEF ClaimInv, CreateSteps, NoOp
      <3>4. vols' \subseteq {1} \/ vols' = {NoOp}
        BY <3>3 DEF ClaimInv
      <3>5. ASSUME NEW q \in Procs, pc'[q] = "createVol" PROVE NoOp \notin vols'
        BY <2>2, <3>3, <3>5, OthersStay, ResourcesAppear DEF ClaimInv
      <3> QED
        BY <2>1, <3>1, <3>2, <3>4, <3>5 DEF ClaimInv
    <2>3. CASE NodeStep \/ LeaseStep \/ ServerVanishes
      <3>1. pc' = pc /\ myop' = myop /\ vols' = vols /\ srvs' \subseteq srvs
        BY <2>3 DEF NodeStep, NodeReady, IngestObservation, PipelineFailure,
                    ProvisioningGrowsOld, LeaseStep, LeaseExpires, HolderStalls,
                    ServerVanishes, local, provider
      <3> QED
        BY <2>1, <3>1 DEF ClaimInv
    <2> QED
      BY <1>2, <2>2, <2>3, NextCases
  <1> QED
    BY <1>1, <1>2

-----------------------------------------------------------------------------
(* The theorems *)

(* The inductive invariant: types, the lease discipline, the operation and the
   single claim hold in every reachable state, for any number of workers,
   reapers and faults. *)
THEOREM InvHolds == Spec => []Inv
  <1>1. Init => Inv
    <2> SUFFICES ASSUME Init PROVE Inv
      OBVIOUS
    <2>1. TypeOK
      BY TypeInit
    <2>2. LeaseInv
      BY DEF Init, LeaseInv, NoLease, DeleteCalls
    <2>3. OperationInv
      BY DEF Init, OperationInv, NewSession
    <2>4. ClaimInv
      BY LeftoversAssumption DEF Init, ClaimInv, NewSession, CreateSteps, NoOp
    <2> QED
      BY <2>1, <2>2, <2>3, <2>4 DEF Inv
  <1>2. Inv /\ [Next]_vars => Inv'
    BY TypeStep, LeaseInvStep, OperationInvStep, ClaimInvStep DEF Inv
  <1> QED
    BY <1>1, <1>2, PTL DEF Spec

(* Every reachable state is well typed. *)
THEOREM TypeCorrect == Spec => []TypeOK
  <1>1. Inv => TypeOK
    BY DEF Inv
  <1> QED
    BY <1>1, InvHolds, PTL

(* No provider delete is ever in flight while the Session is active: the
   sender holds a live lease, and a live lease keeps the Session out of the
   active states because claim_provisioning refuses to start under it. *)
THEOREM DeletesSpareActive == Spec => []NoDeleteWhileActive
  <1>1. Inv => NoDeleteWhileActive
    BY DEF Inv, LeaseInv, NoDeleteWhileActive, Ended, CLEANUP_STATES, TERMINAL_STATES,
           ACTIVE_STATES
  <1> QED
    BY <1>1, InvHolds, PTL

(* At most one process has a provider delete in flight: both would hold the
   one live lease. *)
THEOREM DeletesExclusive == Spec => []OneDestroyer
  <1>1. Inv => OneDestroyer
    BY DEF Inv, LeaseInv, OneDestroyer
  <1> QED
    BY <1>1, InvHolds, PTL

(* The provider never lists two servers or two volumes for the Session: it is
   claimed once, and only the claimer creates. *)
THEOREM SingleVps == Spec => []AtMostOneVps
  <1>1. Inv => AtMostOneVps
    BY DEF Inv, ClaimInv, AtMostOneVps, NoOp
  <1> QED
    BY <1>1, InvHolds, PTL

(* Every write of the status moves along the TRANSITIONS table. *)
THEOREM TableRespected == Spec => StatusFollowsTable
  <1>1. Inv /\ [Next]_vars =>
          [sess'.status # sess.status => sess'.status \in TRANSITIONS[sess.status]]_vars
    <2> SUFFICES ASSUME Inv, Next, sess'.status # sess.status
                 PROVE  sess'.status \in TRANSITIONS[sess.status]
      OBVIOUS
    <2>1. StatusStep
      BY SessionSteps DEF Inv
    <2> QED
      BY <2>1, TableFacts DEF StatusStep
  <1> QED
    BY <1>1, InvHolds, PTL DEF Spec, StatusFollowsTable

-----------------------------------------------------------------------------
(* The refinement of SessionContract *)

(* The phase of each status. *)
LEMMA PhaseValues ==
  ASSUME TypeOK
  PROVE  /\ Phase = "new" <=> sess.status = "STOPPED"
         /\ Phase = "running" <=> sess.status \in ACTIVE_STATES
         /\ Phase = "ending" <=> sess.status \in CLEANUP_STATES
         /\ Phase = "over" <=> sess.status \in {"FINISHED", "FAILED"}
  <1>1. sess.status \in SESSION_STATES
    BY DEF TypeOK, Session
  <1> QED
    BY <1>1 DEF Phase, SESSION_STATES, CAPACITY_STATES, ACTIVE_STATES, CLEANUP_STATES,
                TERMINAL_STATES

(* The destroyer is the process whose delete is in flight. *)
LEMMA DestroyerIs ==
  ASSUME OneDestroyer
  PROVE  /\ \A p \in Procs : pc[p] \in DeleteCalls => Destroyer = p
         /\ (\A p \in Procs : pc[p] \notin DeleteCalls) => Destroyer = "none"
  <1>1. ASSUME NEW p \in Procs, pc[p] \in DeleteCalls PROVE Destroyer = p
    <2>1. PICK q \in Procs : pc[q] \in DeleteCalls /\ Destroyer = q
      BY <1>1 DEF Destroyer
    <2> QED
      BY <1>1, <2>1 DEF OneDestroyer
  <1>2. ASSUME \A p \in Procs : pc[p] \notin DeleteCalls PROVE Destroyer = "none"
    BY <1>2 DEF Destroyer
  <1> QED
    BY <1>1, <1>2

(* A delete that returns, or whose sender crashes, does not touch the record. *)
LEMMA DeleteReturns ==
  ASSUME NEW p \in Procs, ProcStep(p), pc[p] \in DeleteCalls
  PROVE  UNCHANGED sess
  BY DEF ProcStep, DeleteCalls, store, Begin, Sweep,
         CleanupStep, RevokeSession, ClaimSessionCleanup, ListServers, NextDelete, ServerCall,
         RelistVolumes, VolumeCall, SettleStop, SettleFailing, SettleCancelledGet,
         SettleCancelled, ReleaseSessionCleanup,
         PrepareStep, ClaimSession, FindVolume, CreateVolume, CheckpointVolume, FindServer,
         CreateServer, CheckpointServer, CheckpointBootstrapping, CheckpointReady,
         LostOperation, ProvisioningFailed, FailProvisioning, FinishCancelled,
         IssueCredential, Request, PrepareBegin, StopSession, IssueCheck, Crash,
         ReaperStep, SweepRequestStop, DropOverdueOperation, ClaimOrphanCleanup,
         ConfirmOrphan, OrphanCall, ProvisioningTimeout, DeadlineStop,
         HeartbeatFailure, SweepStopping, SweepFailedCleanup, SweepOrphan

(* While the destroyer stays the same, the status moves the phase only
   forward, and starts the Session only when no delete is in flight. *)
LEMMA PhaseStep ==
  ASSUME Inv, TypeOK', OneDestroyer, StatusStep, Destroyer' = Destroyer
  PROVE  [Contract!Next]_<<Phase, Destroyer>>
  <1>1. CASE sess'.status = sess.status
    BY <1>1 DEF Phase
  <1>2. CASE sess.status = "STOPPED" /\ sess'.status = "PROVISIONING" /\ ~lease.live
    <2>1. Destroyer = "none"
      BY <1>2, DestroyerIs DEF Inv, LeaseInv
    <2>2. Phase = "new"
      BY <1>2, PhaseValues DEF Inv
    <2>3. Phase' = "running"
      BY <1>2 DEF Phase, ACTIVE_STATES, CLEANUP_STATES
    <2> QED
      BY <2>1, <2>2, <2>3 DEF Contract!Next, Contract!Start
  <1>3. CASE sess.status \in ACTIVE_STATES /\ sess'.status \in TRANSITIONS[sess.status]
    <2>1. Phase = "running"
      BY <1>3, PhaseValues DEF Inv
    <2>2. sess'.status \in ACTIVE_STATES \/ sess'.status \in CLEANUP_STATES
      BY <1>3, TableFacts DEF CAPACITY_STATES
    <2>3. Phase' = "running" \/ Phase' = "ending"
      BY <2>2 DEF Phase, ACTIVE_STATES, CLEANUP_STATES
    <2> QED
      BY <2>1, <2>3 DEF Contract!Next, Contract!End
  <1>4. CASE sess.status \in CLEANUP_STATES /\ sess'.status \in TRANSITIONS[sess.status]
    <2>1. Phase = "ending"
      BY <1>4, PhaseValues DEF Inv
    <2>2. sess'.status \in CLEANUP_STATES \/ sess'.status \in {"FINISHED", "FAILED"}
      BY <1>4, TableFacts DEF CLEANUP_STATES
    <2>3. Phase' = "ending" \/ Phase' = "over"
      BY <2>2 DEF Phase, ACTIVE_STATES, CLEANUP_STATES
    <2> QED
      BY <2>1, <2>3 DEF Contract!Next, Contract!Close
  <1>5. sess.status \notin TERMINAL_STATES =>
          sess.status \in ACTIVE_STATES \/ sess.status \in CLEANUP_STATES
    BY DEF Inv, TypeOK, Session, SESSION_STATES, CAPACITY_STATES
  <1> QED
    BY <1>1, <1>2, <1>3, <1>4, <1>5 DEF StatusStep

(* Every step of the system is a step of the contract or leaves it alone. *)
LEMMA ContractStep ==
  ASSUME Inv, Inv', OneDestroyer, OneDestroyer', [Next]_vars
  PROVE  [Contract!Next]_<<Phase, Destroyer>>
  <1> USE DEF Inv
  <1>1. CASE UNCHANGED vars
    <2>1. Phase' = Phase
      BY <1>1 DEF vars, Phase
    <2>2. Destroyer' = Destroyer
      BY <1>1 DEF vars, Destroyer
    <2> QED
      BY <2>1, <2>2
  <1>2. CASE Next
    <2>0. StatusStep
      BY <1>2, SessionSteps
    <2>1. ASSUME NEW p \in Procs, ProcStep(p)
          PROVE  [Contract!Next]_<<Phase, Destroyer>>
      <3>1. \A q \in Procs : q # p => pc'[q] = pc[q]
        BY <2>1, OthersStay
      <3>2. CASE pc[p] \in DeleteCalls
        <4>1. sess' = sess /\ Destroyer = p
          BY <2>1, <3>2, DeleteReturns, DestroyerIs
        <4>2. pc'[p] \notin DeleteCalls
          BY <2>1, <3>2, DeleteNeedsLease
        <4>3. \A q \in Procs : pc'[q] \notin DeleteCalls
          BY <3>1, <3>2, <4>2 DEF OneDestroyer
        <4>4. Destroyer' = "none"
          BY <4>3 DEF Destroyer
        <4>5. Phase' = Phase
          BY <4>1 DEF Phase
        <4> QED
          BY <4>1, <4>4, <4>5, ProcsAssumption DEF Contract!Next, Contract!EndDelete
      <3>3. CASE pc[p] \notin DeleteCalls /\ pc'[p] \in DeleteCalls
        <4>1. lease.live /\ lease.holder = p /\ sess' = sess
          BY <2>1, <3>3, DeleteNeedsLease
        <4>2. \A q \in Procs : pc[q] \notin DeleteCalls
          BY <3>3, <4>1 DEF LeaseInv
        <4>3. Destroyer = "none"
          BY <4>2, DestroyerIs
        <4>4. \A q \in Procs : q # p => pc'[q] \notin DeleteCalls
          BY <3>1, <4>2
        <4>5. Destroyer' = p
          <5>1. PICK q \in Procs : pc'[q] \in DeleteCalls /\ Destroyer' = q
            BY <3>3 DEF Destroyer
          <5> QED
            BY <4>4, <5>1
        <4>6. Phase' = Phase
          BY <4>1 DEF Phase
        <4>7. Phase # "running"
          BY <4>1, PhaseValues DEF LeaseInv, Ended, CLEANUP_STATES, TERMINAL_STATES, ACTIVE_STATES
        <4> QED
          BY <4>3, <4>5, <4>6, <4>7 DEF Contract!Next, Contract!BeginDelete
      <3>4. CASE pc[p] \notin DeleteCalls /\ pc'[p] \notin DeleteCalls
        <4>1. \A q \in Procs : (pc'[q] \in DeleteCalls) <=> (pc[q] \in DeleteCalls)
          BY <3>1, <3>4
        <4>2. CASE \A q \in Procs : pc[q] \notin DeleteCalls
          <5>1. Destroyer = "none"
            BY <4>2 DEF Destroyer
          <5>2. Destroyer' = "none"
            BY <4>1, <4>2 DEF Destroyer
          <5> QED
            BY <2>0, <5>1, <5>2, PhaseStep
        <4>3. ASSUME NEW q \in Procs, pc[q] \in DeleteCalls
              PROVE  [Contract!Next]_<<Phase, Destroyer>>
          <5>1. Destroyer = q
            BY <4>3, DestroyerIs
          <5>2. pc'[q] \in DeleteCalls
            BY <4>1, <4>3
          <5>3. Destroyer' = q
            <6>1. PICK r \in Procs : pc'[r] \in DeleteCalls /\ Destroyer' = r
              BY <5>2 DEF Destroyer
            <6> QED
              BY <5>2, <6>1 DEF OneDestroyer
          <5> QED
            BY <2>0, <5>1, <5>3, PhaseStep
        <4> QED
          BY <4>2, <4>3
      <3> QED
        BY <3>2, <3>3, <3>4
    <2>2. CASE NodeStep \/ LeaseStep \/ ServerVanishes
      <3>1. pc' = pc
        BY <2>2 DEF NodeStep, NodeReady, IngestObservation, PipelineFailure,
                    ProvisioningGrowsOld, LeaseStep, LeaseExpires, HolderStalls,
                    ServerVanishes, local
      <3>2. Destroyer' = Destroyer
        BY <3>1 DEF Destroyer
      <3> QED
        BY <2>0, <3>2, PhaseStep
    <2> QED
      BY <1>2, <2>1, <2>2, NextCases
  <1> QED
    BY <1>1, <1>2

(* SessionLifecycle implements SessionContract: a Session runs at most once,
   its ending is final, deletes are exclusive and never overlap its running. *)
THEOREM Refinement == Spec => ImplementsContract
  <1>1. Init => Contract!Init
    <2> SUFFICES ASSUME Init PROVE Contract!Init
      OBVIOUS
    <2>1. Phase = "new"
      BY TypeInit, PhaseValues DEF Init, NewSession
    <2>2. Destroyer = "none"
      BY DEF Init, Destroyer, DeleteCalls
    <2> QED
      BY <2>1, <2>2 DEF Contract!Init
  <1>2. Inv => OneDestroyer
    BY DEF Inv, LeaseInv, OneDestroyer
  <1>3. Inv /\ Inv' /\ OneDestroyer /\ OneDestroyer' /\ [Next]_vars
          => [Contract!Next]_<<Phase, Destroyer>>
    BY ContractStep
  <1> QED
    BY <1>1, <1>2, <1>3, InvHolds, PTL DEF Spec, ImplementsContract, Contract!Spec

-----------------------------------------------------------------------------
(* One prepare request *)

(* The calls of prepare are entered by a preparing worker, the calls for an
   orphan by an orphan job, and an orphan's delete under an orphan lease. *)
LEMMA CallsEntered ==
  ASSUME TypeOK, CallInv, NEW p \in Procs, ProcStep(p)
  PROVE  /\ pc'[p] \in PrepareSteps => p \in Preparers
         /\ job'[p] = "finish" => p \in Preparers
         /\ pc'[p] \in {"revokeOnly", "revokeDrop", "requestStop"} => job'[p] # "failing"
         /\ pc'[p] \in {"orphanClaim", "orphanList", "orphanCall"} =>
              job'[p] \in {"orphanSrv", "orphanVol"}
         /\ pc'[p] = "orphanCall" => lease.scope = "orphan" /\ lease' = lease
  <1> USE DEF TypeOK, LocalType, CallInv, PrepareSteps, store,
              Goto, Done, Begin, Sweep, Continue, Raise, Finish
  <1>1. CASE CleanupStep(p)
    BY <1>1 DEF CleanupStep, RevokeSession, RevokeFailed, ClaimSessionCleanup,
             ListServers, ListRaises, NextDelete, ServerCall, RelistVolumes, VolumeCall,
             SettleStop, SettleStopping, SettleFailing, SettleCancelledGet, SettleCancelled,
             ReleaseSessionCleanup
  <1>2. CASE PrepareStep(p)
    BY <1>2 DEF PrepareStep, ClaimSession, FindVolume, CreateVolume, CheckpointVolume,
             FindServer, CreateServer, CheckpointServer, CheckpointBootstrapping,
             CheckpointReady, LostOperation, ProvisioningFailed, FailProvisioning,
             FinishCancelled, IssueCredential
  <1>3. CASE Request(p) \/ Crash(p)
    BY <1>3 DEF Request, PrepareBegin, StopSession, IssueCheck, Crash
  <1>4. CASE ReaperStep(p)
    BY <1>4 DEF ReaperStep, SweepRequestStop, StopRevoke, DropOverdueOperation,
             ClaimOrphanCleanup, ConfirmOrphan, OrphanCall,
             OrphanConfirmed, OrphanCleanupStillOwned
  <1>5. CASE \/ ProvisioningTimeout(p) \/ DeadlineStop(p) \/ HeartbeatFailure(p)
             \/ SweepStopping(p) \/ SweepFailedCleanup(p) \/ SweepOrphan(p)
    BY <1>5 DEF ProvisioningTimeout, DeadlineStop, StopRevoke, HeartbeatFailure,
             SweepStopping, SweepFailedCleanup, SweepOrphan
  <1> QED
    BY <1>1, <1>2, <1>3, <1>4, <1>5 DEF ProcStep

(* The steps around the processes leave the processes and what they hold. *)
LEMMA ProcsRest ==
  ASSUME NodeStep \/ LeaseStep \/ ServerVanishes
  PROVE  /\ UNCHANGED <<pc, job, myop, ok, todo, vols>>
         /\ srvs' \subseteq srvs
  BY DEF NodeStep, NodeReady, IngestObservation, PipelineFailure,
                    ProvisioningGrowsOld, LeaseStep, LeaseExpires, HolderStalls,
                    ServerVanishes, local, provider, store

(* Every step keeps CallInv. *)
LEMMA CallInvStep ==
  ASSUME TypeOK, OperationInv, LeaseInv, CallInv, [Next]_vars
  PROVE  CallInv'
  <1>1. CASE UNCHANGED vars
    BY <1>1 DEF vars, CallInv
  <1>2. CASE Next
    <2>1. ASSUME NEW p \in Procs, ProcStep(p) PROVE CallInv'
      <3>1. ASSUME NEW q \in Procs
            PROVE  /\ pc'[q] \in PrepareSteps => q \in Preparers
                   /\ job'[q] = "finish" => q \in Preparers
                   /\ pc'[q] \in {"revokeOnly", "revokeDrop", "requestStop"} => job'[q] # "failing"
                   /\ pc'[q] \in {"orphanClaim", "orphanList", "orphanCall"} =>
                        job'[q] \in {"orphanSrv", "orphanVol"}
        BY <2>1, OthersStay, CallsEntered DEF CallInv
      <3>2. ASSUME NEW q \in Procs, pc'[q] = "orphanCall" PROVE lease'.scope = "orphan"
        <4>1. CASE q = p
          BY <2>1, <3>2, <4>1, CallsEntered
        <4>2. CASE q # p
          <5>1. pc[q] = "orphanCall" /\ lease.scope = "orphan"
            BY <2>1, <3>2, <4>2, OthersStay DEF CallInv
          <5>2. lease.live /\ lease.holder = q
            BY <5>1 DEF LeaseInv, DeleteCalls
          <5>3. lease' = lease
            BY <2>1, <4>2, <5>2, LeaseMoves
            DEF LeaseMove, CanClaimSessionCleanup, CanClaimOrphanCleanup, LeaseActive, ReleaseLease
          <5> QED
            BY <5>1, <5>3
        <4> QED
          BY <4>1, <4>2
      <3> QED
        BY <3>1, <3>2 DEF CallInv
    <2>2. CASE NodeStep \/ LeaseStep \/ ServerVanishes
      <3>1. lease'.scope = lease.scope
        BY <2>2 DEF TypeOK, LeaseType, NodeStep, NodeReady, IngestObservation, PipelineFailure,
                    ProvisioningGrowsOld, LeaseStep, LeaseExpires, HolderStalls,
                    ServerVanishes, local, provider, store
      <3> QED
        BY <2>2, <3>1, ProcsRest DEF CallInv
    <2> QED
      BY <1>2, <2>1, <2>2, NextCases
  <1> QED
    BY <1>1, <1>2

(* A process claims the Session for its operation. *)
Claims(p) ==
  /\ pc[p] = "claim" /\ pc'[p] = "findVol"
  /\ sess.status = "STOPPED" /\ sess'.status = "PROVISIONING"
  /\ sess'.op = nextOp' /\ sess'.inProgress /\ ~sess'.overdue
  /\ sess'.server = sess.server

(* A preparing worker has left the steps that create resources. *)
PastCreating(p) == pc[p] \in PrepareSteps \ (CreateSteps \cup {"claim"})

(* What a process may do to the fields of the record that OwnerInv reads. *)
LEMMA FieldsStep ==
  ASSUME TypeOK, OperationInv, NEW p \in Procs, ProcStep(p)
  PROVE  \/ Claims(p)
         \/ /\ sess'.overdue = sess.overdue
            /\ sess'.server = sess.server \/ (pc[p] = "ckSrv" /\ pc'[p] \notin CreateSteps)
            /\ \/ sess'.op = sess.op /\ sess'.inProgress = sess.inProgress
               \/ sess'.op = NoOp /\ (Cleaning(p) \/ PastCreating(p) \/ sess.overdue)
               \/ pc[p] = "drop" /\ sess'.op = NoOp
            /\ \/ sess'.status = sess.status
               \/ sess'.status = "STOPPING"
               \/ Cleaning(p) \/ PastCreating(p) \/ sess.server
               \/ sess'.op = NoOp
  <1> DEFINE Kept == /\ sess'.overdue = sess.overdue
                     /\ sess'.server = sess.server \/ (pc[p] = "ckSrv" /\ pc'[p] \notin CreateSteps)
                     /\ \/ sess'.op = sess.op /\ sess'.inProgress = sess.inProgress
                        \/ sess'.op = NoOp /\ (Cleaning(p) \/ PastCreating(p) \/ sess.overdue)
                        \/ pc[p] = "drop" /\ sess'.op = NoOp
                     /\ \/ sess'.status = sess.status
                        \/ sess'.status = "STOPPING"
                        \/ Cleaning(p) \/ PastCreating(p) \/ sess.server
                        \/ sess'.op = NoOp
  <1>t. sess \in Session
    BY DEF TypeOK
  <1>0. CASE UNCHANGED sess
    BY <1>0
  <1>1. CASE ClaimSession(p) /\ ~UNCHANGED sess
    <2>1. /\ sess' = ClaimProvisioning(sess, nextOp') /\ pc[p] = "claim"
          /\ ClaimableStatus(sess) /\ ~AlreadyProvisioning(sess) /\ Goto(p, "findVol")
      BY <1>1 DEF ClaimSession
    <2>2. sess.status = "STOPPED"
      BY <2>1 DEF ClaimableStatus, AlreadyProvisioning, OperationInv
    <2>3. /\ sess'.status = "PROVISIONING" /\ sess'.op = nextOp' /\ sess'.inProgress
          /\ ~sess'.overdue /\ sess'.server = sess.server
      BY <2>1, <1>t DEF ClaimProvisioning, Session
    <2>4. pc'[p] = "findVol"
      BY <2>1 DEF Goto, TypeOK, LocalType
    <2> QED
      BY <2>1, <2>2, <2>3, <2>4 DEF Claims
  <1>2. CASE CheckpointServer(p) /\ ~UNCHANGED sess
    <2>1. /\ sess' = [sess EXCEPT !.server = TRUE] /\ pc[p] = "ckSrv"
          /\ pc'[p] \in {"finish", "ckBoot"}
      BY <1>2 DEF CheckpointServer, Finish, Continue, Goto, TypeOK, LocalType
    <2> QED
      BY <2>1, <1>t DEF Session, CreateSteps
  <1>3. CASE (CheckpointBootstrapping(p) \/ CheckpointReady(p) \/ FailProvisioning(p)) /\ ~UNCHANGED sess
    <2>1. PastCreating(p)
      BY <1>3 DEF CheckpointBootstrapping, CheckpointReady, FailProvisioning, PastCreating,
                  PrepareSteps, CreateSteps
    <2>2. \/ sess' = Advance(sess, "BOOTSTRAPPING")
          \/ sess' = Complete(Advance(sess, "READY_WAIT_INGEST"))
          \/ sess' = DropOperation(MarkFailed(sess))
      BY <1>3 DEF CheckpointBootstrapping, CheckpointReady, FailProvisioning
    <2> QED
      BY <2>1, <2>2, <1>t DEF Session, Advance, Complete, DropOperation, MarkFailed
  <1>4. CASE (StopSession(p) \/ DeadlineStop(p) \/ SweepRequestStop(p)) /\ ~UNCHANGED sess
    <2>1. sess' = RequestStop(sess)
      BY <1>4 DEF StopSession, DeadlineStop, SweepRequestStop
    <2> QED
      BY <2>1, <1>t DEF Session, RequestStop
  <1>5. CASE (SettleStop(p) \/ SettleFailing(p) \/ SettleCancelled(p)) /\ ~UNCHANGED sess
    <2>1. Cleaning(p)
      BY <1>5 DEF SettleStop, SettleFailing, SettleCancelled, Cleaning
    <2>2. \/ sess' = MarkFinished(sess)
          \/ sess' = DropOperation(MarkFailed(sess))
          \/ sess' = ClearCancel(DropOperation(MarkFailed(sess)))
          \/ sess' = CloseFailed(sess)
          \/ sess' = ClearCancel(DropOperation(CloseFailed(sess)))
          \/ sess' = ClearCancel(DropOperation([sess EXCEPT !.pending = TRUE]))
      BY <1>5 DEF SettleStop, SettleFailing, SettleCancelled, SettleStopping
    <2> QED
      BY <2>1, <2>2, <1>t DEF Session, MarkFinished, DropOperation, MarkFailed, ClearCancel, CloseFailed
  <1>6. CASE ProvisioningTimeout(p) \/ DropOverdueOperation(p)
    <2>1. \/ sess.overdue /\ sess' = [DropOperation(MarkFailed(sess)) EXCEPT !.cancel = TRUE]
          \/ pc[p] = "drop" /\ sess' = DropOperation(sess)
      BY <1>6 DEF ProvisioningTimeout, DropOverdueOperation
    <2> QED
      BY <2>1, <1>t DEF Session, DropOperation, MarkFailed
  <1>7. CASE HeartbeatFailure(p)
    BY <1>7, <1>t DEF HeartbeatFailure, Session, MarkFailed
  <1> QED
    BY <1>0, <1>1, <1>2, <1>3, <1>4, <1>5, <1>6, <1>7, SessionUntouched
    DEF ProcStep, CleanupStep, PrepareStep, Request, ReaperStep

(* A process begins to clean up only when no provisioning is in progress, or
   after it has taken the operation away, or the Session has failed; or it is
   the worker itself, past the steps that create. *)
LEMMA CleaningEntered ==
  ASSUME TypeOK, OperationInv, CallInv, NEW p \in Procs, ProcStep(p), Cleaning(p)'
  PROVE  \/ Cleaning(p)
         \/ ~sess.inProgress /\ sess'.status = "STOPPING"
         \/ sess'.op = NoOp /\ sess'.status \in Ended
         \/ sess.status = "FAILED_CLEANUP" /\ sess' = sess
         \/ PastCreating(p) /\ sess'.status \in CLEANUP_STATES
  <1> USE DEF TypeOK, LocalType, Cleaning, Goto, Done, Begin, Sweep, Continue, Raise, Finish
  <1>1. CASE CleanupStep(p)
    BY <1>1 DEF CleanupStep, RevokeSession, RevokeFailed, ClaimSessionCleanup,
             ListServers, ListRaises, NextDelete, ServerCall, RelistVolumes, VolumeCall,
             SettleStop, SettleStopping, SettleFailing, SettleCancelledGet, SettleCancelled,
             ReleaseSessionCleanup, CallInv
  <1>2. CASE PrepareStep(p)
    <2>1. CASE FinishCancelled(p)
      BY <2>1 DEF FinishCancelled, PastCreating, PrepareSteps, CreateSteps, store
    <2>2. CASE FailProvisioning(p)
      <3>1. PastCreating(p)
        BY <2>2 DEF FailProvisioning, PastCreating, PrepareSteps, CreateSteps
      <3>2. sess' = DropOperation(MarkFailed(sess))
        BY <2>2 DEF FailProvisioning
      <3> QED
        BY <3>1, <3>2, Writes DEF CLEANUP_STATES
    <2>3. CASE ~FinishCancelled(p) /\ ~FailProvisioning(p)
      BY <1>2, <2>3 DEF PrepareStep, ClaimSession, FindVolume, CreateVolume, CheckpointVolume,
             FindServer, CreateServer, CheckpointServer, CheckpointBootstrapping,
             CheckpointReady, LostOperation, ProvisioningFailed, IssueCredential
    <2> QED
      BY <2>1, <2>2, <2>3
  <1>3. CASE Request(p) \/ Crash(p)
    BY <1>3, Writes DEF Request, PrepareBegin, StopSession, IssueCheck, Crash
  <1>4. CASE ReaperStep(p)
    <2>1. CASE SweepRequestStop(p)
      BY <2>1, Writes DEF SweepRequestStop, StopRevoke
    <2>2. CASE DropOverdueOperation(p)
      BY <2>2, Writes DEF DropOverdueOperation, DropOperation, OperationInv, Session
    <2>3. CASE ClaimOrphanCleanup(p) \/ ConfirmOrphan(p) \/ OrphanCall(p)
      BY <2>3 DEF ClaimOrphanCleanup, ConfirmOrphan, OrphanCall, CallInv
    <2> QED
      BY <1>4, <2>1, <2>2, <2>3 DEF ReaperStep
  <1>5. CASE ProvisioningTimeout(p)
    BY <1>5 DEF ProvisioningTimeout, DropOperation, MarkFailed, Session, Ended, CLEANUP_STATES
  <1>6. CASE DeadlineStop(p)
    BY <1>6, Writes DEF DeadlineStop, StopRevoke
  <1>7. CASE HeartbeatFailure(p) \/ SweepStopping(p) \/ SweepFailedCleanup(p) \/ SweepOrphan(p)
    BY <1>7 DEF HeartbeatFailure, SweepStopping, SweepFailedCleanup, SweepOrphan, store
  <1> QED
    BY <1>1, <1>2, <1>3, <1>4, <1>5, <1>6, <1>7 DEF ProcStep

(* The reaper is about to take an operation away only when it found it
   overdue, and only from a Session that stays claimed. *)
LEMMA DropEntered ==
  ASSUME TypeOK, OwnerInv, NEW p \in Procs, ProcStep(p), pc'[p] \in {"revokeDrop", "drop"}
  PROVE  sess.overdue /\ ~Claims(p)
  <1> USE DEF TypeOK, LocalType, OwnerInv, Claims, Goto, Done, Begin, Sweep, Continue, Raise, Finish
  <1>1. CASE CleanupStep(p)
    BY <1>1 DEF CleanupStep, RevokeSession, RevokeFailed, ClaimSessionCleanup,
             ListServers, ListRaises, NextDelete, ServerCall, RelistVolumes, VolumeCall,
             SettleStop, SettleStopping, SettleFailing, SettleCancelledGet, SettleCancelled,
             ReleaseSessionCleanup
  <1>2. CASE PrepareStep(p)
    BY <1>2 DEF PrepareStep, ClaimSession, FindVolume, CreateVolume, CheckpointVolume,
             FindServer, CreateServer, CheckpointServer, CheckpointBootstrapping,
             CheckpointReady, LostOperation, ProvisioningFailed, FailProvisioning,
             FinishCancelled, IssueCredential
  <1>3. CASE Request(p) \/ Crash(p)
    BY <1>3 DEF Request, PrepareBegin, StopSession, IssueCheck, Crash
  <1>4. CASE ReaperStep(p)
    BY <1>4 DEF ReaperStep, SweepRequestStop, StopRevoke, DropOverdueOperation,
             ClaimOrphanCleanup, ConfirmOrphan, OrphanCall
  <1>5. CASE \/ ProvisioningTimeout(p) \/ DeadlineStop(p) \/ HeartbeatFailure(p)
             \/ SweepStopping(p) \/ SweepFailedCleanup(p) \/ SweepOrphan(p)
    BY <1>5 DEF ProvisioningTimeout, DeadlineStop, StopRevoke, HeartbeatFailure,
             SweepStopping, SweepFailedCleanup, SweepOrphan
  <1> QED
    BY <1>1, <1>2, <1>3, <1>4, <1>5 DEF ProcStep

(* The worker enters the steps that create resources by its claim only. *)
LEMMA CreateByClaim ==
  ASSUME TypeOK, OperationInv, NEW p \in Procs, ProcStep(p),
         pc'[p] \in CreateSteps, pc[p] \notin CreateSteps
  PROVE  Claims(p) /\ nextOp' = nextOp + 1
  <1> USE DEF CreateSteps
  <1>1. nextOp' = nextOp + 1
    BY CreateStepsEntered
  <1>2. ClaimSession(p)
    BY <1>1, SessionUntouched DEF TypeOK, ProcStep, CleanupStep, PrepareStep, Request, ReaperStep,
       CheckpointServer, CheckpointBootstrapping, CheckpointReady, FailProvisioning, StopSession,
       SettleStop, SettleFailing, SettleCancelled, ProvisioningTimeout, DeadlineStop,
       HeartbeatFailure, SweepRequestStop, DropOverdueOperation
  <1>3. ~UNCHANGED sess
    <2>1. /\ sess' = ClaimProvisioning(sess, nextOp')
          /\ ~AlreadyProvisioning(sess)
      BY <1>1, <1>2 DEF ClaimSession, TypeOK
    <2>2. sess'.op = nextOp' /\ sess.op = NoOp /\ nextOp' # NoOp
      BY <1>1, <2>1 DEF ClaimProvisioning, AlreadyProvisioning, TypeOK, Session, NoOp
    <2> QED
      BY <2>2
  <1>4. /\ sess' = ClaimProvisioning(sess, nextOp') /\ pc[p] = "claim"
        /\ ClaimableStatus(sess) /\ ~AlreadyProvisioning(sess) /\ Goto(p, "findVol")
    BY <1>2, <1>3 DEF ClaimSession
  <1>5. sess.status = "STOPPED"
    BY <1>4 DEF ClaimableStatus, AlreadyProvisioning, OperationInv
  <1>6. /\ sess'.status = "PROVISIONING" /\ sess'.op = nextOp' /\ sess'.inProgress
        /\ ~sess'.overdue /\ sess'.server = sess.server
    BY <1>4 DEF ClaimProvisioning, Session, TypeOK
  <1>7. pc'[p] = "findVol"
    BY <1>4 DEF Goto, TypeOK, LocalType
  <1> QED
    BY <1>1, <1>4, <1>5, <1>6, <1>7 DEF Claims
(* A worker that creates resources is the only one inside prepare. *)
LEMMA OnlyPreparer ==
  ASSUME SinglePrepare, CallInv, NEW p \in Procs, NEW q \in Procs,
         pc[p] \in PrepareSteps, pc[q] \in CreateSteps
  PROVE  p = q
  BY DEF SinglePrepare, CallInv, PrepareSteps, CreateSteps

(* What the node and the clock may do to the fields that OwnerInv reads. *)
LEMMA NodeFields ==
  ASSUME TypeOK, NodeStep
  PROVE  /\ sess'.server = sess.server /\ sess'.op = sess.op
         /\ sess'.inProgress = sess.inProgress
         /\ sess'.overdue = sess.overdue \/ (sess'.overdue /\ sess.op # NoOp)
         /\ \/ sess'.status = sess.status
            \/ sess.status \notin {"STOPPED", "PROVISIONING", "STOPPING"}
            \/ sess.server
  BY DEF TypeOK, Session, NodeStep, NodeReady, IngestObservation, PipelineFailure,
         ProvisioningGrowsOld, Advance, MarkFailed

(* A Session that is not new stays so. *)
LEMMA NewStays ==
  ASSUME TypeOK, StatusStep, sess'.status = "STOPPED"
  PROVE  sess.status = "STOPPED"
  <1>1. sess.status \in SESSION_STATES
    BY DEF TypeOK, Session
  <1> QED
    BY <1>1, TableFacts DEF StatusStep, SESSION_STATES, CAPACITY_STATES, ACTIVE_STATES, CLEANUP_STATES

(* A process that starts to clean up, or goes on, does so on a Session that is
   ending or over. *)
LEMMA CleaningEnds ==
  ASSUME TypeOK, OperationInv, CallInv, OwnerInv, StatusStep, NEW p \in Procs, ProcStep(p),
         NEW q \in Procs, Cleaning(q)'
  PROVE  sess'.status \in Ended
  <1>1. CASE Cleaning(q)
    BY <1>1, EndedStays DEF OwnerInv
  <1>2. CASE q # p
    <2>1. Cleaning(q)
      BY <1>2, OthersStay DEF Cleaning
    <2> QED
      BY <1>1, <2>1
  <1>3. CASE q = p /\ ~Cleaning(p)
    BY <1>3, CleaningEntered DEF Ended, CLEANUP_STATES
  <1> QED
    BY <1>1, <1>2, <1>3

(* A step of a process keeps OwnerInv. *)
LEMMA OwnerInvProc ==
  ASSUME TypeOK, OperationInv, ClaimInv, CallInv, OwnerInv, SinglePrepare,
         StatusStep, NEW p \in Procs, ProcStep(p)
  PROVE  OwnerInv'
  <1>1. sess'.status = "STOPPED" => ~sess'.server /\ ~sess'.overdue /\ sess'.op = NoOp
    <2> SUFFICES ASSUME sess'.status = "STOPPED"
                 PROVE  ~sess'.server /\ ~sess'.overdue /\ sess'.op = NoOp
      OBVIOUS
    <2>1. sess.status = "STOPPED" /\ ~sess.server /\ ~sess.overdue /\ sess.op = NoOp
      BY NewStays DEF OwnerInv
    <2>2. ~Claims(p)
      BY DEF Claims
    <2>3. pc[p] # "ckSrv"
      BY <2>1 DEF OwnerInv, CreateSteps, NoOp
    <2> QED
      BY <2>1, <2>2, <2>3, FieldsStep
  <1>2. ASSUME NEW q \in Procs, pc'[q] \in {"revokeDrop", "drop"} PROVE sess'.overdue
    <2>1. sess.overdue /\ ~Claims(p)
      <3>1. CASE q = p
        BY <1>2, <3>1, DropEntered
      <3>2. CASE q # p
        <4>1. sess.overdue
          BY <1>2, <3>2, OthersStay DEF OwnerInv
        <4> QED
          BY <4>1 DEF OwnerInv, Claims
      <3> QED
        BY <3>1, <3>2
    <2> QED
      BY <2>1, FieldsStep
  <1>3. ASSUME NEW q \in Procs, Cleaning(q)' PROVE sess'.status \in Ended
    BY <1>3, CleaningEnds
  <1>4. ASSUME NEW q \in Procs, pc'[q] \in CreateSteps, pc[q] \notin CreateSteps
        PROVE  /\ ~sess'.server /\ sess'.op = 1 /\ sess'.inProgress
               /\ sess'.status = "PROVISIONING"
    <2>1. q = p
      BY <1>4, OthersStay
    <2>2. Claims(p) /\ nextOp' = nextOp + 1
      BY <1>4, <2>1, CreateByClaim
    <2>3. nextOp' = 1
      BY <2>2, ClaimCountStep DEF ClaimInv
    <2> QED
      BY <2>2, <2>3 DEF Claims, OwnerInv
  <1>5. ASSUME NEW q \in Procs, pc'[q] \in CreateSteps, pc[q] \in CreateSteps
        PROVE  /\ ~sess'.server /\ (sess'.op = 1 \/ sess'.overdue)
               /\ sess'.op = 1 => /\ sess'.inProgress
                                 /\ sess'.status \in {"PROVISIONING", "STOPPING"}
                                 /\ \A r \in Procs : ~Cleaning(r)'
    <2>1. ~PastCreating(p)
      BY <1>5, OnlyPreparer DEF PastCreating
    <2>2. ~Claims(p)
      BY <1>5, OnlyPreparer DEF Claims, PrepareSteps, CreateSteps
    <2>3. pc[p] = "ckSrv" => p = q
      BY <1>5, OnlyPreparer DEF PrepareSteps
    <2>4. ~sess.server /\ (sess.op = 1 \/ sess.overdue)
      BY <1>5 DEF OwnerInv
    <2>5. sess'.overdue = sess.overdue /\ ~sess'.server
      BY <1>5, <2>2, <2>3, <2>4, FieldsStep
    <2>6. sess.op = 1 => ~Cleaning(p)
      BY <1>5 DEF OwnerInv
    <2>7. pc[p] = "drop" => sess.overdue
      BY DEF OwnerInv
    <2>8. sess'.op = 1 \/ sess'.overdue
      BY <2>1, <2>2, <2>4, <2>5, <2>6, <2>7, FieldsStep
    <2>9. ASSUME sess'.op = 1
          PROVE  /\ sess'.inProgress
                 /\ sess'.status \in {"PROVISIONING", "STOPPING"}
                 /\ \A r \in Procs : ~Cleaning(r)'
      <3>0. sess'.op # NoOp
        BY <2>9 DEF NoOp
      <3>1. sess.op = 1 /\ sess'.inProgress = sess.inProgress
        BY <2>2, <2>9, <3>0, FieldsStep
      <3>2. /\ sess.inProgress /\ sess.status \in {"PROVISIONING", "STOPPING"}
            /\ \A r \in Procs : ~Cleaning(r)
        BY <1>5, <3>1 DEF OwnerInv
      <3>3. sess'.status \in {"PROVISIONING", "STOPPING"}
        BY <2>1, <2>2, <2>4, <3>0, <3>2, FieldsStep
      <3>4. ASSUME NEW r \in Procs, Cleaning(r)' PROVE FALSE
        <4>1. CASE r = p
          BY <2>1, <3>0, <3>2, <3>4, <4>1, CleaningEntered
        <4>2. CASE r # p
          BY <3>2, <3>4, <4>2, OthersStay DEF Cleaning
        <4> QED
          BY <4>1, <4>2
      <3> QED
        BY <3>1, <3>2, <3>3, <3>4
    <2> QED
      BY <2>5, <2>8, <2>9
  <1>6. ASSUME NEW q \in Procs, pc'[q] \in CreateSteps, pc[q] \notin CreateSteps
        PROVE  \A r \in Procs : ~Cleaning(r)'
    BY <1>3, <1>4, <1>6 DEF Ended, CLEANUP_STATES
  <1>7. \A q \in Procs : pc'[q] \in CreateSteps => ~sess'.server /\ (sess'.op = 1 \/ sess'.overdue)
    BY <1>4, <1>5
  <1>8. \A q \in Procs : pc'[q] \in CreateSteps /\ sess'.op = 1 =>
          /\ sess'.inProgress
          /\ sess'.status \in {"PROVISIONING", "STOPPING"}
          /\ \A r \in Procs : ~Cleaning(r)'
    BY <1>4, <1>5, <1>6
  <1> QED
    BY <1>1, <1>2, <1>3, <1>7, <1>8 DEF OwnerInv

(* Every step keeps OwnerInv. *)
LEMMA OwnerInvStep ==
  ASSUME TypeOK, OperationInv, ClaimInv, CallInv, OwnerInv, SinglePrepare, [Next]_vars
  PROVE  OwnerInv'
  <1>1. CASE UNCHANGED <<sess, pc, job>>
    BY <1>1 DEF OwnerInv, Cleaning
  <1>2. CASE Next
    <2>0. StatusStep
      BY <1>2, SessionSteps
    <2>1. ASSUME NEW p \in Procs, ProcStep(p) PROVE OwnerInv'
      BY <2>0, <2>1, OwnerInvProc
    <2>2. CASE NodeStep
      <3>1. UNCHANGED <<pc, job>>
        BY <2>2, ProcsRest
      <3>2. \A q \in Procs : Cleaning(q)' <=> Cleaning(q)
        BY <3>1 DEF Cleaning
      <3>3. sess.status \in Ended => sess'.status \in Ended
        BY <2>0, EndedStays
      <3>4. sess'.status = "STOPPED" => ~sess'.server /\ ~sess'.overdue /\ sess'.op = NoOp
        BY <2>0, <2>2, NewStays, NodeFields DEF OwnerInv
      <3>5. \A q \in Procs : pc'[q] \in {"revokeDrop", "drop"} => sess'.overdue
        BY <2>2, <3>1, NodeFields DEF OwnerInv
      <3>6. \A q \in Procs : pc'[q] \in CreateSteps =>
              ~sess'.server /\ (sess'.op = 1 \/ sess'.overdue)
        BY <2>2, <3>1, NodeFields DEF OwnerInv
      <3>7. \A q \in Procs : pc'[q] \in CreateSteps /\ sess'.op = 1 =>
              /\ sess'.inProgress
              /\ sess'.status \in {"PROVISIONING", "STOPPING"}
              /\ \A r \in Procs : ~Cleaning(r)'
        BY <2>2, <3>1, <3>2, NodeFields DEF OwnerInv
      <3> QED
        BY <3>2, <3>3, <3>4, <3>5, <3>6, <3>7 DEF OwnerInv
    <2>3. CASE LeaseStep \/ ServerVanishes
      <3>1. UNCHANGED <<sess, pc, job>>
        BY <2>3 DEF LeaseStep, LeaseExpires, HolderStalls, ServerVanishes, local, store
      <3> QED
        BY <1>1, <3>1
    <2> QED
      BY <1>2, <2>1, <2>2, <2>3, NextCases
  <1> QED
    BY <1>1, <1>2 DEF vars
(* What a process may take its good result for. *)
Result(q) ==
  ok[q] =>
    /\ pc[q] \in {"delVol", "volCall"} => srvs = {} /\ vols \subseteq todo[q]
    /\ pc[q] \in {"settle", "settleStop", "settleFail"} => srvs = {} /\ vols = {}

(* A step of the cleaner itself: the second list shows the servers gone, each
   good delete removes a volume, and a delete that is not good spoils the result. *)
LEMMA ResultOwn ==
  ASSUME TypeOK, NEW p \in Procs, ProcStep(p), Result(p)
  PROVE  Result(p)'
  <1> USE DEF TypeOK, LocalType, Result, provider, Goto, Done, Begin, Sweep, Continue, Raise, Finish
  <1>1. CASE VolumeCall(p)
    <2>1. PICK r \in todo[p], good \in BOOLEAN :
            /\ DeleteVolume(r, good)
            /\ todo' = [todo EXCEPT ![p] = @ \ {r}]
            /\ ok' = [ok EXCEPT ![p] = @ /\ good]
      BY <1>1 DEF VolumeCall
    <2>2. pc[p] = "volCall" /\ pc'[p] = "delVol" /\ srvs' = srvs /\ todo'[p] = todo[p] \ {r}
      BY <1>1, <2>1 DEF VolumeCall
    <2>3. ok'[p] => ok[p] /\ good
      BY <2>1
    <2>4. good => vols' = vols \ {r}
      BY <2>1 DEF DeleteVolume
    <2> QED
      BY <2>2, <2>3, <2>4
  <1>2. CASE CleanupStep(p) /\ ~VolumeCall(p)
    BY <1>2 DEF CleanupStep, RevokeSession, RevokeFailed, ClaimSessionCleanup,
             ListServers, ListRaises, NextDelete, ServerCall, RelistVolumes,
             SettleStop, SettleStopping, SettleFailing, SettleCancelledGet, SettleCancelled,
             ReleaseSessionCleanup
  <1>3. CASE PrepareStep(p)
    BY <1>3 DEF PrepareStep, ClaimSession, FindVolume, CreateVolume, CheckpointVolume,
             FindServer, CreateServer, CheckpointServer, CheckpointBootstrapping,
             CheckpointReady, LostOperation, ProvisioningFailed, FailProvisioning,
             FinishCancelled, IssueCredential
  <1>4. CASE Request(p) \/ Crash(p)
    BY <1>4 DEF Request, PrepareBegin, StopSession, IssueCheck, Crash
  <1>5. CASE ReaperStep(p)
    BY <1>5 DEF ReaperStep, SweepRequestStop, StopRevoke, DropOverdueOperation,
             ClaimOrphanCleanup, ConfirmOrphan, OrphanCall
  <1>6. CASE \/ ProvisioningTimeout(p) \/ DeadlineStop(p) \/ HeartbeatFailure(p)
             \/ SweepStopping(p) \/ SweepFailedCleanup(p) \/ SweepOrphan(p)
    BY <1>6 DEF ProvisioningTimeout, DeadlineStop, StopRevoke, HeartbeatFailure,
             SweepStopping, SweepFailedCleanup, SweepOrphan
  <1> QED
    BY <1>1, <1>2, <1>3, <1>4, <1>5, <1>6 DEF ProcStep

(* Until a worker is evicted nothing appears at the provider while somebody
   cleans up, or once the Session is over. *)
LEMMA NothingAppears ==
  ASSUME TypeOK, OwnerInv, OwnedInv, NEW p \in Procs, ProcStep(p), ~evicted,
         \/ \E q \in Procs : Cleaning(q)
         \/ Over
  PROVE  vols' \subseteq vols /\ srvs' \subseteq srvs
  <1>1. pc[p] \notin CreateSteps
    BY DEF OwnerInv, OwnedInv, Over
  <1> QED
    BY <1>1, ResourcesAppear DEF CreateSteps

(* The operation leaves a worker that creates resources only after the
   timeout. *)
LEMMA EvictedByTimeout ==
  ASSUME TypeOK, OperationInv, ClaimInv, CallInv, OwnerInv, SinglePrepare, Next, Evicts
  PROVE  sess.overdue
  <1>1. PICK q \in Procs : Creating(q) /\ sess'.op # sess.op
    BY DEF Evicts
  <1>2. pc[q] \in CreateSteps /\ sess.op = 1
    BY <1>1 DEF Creating, ClaimInv
  <1>3. sess.status # "STOPPED" /\ \A r \in Procs : ~Cleaning(r)
    BY <1>2 DEF OwnerInv
  <1>4. ASSUME NEW p \in Procs, ProcStep(p) PROVE sess.overdue
    <2>1. ~Claims(p)
      BY <1>3 DEF Claims
    <2>2. Cleaning(p) \/ PastCreating(p) \/ sess.overdue \/ pc[p] = "drop"
      BY <1>1, <1>4, <2>1, FieldsStep
    <2>3. ~PastCreating(p)
      BY <1>2, OnlyPreparer DEF PastCreating
    <2> QED
      BY <1>3, <2>2, <2>3 DEF OwnerInv
  <1>5. CASE NodeStep
    BY <1>1, <1>5, NodeFields
  <1>6. CASE LeaseStep \/ ServerVanishes
    BY <1>1, <1>6 DEF LeaseStep, LeaseExpires, HolderStalls, ServerVanishes, store
  <1> QED
    BY <1>4, <1>5, <1>6, NextCases

(* Overdue stays, once a worker has claimed the Session. *)
LEMMA OverdueStays ==
  ASSUME TypeOK, OperationInv, OwnerInv, sess.overdue, [Next]_vars
  PROVE  sess'.overdue
  <1>0. sess.status # "STOPPED"
    BY DEF OwnerInv
  <1>1. ASSUME NEW p \in Procs, ProcStep(p) PROVE sess'.overdue
    BY <1>0, <1>1, FieldsStep DEF Claims
  <1>2. CASE NodeStep
    BY <1>2, NodeFields
  <1>3. CASE LeaseStep \/ ServerVanishes \/ UNCHANGED vars
    BY <1>3 DEF LeaseStep, LeaseExpires, HolderStalls, ServerVanishes, store, vars
  <1> QED
    BY <1>1, <1>2, <1>3, NextCases

(* Every step keeps OwnedInv. *)
LEMMA OwnedInvStep ==
  ASSUME TypeOK, OperationInv, ClaimInv, OwnedInv, Next, evicted' = (evicted \/ Evicts)
  PROVE  OwnedInv'
  <1> SUFFICES ASSUME NEW q \in Procs, pc'[q] \in CreateSteps, ~evicted'
               PROVE  sess'.op = 1
    BY DEF OwnedInv
  <1>1. ~evicted /\ ~Evicts
    OBVIOUS
  <1>2. CASE pc[q] \in CreateSteps
    <2>1. sess.op = 1
      BY <1>1, <1>2 DEF OwnedInv
    <2>2. Creating(q)
      BY <1>2, <2>1 DEF Creating, ClaimInv
    <2> QED
      BY <1>1, <2>1, <2>2 DEF Evicts
  <1>3. CASE pc[q] \notin CreateSteps
    <2>1. ASSUME NEW p \in Procs, ProcStep(p) PROVE sess'.op = 1
      <3>1. q = p
        BY <1>3, <2>1, OthersStay
      <3>2. Claims(p) /\ nextOp' = nextOp + 1
        BY <1>3, <2>1, <3>1, CreateByClaim
      <3> QED
        BY <3>2 DEF Claims, ClaimInv
    <2>2. CASE NodeStep \/ LeaseStep \/ ServerVanishes
      BY <1>3, <2>2, ProcsRest
    <2> QED
      BY <2>1, <2>2, NextCases
  <1> QED
    BY <1>2, <1>3

(* Every step keeps ResultInv. *)
LEMMA ResultInvStep ==
  ASSUME TypeOK, OwnerInv, OwnedInv, ResultInv, Next, evicted' = (evicted \/ Evicts)
  PROVE  ResultInv'
  <1> SUFFICES ASSUME ~evicted, NEW q \in Procs PROVE Result(q)'
    BY DEF ResultInv, Result
  <1>r. \A r \in Procs : Result(r)
    BY DEF ResultInv, Result
  <1>1. ASSUME NEW p \in Procs, ProcStep(p) PROVE Result(q)'
    <2>1. CASE q = p
      BY <1>1, <1>r, <2>1, ResultOwn
    <2>2. CASE q # p
      <3>1. pc'[q] = pc[q] /\ ok'[q] = ok[q] /\ todo'[q] = todo[q]
        BY <1>1, <2>2, OthersStay
      <3>2. CASE pc[q] \in {"delVol", "volCall", "settle", "settleStop", "settleFail"}
        <4>1. vols' \subseteq vols /\ srvs' \subseteq srvs
          BY <1>1, <3>2, NothingAppears DEF Cleaning
        <4> QED
          BY <1>r, <3>1, <4>1 DEF Result
      <3>3. CASE pc[q] \notin {"delVol", "volCall", "settle", "settleStop", "settleFail"}
        BY <3>1, <3>3 DEF Result
      <3> QED
        BY <3>2, <3>3
    <2> QED
      BY <2>1, <2>2
  <1>2. CASE NodeStep \/ LeaseStep \/ ServerVanishes
    BY <1>2, <1>r, ProcsRest DEF Result
  <1> QED
    BY <1>1, <1>2, NextCases

(* A Session is closed by a cleanup that reports success, and by nothing else. *)
LEMMA OverEntered ==
  ASSUME TypeOK, NEW p \in Procs, ProcStep(p), sess'.status # sess.status,
         sess'.status \in {"FINISHED", "FAILED"}
  PROVE  /\ pc[p] \in {"settle", "settleStop", "settleFail"} /\ ok[p]
         /\ UNCHANGED <<vols, srvs>>
  <1>t. sess \in Session
    BY DEF TypeOK
  <1>1. CASE SettleStop(p) \/ SettleFailing(p) \/ SettleCancelled(p)
    <2>1. pc[p] \in {"settle", "settleStop", "settleFail"} /\ UNCHANGED <<vols, srvs>>
      BY <1>1 DEF SettleStop, SettleFailing, SettleCancelled, provider
    <2>2. \/ ok[p]
          \/ sess' = sess
          \/ sess' = DropOperation(MarkFailed(sess))
          \/ sess' = ClearCancel(DropOperation(MarkFailed(sess)))
          \/ sess' = ClearCancel(DropOperation([sess EXCEPT !.pending = TRUE]))
      BY <1>1 DEF SettleStop, SettleFailing, SettleCancelled, SettleStopping, TypeOK, LocalType
    <2>3. ClearCancel(DropOperation([sess EXCEPT !.pending = TRUE])).status = sess.status
      BY <1>t DEF Session, ClearCancel, DropOperation
    <2> QED
      BY <2>1, <2>2, <2>3, <1>t, Writes
  <1>2. CASE \/ ClaimSession(p) \/ CheckpointServer(p) \/ CheckpointBootstrapping(p)
             \/ CheckpointReady(p) \/ FailProvisioning(p) \/ StopSession(p)
             \/ ProvisioningTimeout(p) \/ DeadlineStop(p) \/ HeartbeatFailure(p)
             \/ SweepRequestStop(p) \/ DropOverdueOperation(p)
    <2>1. \/ sess' = sess
          \/ sess' = ClaimProvisioning(sess, nextOp')
          \/ sess' = [sess EXCEPT !.server = TRUE]
          \/ sess' = Advance(sess, "BOOTSTRAPPING")
          \/ sess' = Complete(Advance(sess, "READY_WAIT_INGEST"))
          \/ sess' = DropOperation(MarkFailed(sess))
          \/ sess' = [DropOperation(MarkFailed(sess)) EXCEPT !.cancel = TRUE]
          \/ sess' = RequestStop(sess)
          \/ sess' = MarkFailed(sess)
          \/ sess' = DropOperation(sess)
      BY <1>2 DEF ClaimSession, CheckpointServer, CheckpointBootstrapping, CheckpointReady,
                  FailProvisioning, StopSession, ProvisioningTimeout, DeadlineStop,
                  HeartbeatFailure, SweepRequestStop, DropOverdueOperation
    <2>2. sess'.status \in {sess.status, "PROVISIONING", "BOOTSTRAPPING", "READY_WAIT_INGEST",
                            "FAILED_CLEANUP", "STOPPING"}
      BY <2>1, <1>t DEF Session, ClaimProvisioning, Advance, Complete, DropOperation, MarkFailed,
                        RequestStop
    <2> QED
      BY <2>2
  <1> QED
    BY <1>1, <1>2, SessionUntouched
    DEF ProcStep, CleanupStep, PrepareStep, Request, ReaperStep

(* Every step keeps a Session that is over clean until a worker is evicted,
   and only the timeout evicts. *)
LEMMA StrayStep ==
  ASSUME TypeOK, OperationInv, ClaimInv, CallInv, OwnerInv, SinglePrepare,
         OwnedInv, ResultInv, StrayOnlyAfterTimeout, Next, evicted' = (evicted \/ Evicts)
  PROVE  StrayOnlyAfterTimeout'
  <1>0. StatusStep
    BY SessionSteps
  <1>1. ASSUME Over', ~evicted' PROVE vols' = {} /\ srvs' = {}
    <2>0. ~evicted
      BY <1>1
    <2>1. ASSUME NEW p \in Procs, ProcStep(p) PROVE vols' = {} /\ srvs' = {}
      <3>1. CASE sess.status = sess'.status
        <4>1. vols = {} /\ srvs = {} /\ Over
          BY <1>1, <2>0, <3>1 DEF StrayOnlyAfterTimeout, Over
        <4> QED
          BY <2>0, <2>1, <4>1, NothingAppears
      <3>2. CASE sess.status # sess'.status
        BY <1>1, <2>0, <2>1, <3>2, OverEntered DEF ResultInv, Over
      <3> QED
        BY <3>1, <3>2
    <2>2. CASE NodeStep
      <3>1. sess'.status = sess.status
        <4>1. CASE NodeReady \/ IngestObservation \/ PipelineFailure
          <5>1. sess.status \in ACTIVE_STATES
            BY <4>1 DEF NodeReady, IngestObservation, PipelineFailure, ACTIVE_STATES
          <5>2. sess'.status = sess.status \/ sess'.status \in CAPACITY_STATES
            BY <1>0, <5>1, TableFacts
            DEF StatusStep, CAPACITY_STATES, ACTIVE_STATES, CLEANUP_STATES
          <5> QED
            BY <1>1, <5>2 DEF CAPACITY_STATES, ACTIVE_STATES, CLEANUP_STATES, Over
        <4>2. CASE ProvisioningGrowsOld
          BY <4>2 DEF ProvisioningGrowsOld, TypeOK, Session
        <4> QED
          BY <2>2, <4>1, <4>2 DEF NodeStep
      <3> QED
        BY <1>1, <2>0, <2>2, <3>1, ProcsRest DEF StrayOnlyAfterTimeout, Over
    <2>3. CASE LeaseStep \/ ServerVanishes
      <3>1. sess' = sess
        BY <2>3 DEF LeaseStep, LeaseExpires, HolderStalls, ServerVanishes, store
      <3> QED
        BY <1>1, <2>0, <2>3, <3>1, ProcsRest DEF StrayOnlyAfterTimeout, Over
    <2> QED
      BY <2>1, <2>2, <2>3, NextCases
  <1>2. ASSUME evicted' PROVE sess'.overdue
    <2>1. sess.overdue
      BY <1>2, EvictedByTimeout DEF StrayOnlyAfterTimeout
    <2> QED
      BY <2>1, OverdueStays
  <1> QED
    BY <1>1, <1>2 DEF StrayOnlyAfterTimeout

(* With one preparing worker the invariant of the single prepare holds, for
   any number of other workers, reapers, faults and leftover volumes. *)
THEOREM SingleInvHolds ==
  ASSUME SinglePrepare
  PROVE  Spec => []SingleInv
  <1>1. Init => SingleInv
    <2> SUFFICES ASSUME Init PROVE SingleInv
      OBVIOUS
    <2>1. \A p \in Procs : pc[p] = "idle" /\ job[p] = "none" /\ ~Cleaning(p)
      BY DEF Init, Cleaning
    <2>2. sess.status = "STOPPED" /\ ~sess.server /\ ~sess.overdue /\ sess.op = NoOp
      BY DEF Init, NewSession
    <2>3. CallInv
      BY <2>1 DEF CallInv, PrepareSteps
    <2>4. OwnerInv
      BY <2>1, <2>2 DEF OwnerInv, CreateSteps
    <2> QED
      BY <2>3, <2>4 DEF SingleInv
  <1>2. Inv /\ SingleInv /\ [Next]_vars => SingleInv'
    BY CallInvStep, OwnerInvStep DEF Inv, SingleInv
  <1> QED
    BY <1>1, <1>2, InvHolds, PTL DEF Spec

(* With one preparing worker nobody cleans up under a worker that creates
   resources and owns the operation: stop and the reaper see
   provisioning_in_progress, and a failed node needs a server first. *)
THEOREM OwnerExcludesCleanup ==
  ASSUME SinglePrepare
  PROVE  Spec => []CleanupExcludesOwner
  <1>1. Inv /\ SingleInv => CleanupExcludesOwner
    <2> SUFFICES ASSUME Inv, SingleInv, NEW p \in Procs, NEW q \in Procs, Creating(p)
                 PROVE  ~Cleaning(q) /\ pc[q] # "orphanCall"
      BY DEF CleanupExcludesOwner
    <2>1. pc[p] \in CreateSteps /\ sess.op = 1
      BY DEF Creating, Inv, ClaimInv
    <2>2. sess.status \in {"PROVISIONING", "STOPPING"} /\ ~Cleaning(q)
      BY <2>1 DEF SingleInv, OwnerInv
    <2>3. pc[q] # "orphanCall"
      BY <2>2 DEF Inv, LeaseInv, SingleInv, CallInv, DeleteCalls, TERMINAL_STATES
    <2> QED
      BY <2>2, <2>3
  <1> QED
    BY <1>1, InvHolds, SingleInvHolds, PTL

(* With one preparing worker a Session that is over has left nothing at the
   provider, unless the provisioning timeout took the operation from a worker
   that was creating resources; whatever else fails, crashes or is overdue. *)
THEOREM OverIsClean ==
  ASSUME SinglePrepare
  PROVE  HistorySpec => []StrayOnlyAfterTimeout
  <1>1. HistoryInit => HistoryInv
    <2> SUFFICES ASSUME HistoryInit PROVE HistoryInv
      OBVIOUS
    <2>1. \A p \in Procs : pc[p] = "idle"
      BY DEF HistoryInit, Init
    <2>2. sess.status = "STOPPED" /\ evicted = FALSE
      BY DEF HistoryInit, Init, NewSession
    <2> QED
      BY <2>1, <2>2 DEF HistoryInv, OwnedInv, ResultInv, StrayOnlyAfterTimeout, Over, CreateSteps
  <1>2. Inv /\ SingleInv /\ HistoryInv /\ [HistoryNext]_<<vars, evicted>> => HistoryInv'
    <2> SUFFICES ASSUME Inv, SingleInv, HistoryInv, [HistoryNext]_<<vars, evicted>>
                 PROVE  HistoryInv'
      OBVIOUS
    <2>1. CASE HistoryNext
      <3>1. Next /\ evicted' = (evicted \/ Evicts)
        BY <2>1 DEF HistoryNext
      <3>2. OwnedInv' /\ ResultInv' /\ StrayOnlyAfterTimeout'
        BY <3>1, OwnedInvStep, ResultInvStep, StrayStep DEF Inv, SingleInv, HistoryInv
      <3>3. evicted' \in BOOLEAN
        BY <3>1
      <3> QED
        BY <3>2, <3>3 DEF HistoryInv
    <2>2. CASE UNCHANGED <<vars, evicted>>
      BY <2>2 DEF vars, HistoryInv, OwnedInv, ResultInv, StrayOnlyAfterTimeout, Over
    <2> QED
      BY <2>1, <2>2
  <1>3. HistoryInit => Init
    BY DEF HistoryInit
  <1>4. [HistoryNext]_<<vars, evicted>> => [Next]_vars
    BY DEF HistoryNext
  <1>5. HistorySpec => Spec
    BY <1>3, <1>4, PTL DEF HistorySpec, Spec
  <1>6. HistoryInv => StrayOnlyAfterTimeout
    BY DEF HistoryInv
  <1> QED
    BY <1>1, <1>2, <1>5, <1>6, InvHolds, SingleInvHolds, PTL DEF HistorySpec
=============================================================================
