----------------------------- MODULE IngestLifecycle -----------------------------
(***************************************************************************)
(* What a heartbeat's observations do to a Session that a media node        *)
(* serves: apply_ingest_observation with its recovery candidate, the        *)
(* pipeline health timer, and the reaper's hold and no-ingest timeouts.     *)
(*                                                                         *)
(* A heartbeat holds the node lock.  It writes sessions.json when it        *)
(* applies the ingest observation and when it finds the pipeline dead, and  *)
(* nodes.json at its end; the Control API may die in between, and a failure *)
(* of the Session store is noted in the Node record and otherwise ignored.  *)
(* Stops and the reaper come at any time.  The model begins when the        *)
(* Session is READY_WAIT_INGEST; ENDED stands for every status after the    *)
(* active ones.  Times are ages in ticks, each kept up to the first one     *)
(* that no comparison tells from the next.                                  *)
(***************************************************************************)
EXTENDS Naturals

CONSTANTS
  Sources,      \* source_id values
  NoSource,
  Stable,       \* RECOVERY_STABLE_SECONDS
  Hold,         \* hold_timeout_seconds
  NoIngest,     \* no_ingest_timeout_seconds
  HealthGrace   \* NODE_MEDIA_HEALTH_FAILURE_GRACE_SECONDS

ASSUME SourcesAssumption == NoSource \notin Sources
ASSUME TimersAssumption == {Stable, Hold, NoIngest, HealthGrace} \subseteq Nat

VARIABLES
  sess,    \* the Session record
  node,    \* the Node record in nodes.json
  txn,     \* the heartbeat that holds the node lock
  look,    \* the reaper's snapshot of an expired hold
  hist     \* history: what the properties compare with

vars == <<sess, node, txn, look, hist>>

-----------------------------------------------------------------------------
(* Observations *)

Usable == {"ok", "degraded"}
Unusable == {"rejected", "unusable"}
Kinds == Usable \cup Unusable \cup {"pending"}

(* unusable is DEGRADED with a timeout of the video or the audio, ok is ACCEPTED
   or WARNING. *)
Offline == [kind |-> "offline", src |-> NoSource]
Observations == [kind: Kinds, src: Sources] \cup {Offline}

NoObservation == [kind |-> "none", src |-> NoSource]

(* fatal is stopped, failed or crashed; gaveup comes with status FAILED. *)
Healths == {"running", "unknown", "fatal", "gaveup"}

Online(o) == o.kind # "offline"

-----------------------------------------------------------------------------
(* Ages; None is no time at all. *)

None == [age |-> 0, set |-> FALSE]
At(n) == [age |-> n, set |-> TRUE]

Older(t, cap) == IF t.set /\ t.age < cap THEN [t EXCEPT !.age = @ + 1] ELSE t

NoCandidate == [since |-> None, src |-> NoSource]

(* When the last usable run and the loss of input began, when a report that the
   stack runs was last answered. *)
NoHistory == [good |-> NoCandidate, lost |-> None, ran |-> At(0)]

Active == {"READY_WAIT_INGEST", "LIVE", "DEGRADED", "HOLDING"}

Init ==
  /\ sess = [status |-> "READY_WAIT_INGEST", ready |-> At(0), cand |-> NoCandidate,
             last |-> None, deadline |-> None, holdEvent |-> None, announced |-> 0,
             logged |-> FALSE]
  /\ node = [ingest |-> Offline, sick |-> None, desired |-> "RUNNING"]
  /\ txn = [step |-> "none"]
  /\ look = "none"
  /\ hist = NoHistory

-----------------------------------------------------------------------------
(* apply_ingest_observation *)

(* A bug: the source of the candidate is not compared. *)
SameCandidateAnySource(r, o) == r.cand.since.set

SameCandidate(r, o) == r.cand.since.set /\ r.cand.src = o.src

(* _recovery_candidate_ready *)
CandidateReady(r, o) ==
  IF SameCandidate(r, o) THEN r.cand.since.age >= Stable ELSE Stable = 0

UsableStatus(o) == IF o.kind = "ok" THEN "LIVE" ELSE "DEGRADED"

Target(r, o) ==
  CASE r.status = "HOLDING" /\ o.kind \in Usable ->
         IF CandidateReady(r, o) THEN UsableStatus(o) ELSE "HOLDING"
    [] r.status # "HOLDING" /\ o.kind \in Usable -> UsableStatus(o)
    [] r.status \in {"LIVE", "DEGRADED"} /\ o.kind \in Unusable \cup {"offline"} -> "HOLDING"
    [] OTHER -> r.status

(* session.holding is logged at the time of last_ingest_at. *)
EnterHold(r) ==
  [r EXCEPT !.status = "HOLDING", !.cand = NoCandidate, !.last = At(0),
            !.holdEvent = At(0), !.announced = 1]

(* A bug: the deadline of the hold that is over stays. *)
EnterUsableKeepsDeadline(r, s) ==
  [r EXCEPT !.status = s, !.cand = NoCandidate, !.last = At(0), !.announced = 0]

EnterUsable(r, s) ==
  [r EXCEPT !.status = s, !.cand = NoCandidate, !.last = At(0), !.deadline = None,
            !.announced = 0]

(* A bug: input that is not stable yet counts as input. *)
StartCandidateRefreshes(r, o) ==
  [r EXCEPT !.cand = [since |-> At(0), src |-> o.src], !.last = At(0), !.deadline = None]

StartCandidate(r, o) == [r EXCEPT !.cand = [since |-> At(0), src |-> o.src]]

(* The status stays. *)
Stay(r, o) ==
  IF r.status = "HOLDING" /\ o.kind \in Usable
    THEN IF SameCandidate(r, o) THEN r ELSE StartCandidate(r, o)
    ELSE [r EXCEPT !.cand = NoCandidate]

Observed(r, o) ==
  LET t == Target(r, o) IN
  IF t = r.status THEN Stay(r, o)
  ELSE IF t = "HOLDING" THEN EnterHold(r) ELSE EnterUsable(r, t)

(* A bug: a connection that ended before its format was known is not reported. *)
LoggedAfterAccepted(r, prev, o) ==
  IF prev.kind \in Usable /\ ~Online(o) THEN FALSE
  ELSE r.logged \/ (Online(o) /\ (~Online(prev) \/ prev.src # o.src))

(* _ingest_event_types: whether the last connectivity event in the Session's log
   says that the ingest is connected. *)
LoggedAfter(r, prev, o) ==
  IF Online(prev) /\ ~Online(o) THEN FALSE
  ELSE r.logged \/ (Online(o) /\ (~Online(prev) \/ prev.src # o.src))

-----------------------------------------------------------------------------
(* The heartbeat *)

(* History: the run of usable observations from one source that reached the
   Session. *)
GoodAfter(g, o) ==
  IF o.kind \notin Usable THEN NoCandidate
  ELSE IF g.since.set /\ g.src = o.src THEN g ELSE [since |-> At(0), src |-> o.src]

LostAfter(before, after) ==
  CASE after # "HOLDING"                        -> None
    [] after = "HOLDING" /\ before # "HOLDING" -> At(0)
    [] OTHER                                    -> hist.lost

(* A write to a field that the reaper compares. *)
Outdate == look' = IF look = "current" THEN "outdated" ELSE look

(* record_node_heartbeat refuses a Session that is not active.  The parts of the
   request are chosen where they are first read. *)
ReceiveHeartbeat ==
  /\ txn.step = "none"
  /\ node.desired = "RUNNING"
  /\ sess.status \in Active
  /\ txn' = [step |-> "ingest", node |-> node, error |-> FALSE, ran |-> FALSE]
  /\ UNCHANGED <<sess, node, look, hist>>

(* What the store does with an observation; a Session that has ended meanwhile
   takes none. *)
TakeObservation(o) ==
  IF sess.status \in Active
    THEN LET r == Observed(sess, o) IN
         /\ sess' = [r EXCEPT !.logged = LoggedAfter(sess, node.ingest, o)]
         /\ IF r.status = sess.status THEN UNCHANGED look ELSE Outdate
         /\ hist' = [hist EXCEPT !.good = GoodAfter(@, o), !.lost = LostAfter(sess.status, r.status)]
    ELSE UNCHANGED <<sess, look, hist>>

(* The store may fail, before or after its write took effect: the heartbeat
   notes the error beside the observation (session_event_error of the Node
   record) and goes on. *)
ApplyIngest(o) ==
  /\ txn.step = "ingest"
  /\ IF o = NoObservation
       THEN txn' = [txn EXCEPT !.step = "health"] /\ UNCHANGED <<sess, look, hist>>
       ELSE \E error \in BOOLEAN :
              /\ txn' = [txn EXCEPT !.step = "health", !.node.ingest = o, !.error = error]
              /\ TakeObservation(o) \/ (error /\ UNCHANGED <<sess, look, hist>>)
  /\ UNCHANGED node

End(r) == [r EXCEPT !.status = "ENDED", !.cand = NoCandidate]

(* A bug: a report that the stack runs does not reset the timer. *)
TimerAfterKept(n, h) ==
  IF h \in {"fatal", "gaveup"} /\ ~n.sick.set THEN At(0) ELSE n.sick

(* media_unhealthy_since *)
TimerAfter(n, h) ==
  CASE h = "running"                              -> None
    [] h \in {"fatal", "gaveup"} /\ ~n.sick.set -> At(0)
    [] OTHER                                      -> n.sick

PipelineDead(n, h) == h = "gaveup" \/ (h = "fatal" /\ TimerAfter(n, h).age >= HealthGrace)

(* apply_pipeline_health; a Session that has ended meanwhile stays as it is.
   Here too the store may fail, and the heartbeat goes on: the timer is kept,
   but desired_state is set only when the transition has returned. *)
ApplyHealth(h) ==
  LET n == [txn.node EXCEPT !.sick = TimerAfter(txn.node, h)]
      dead == PipelineDead(txn.node, h) /\ sess.status \in Active IN
  /\ txn.step = "health"
  /\ \/ /\ dead
        /\ sess' = End(sess) /\ hist' = NoHistory /\ Outdate
        /\ \E d \in {n.desired, "STOPPED"} :
             txn' = [txn EXCEPT !.step = "commit", !.ran = (h = "running"), !.node = [n EXCEPT !.desired = d]]
     \/ (* not dead, or the store fails before its write *)
        /\ txn' = [txn EXCEPT !.step = "commit", !.ran = (h = "running"), !.node = n]
        /\ UNCHANGED <<sess, hist, look>>
  /\ UNCHANGED node

(* The write of nodes.json, and the answer. *)
CommitNode ==
  /\ txn.step = "commit"
  /\ node' = txn.node
  /\ hist' = [hist EXCEPT !.ran = IF txn.ran THEN At(0) ELSE @]
  /\ txn' = [step |-> "none"]
  /\ UNCHANGED <<sess, look>>

(* The Control API dies, any number of times; what it wrote stays. *)
Crash ==
  /\ txn.step # "none"
  /\ txn' = [step |-> "none"]
  /\ UNCHANGED <<sess, node, look, hist>>

-----------------------------------------------------------------------------
(* The reaper and the user *)

(* A bug: an event as old as the hold does not count as its announcement. *)
HasHoldingEventAfter(r) == r.holdEvent.set /\ r.holdEvent.age < r.last.age

(* _has_holding_event_since *)
HasHoldingEvent(r) == r.holdEvent.set /\ r.holdEvent.age <= r.last.age

(* The deadline counts from last_ingest_at; the fields read are compared under
   the store's lock. *)
SetHoldDeadline ==
  /\ sess.status = "HOLDING"
  /\ ~sess.deadline.set
  /\ sess' = [sess EXCEPT !.deadline = sess.last,
                          !.announced = IF HasHoldingEvent(sess) THEN @ ELSE @ + 1]
  /\ UNCHANGED <<node, txn, look, hist>>

Expired(r) == r.deadline.set /\ r.deadline.age > Hold

HoldLook ==
  /\ look = "none"
  /\ sess.status = "HOLDING"
  /\ Expired(sess)
  /\ look' = "current"
  /\ UNCHANGED <<sess, node, txn, hist>>

(* A bug: only the status is compared. *)
StillExpiredByStatus == sess.status = "HOLDING"

(* request_stop_if_current: status, deadline and last_ingest_at are those of the
   snapshot. *)
StillExpired == sess.status = "HOLDING" /\ look = "current"

HoldStop ==
  /\ look # "none"
  /\ IF StillExpired
       THEN sess' = End(sess) /\ hist' = NoHistory
       ELSE UNCHANGED <<sess, hist>>
  /\ look' = "none"
  /\ UNCHANGED <<node, txn>>

NoIngestStop ==
  /\ sess.status = "READY_WAIT_INGEST"
  /\ sess.ready.age > NoIngest
  /\ sess' = End(sess)
  /\ hist' = NoHistory
  /\ UNCHANGED <<node, txn, look>>

(* A user's stop, or whatever else ends the Session. *)
Stop ==
  /\ sess.status \in Active
  /\ sess' = End(sess)
  /\ hist' = NoHistory
  /\ Outdate
  /\ UNCHANGED <<node, txn>>

(* Time passes; a request is short beside the timers. *)
Tick ==
  /\ txn.step = "none"
  /\ sess' = [sess EXCEPT !.ready = Older(@, NoIngest + 1), !.cand.since = Older(@, Stable),
                          !.last = Older(@, Hold + 1), !.deadline = Older(@, Hold + 1),
                          !.holdEvent = Older(@, Hold + 1)]
  /\ node' = [node EXCEPT !.sick = Older(@, HealthGrace)]
  /\ hist' = [good |-> [hist.good EXCEPT !.since = Older(@, Stable)],
              lost |-> Older(hist.lost, Hold + 1), ran |-> Older(hist.ran, HealthGrace)]
  /\ UNCHANGED <<txn, look>>

Next ==
  \/ ReceiveHeartbeat
  \/ \E o \in Observations \cup {NoObservation} : ApplyIngest(o)
  \/ \E h \in Healths : ApplyHealth(h)
  \/ CommitNode \/ Crash
  \/ SetHoldDeadline \/ HoldLook \/ HoldStop \/ NoIngestStop
  \/ Stop \/ Tick

Spec == Init /\ [][Next]_vars

(* A heartbeat that was received is worked off, time passes, and the reaper's
   timer starts sweeps forever; nothing is asked of the node or the user. *)
HeartbeatStep ==
  \/ \E o \in Observations \cup {NoObservation} : ApplyIngest(o)
  \/ \E h \in Healths : ApplyHealth(h)
  \/ CommitNode
ReaperStep == SetHoldDeadline \/ HoldLook \/ HoldStop \/ NoIngestStop

FairSpec == Spec /\ WF_vars(HeartbeatStep) /\ SF_vars(Tick) /\ WF_vars(ReaperStep)

-----------------------------------------------------------------------------
Times(cap) == [age: 0 .. cap, set: BOOLEAN]
Candidates == [since: Times(Stable), src: Sources \cup {NoSource}]
NodeType == [ingest: Observations, sick: Times(HealthGrace), desired: {"RUNNING", "STOPPED"}]

SessionType ==
  [status: Active \cup {"ENDED"}, ready: Times(NoIngest + 1), cand: Candidates,
   last: Times(Hold + 1), deadline: Times(Hold + 1), holdEvent: Times(Hold + 1),
   announced: 0 .. 1, logged: BOOLEAN]
HeartbeatType ==
  [step: {"ingest", "health", "commit"}, node: NodeType, error: BOOLEAN, ran: BOOLEAN]
HistoryType == [good: Candidates, lost: Times(Hold + 1), ran: Times(HealthGrace)]

TypeOK ==
  /\ sess \in SessionType
  /\ node \in NodeType
  /\ txn \in [step: {"none"}] \cup HeartbeatType
  /\ look \in {"none", "current", "outdated"}
  /\ hist \in HistoryType

(* A hold is announced by one session.holding event, by the node's report or by
   the reaper and never by both, and its deadline counts from the observation
   that told the Session of the loss: neither sweeps nor flaps move it, and it does not outlive
   the hold. *)
HoldCycle ==
  /\ sess.status = "HOLDING" => sess.announced = 1 /\ sess.last = hist.lost
  /\ sess.status = "HOLDING" /\ sess.deadline.set => sess.deadline = hist.lost
  /\ sess.status \in Active \ {"HOLDING"} => ~sess.deadline.set

(* The event of a hold is as old as its loss, and the recovery candidate is the run of
   usable observations. *)
HoldInv ==
  sess.status = "HOLDING" =>
    /\ sess.last.set
    /\ sess.holdEvent = sess.last
    /\ sess.cand = hist.good

(* A snapshot that no write has outdated is still right. *)
LookInv == look = "current" => sess.status = "HOLDING" /\ Expired(sess)

(* While the Session lives, the health timer, in nodes.json and in the heartbeat that is
   being worked off, is no older than the last report that the stack runs. *)
TimerInv ==
  /\ hist.ran.set
  /\ sess.status \in Active /\ node.sick.set => node.sick.age <= hist.ran.age
  /\ sess.status \in Active /\ txn.step # "none" /\ txn.node.sick.set =>
       txn.node.sick.age <= hist.ran.age
  /\ txn.step = "commit" /\ txn.ran => ~txn.node.sick.set

(* A change of connectivity that the heartbeat is about to commit is in the log, or
   its loss is noted beside it. *)
LogInv ==
  /\ txn.step = "ingest" => txn.node.ingest = node.ingest
  /\ /\ txn.step \in {"health", "commit"}
     /\ sess.status \in Active
     /\ Online(node.ingest) # Online(txn.node.ingest)
     /\ ~txn.error
     => sess.logged = Online(txn.node.ingest)

(* The record of a hold is well typed, announced once and dated from the loss; the other
   parts make it inductive and carry HoldRules. *)
Inv == TypeOK /\ HoldCycle /\ HoldInv /\ LookInv /\ TimerInv /\ LogInv

(* A Session leaves HOLDING for a usable status only after one source has been
   usable, for the stability window, in every observation that reached the
   Session, across crashes, earlier holds and failures of the store. *)
RecoveryIsStable ==
  [][sess.status = "HOLDING" /\ sess'.status \in {"LIVE", "DEGRADED"}
       => hist'.good.since.set /\ hist'.good.since.age >= Stable]_vars

(* HOLD_TIMEOUT ends a Session only when it has known its input to be lost,
   without a recovery in between, for longer than the hold timeout. *)
HoldTimeoutIsDue ==
  [][HoldStop /\ sess'.status # sess.status => hist.lost.set /\ hist.lost.age > Hold]_vars

(* A stack that has not given up is declared dead only when no report that it
   runs was answered during the grace, also when a heartbeat died halfway. *)
FailureIsSustained ==
  [][\A h \in Healths : ApplyHealth(h) /\ sess'.status # sess.status /\ h # "gaveup"
       => hist.ran.age >= HealthGrace]_vars

(* A change of connectivity that nodes.json knows of was logged for the Session
   first, or nodes.json notes together with it that the Session's store failed
   (session_event_error): a crash may repeat an event but not lose it, and a
   loss is not silent. *)
ChangesAreLogged ==
  [][CommitNode /\ Online(node.ingest) # Online(node'.ingest)
       => sess.status = "ENDED" \/ txn.error \/ sess.logged = Online(node'.ingest)]_vars

(* What a heartbeat or a sweep may do to a Session on the strength of what the node
   reported: recovery, timeout and failure need observations that lasted, and no change
   of connectivity goes unlogged without a note of it. *)
HoldRules == RecoveryIsStable /\ HoldTimeoutIsDue /\ FailureIsSustained /\ ChangesAreLogged

(* A hold ends: input that comes and goes without becoming stable does not keep
   the Session and its server for ever. *)
HoldEnds == sess.status = "HOLDING" ~> sess.status # "HOLDING"
=============================================================================
