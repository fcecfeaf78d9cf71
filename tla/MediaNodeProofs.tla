------------------------------ MODULE MediaNodeProofs ------------------------------
(***************************************************************************)
(* Proofs about the processes of a media Node: the standby image, the       *)
(* agent's two threads, the ingest policy, a publish attempt, the gateway   *)
(* that supervises it, and the continuity engine.                           *)
(***************************************************************************)
EXTENDS StandbyAsset, NodeAgent, EgressAttempt, EgressGateway, IngestPolicy, Continuity, TLAPS

-----------------------------------------------------------------------------
(***************************************************************************)
(* StandbyAsset.  What was selected has been checked against the digest, or *)
(* says why it is not the customer's image; status and decoder are copies   *)
(* of one selection.                                                        *)
(***************************************************************************)
SelectionOK ==
  /\ selection.source = "CUSTOM" /\ settings.digest # "none" => selection.bytes = settings.digest
  /\ settings.custom /\ selection.source # "CUSTOM" => selection.reason # "none"

StandbyInv ==
  /\ engine = "verify" => selection.source = "CUSTOM"
  /\ engine \in {"status", "build", "running", "stopped"} => SelectionOK
  /\ engine \in {"build", "running"} => standbyJson = selection
  /\ decoder = IF engine = "running" THEN selection ELSE Nothing

LEMMA StandbyStep == ASSUME StandbyInv, [StandbyNext]_standbyVars PROVE StandbyInv'
<1>1. CASE SnapshotCustom  BY <1>1 DEF SnapshotCustom, StandbyInv, SelectionOK
<1>2. CASE VerifySnapshot  BY <1>2 DEF VerifySnapshot, VerifiedBytes, StandbyInv, SelectionOK
<1>3. CASE SnapshotFallback
  <2>1. FallbackReason = "none" => ~settings.custom  BY DEF FallbackReason
  <2>2. SelectionOK'  BY <1>3, <2>1 DEF SnapshotFallback, Black, SelectionOK
  <2> QED  BY <1>3, <2>2 DEF SnapshotFallback, StandbyInv
<1>4. CASE WriteStandbyStatus  BY <1>4 DEF WriteStandbyStatus, StandbyInv, SelectionOK
<1>5. CASE BuildStandby  BY <1>5 DEF BuildStandby, StandbyInv, SelectionOK
<1>6. CASE StandbyRestarts  BY <1>6 DEF StandbyRestarts, StandbyInv
<1>7. ASSUME NEW which, NEW content, FileChanges(which, content) PROVE StandbyInv'
  BY <1>7 DEF FileChanges, StandbyInv, SelectionOK
<1>8. CASE UNCHANGED standbyVars  BY <1>8 DEF standbyVars, StandbyInv, SelectionOK
<1> QED  BY <1>1, <1>2, <1>3, <1>4, <1>5, <1>6, <1>7, <1>8 DEF StandbyNext

(***************************************************************************)
(* The standby image, for every set of image contents: whenever the files   *)
(* change, the customer's image is shown only with the configured bytes,    *)
(* and standby.json says what viewers see and why.                          *)
(***************************************************************************)
THEOREM StandbyHolds == StandbySpec => []StandbyPromise
<1>1. StandbyInit => StandbyInv  BY DEF StandbyInit, StandbyInv
<1>2. StandbyInv /\ [StandbyNext]_standbyVars => StandbyInv'  BY StandbyStep
<1>3. StandbyInv => StandbyPromise
  BY DEF StandbyInv, SelectionOK, StandbyPromise, CustomIsVerified, StatusIsTrue, Nothing
<1> QED  BY <1>1, <1>2, <1>3, PTL DEF StandbySpec

-----------------------------------------------------------------------------
(***************************************************************************)
(* NodeAgent.  A stop that was called and has not raised is remembered in   *)
(* the flags, and the lock is held by its caller only.                      *)
(***************************************************************************)
FlagsType ==
  [started : BOOLEAN, attempted : BOOLEAN, finished : BOOLEAN, stopAttempted : BOOLEAN,
   stopRequested : BOOLEAN, stopResult : {"none", "ok", "failed", "raised"}]

StopInv ==
  /\ flags \in FlagsType
  /\ stops = IF flags.stopAttempted THEN 1 ELSE 0
  /\ stopLock # "nobody" => flags.stopAttempted

MainInv ==
  /\ main.step \in {"stop", "stopping"} => main.then \in {"beat", "join", "cleanup"}
  /\ secrets \subseteq {"egress", "media"}

AgentInv == StopInv /\ MainInv /\ SecretsRemoved

(* Entering and leaving _stop_media_once, in either thread. *)
LEMMA StopEntered == ASSUME StopInv, NEW who, EnterStop(who) PROVE StopInv'
<1>1. StopIsDue \in BOOLEAN /\ (StopIsDue => ~flags.stopAttempted)  BY DEF StopIsDue
<1>2. flags.stopAttempted \in BOOLEAN  BY DEF StopInv, FlagsType
<1> DEFINE b == flags.stopAttempted \/ StopIsDue
<1>3. flags' = [flags EXCEPT !.stopRequested = TRUE, !.stopAttempted = b]
  BY DEF EnterStop, StopInv, FlagsType
<1>4. b \in BOOLEAN  OBVIOUS
<1>5. CASE StopIsDue
  <2>1. b = TRUE /\ stops = 0  BY <1>1, <1>5 DEF StopInv
  <2> HIDE DEF b
  <2>2. flags' \in FlagsType /\ flags'.stopAttempted = TRUE  BY <1>3, <2>1 DEF StopInv, FlagsType
  <2> QED  BY <1>5, <2>1, <2>2 DEF EnterStop, StopInv
<1>6. CASE ~StopIsDue
  <2>1. b = flags.stopAttempted  BY <1>2, <1>6
  <2> HIDE DEF b
  <2>2. flags' \in FlagsType /\ flags'.stopAttempted = flags.stopAttempted
    BY <1>2, <1>3, <2>1 DEF StopInv, FlagsType
  <2> QED  BY <1>6, <2>2 DEF EnterStop, StopInv
<1> QED  BY <1>5, <1>6

LEMMA StopReturned ==
  ASSUME StopInv, NEW who \in {"main", "watchdog"}, NEW o \in Outcomes, StopReturns(who, o)
  PROVE  StopInv'
<1>1. flags.stopAttempted /\ flags \in FlagsType /\ stops = 1 /\ stopLock' = "nobody"  BY DEF StopReturns, StopInv
<1>2. CASE o = "ok"
  <2>1. flags' = [flags EXCEPT !.started = FALSE, !.stopResult = "ok"] /\ stops' = stops
    BY <1>2 DEF StopReturns
  <2>2. flags' \in FlagsType /\ flags'.stopAttempted = flags.stopAttempted  BY <1>1, <2>1 DEF FlagsType
  <2> QED  BY <1>1, <2>1, <2>2 DEF StopInv
<1>3. CASE o = "failed"
  <2>1. flags' = [flags EXCEPT !.stopResult = "failed"] /\ stops' = stops  BY <1>3 DEF StopReturns
  <2>2. flags' \in FlagsType /\ flags'.stopAttempted = flags.stopAttempted  BY <1>1, <2>1 DEF FlagsType
  <2> QED  BY <1>1, <2>1, <2>2 DEF StopInv
<1>4. CASE o = "raised"
  <2>1. flags' = [flags EXCEPT !.stopAttempted = FALSE, !.stopResult = "raised"] /\ stops' = stops - 1
    BY <1>4 DEF StopReturns
  <2>2. flags' \in FlagsType /\ flags'.stopAttempted = FALSE  BY <1>1, <2>1 DEF FlagsType
  <2> QED  BY <1>1, <2>1, <2>2 DEF StopInv
<1> QED  BY <1>2, <1>3, <1>4 DEF Outcomes

(* A step that asks for no stop leaves the flag of the stop as it is. *)
LEMMA FlagsKept ==
  ASSUME StopInv, UNCHANGED <<stopLock, stops>>, NEW s \in BOOLEAN, NEW a \in BOOLEAN, NEW f \in BOOLEAN,
         flags' = [flags EXCEPT !.started = s, !.attempted = a, !.finished = f]
  PROVE  StopInv'
<1>1. flags' \in FlagsType /\ flags'.stopAttempted = flags.stopAttempted  BY DEF StopInv, FlagsType
<1> QED  BY <1>1 DEF StopInv

LEMMA AgentStep == ASSUME AgentInv, [AgentNext]_agentVars PROVE AgentInv'
<1> USE DEF At, Call
<1>1. ASSUME UNCHANGED <<flags, stopLock, stops>> PROVE StopInv'  BY <1>1 DEF AgentInv, StopInv
<1>2. ASSUME main'.step \notin {"stop", "stopping", "exited"}, secrets' \subseteq {"egress", "media"}
      PROVE  MainInv' /\ SecretsRemoved'
  BY <1>2 DEF MainInv, SecretsRemoved
<1>3. ASSUME UNCHANGED <<main, secrets, secretPath, exitCode>> PROVE MainInv' /\ SecretsRemoved'
  BY <1>3 DEF AgentInv, MainInv, SecretsRemoved
<1>4. ASSUME NEW next \in {"beat", "join", "cleanup"}, main' = Call("stop", next), UNCHANGED secrets
      PROVE  MainInv' /\ SecretsRemoved'
  BY <1>4 DEF AgentInv, MainInv, SecretsRemoved
<1>5. CASE BootstrapUnavailable \/ BootstrapDenied
  <2>1. main'.step \in {"bootstrap", "finally"} /\ UNCHANGED <<flags, stopLock, stops, secrets>>
    BY <1>5 DEF BootstrapUnavailable, BootstrapDenied
  <2> QED  BY <1>1, <1>2, <2>1 DEF AgentInv, MainInv
<1>6. ASSUME NEW d, NEW readable, Bootstrapped(d, readable) PROVE AgentInv'
  <2>1. main'.step \in {"secret", "finally"} /\ UNCHANGED <<flags, stopLock, stops, secrets>>
    BY <1>6 DEF Bootstrapped
  <2> QED  BY <1>1, <1>2, <2>1 DEF AgentInv, MainInv
<1>7. ASSUME NEW kind \in {"written", "relay", "failed", "refused"}, WriteSecret(kind) PROVE AgentInv'
  <2>1. main'.step \in {"seed", "finally"} /\ UNCHANGED <<flags, stopLock, stops>>
    BY <1>7 DEF WriteSecret
  <2>2. secrets' \subseteq secrets \cup {"egress"}  BY <1>7 DEF WriteSecret
  <2> QED  BY <1>1, <1>2, <2>1, <2>2 DEF AgentInv, MainInv
<1>8. ASSUME NEW ok \in BOOLEAN, SeedControlState(ok) \/ StartMediaAuth(ok) \/ ComposeStart(ok) \/ WaitForHealth(ok)
      PROVE  AgentInv'
  <2>1. /\ main'.step \in {"auth", "attempt", "health", "started", "startFailed", "finally"}
        /\ UNCHANGED <<flags, stopLock, stops>> /\ secrets' \subseteq secrets \cup {"media"}
    BY <1>8 DEF SeedControlState, StartMediaAuth, ComposeStart, WaitForHealth
  <2> QED  BY <1>1, <1>2, <2>1 DEF AgentInv, MainInv
<1>9. CASE AttemptStart \/ MarkStarted \/ StartFailed
  <2>1. main'.step \in {"mark", "compose", "finally"} /\ UNCHANGED <<stopLock, stops, secrets>>
    BY <1>9 DEF AttemptStart, MarkStarted, StartFailed
  <2>2. flags \in FlagsType /\ flags.started \in BOOLEAN /\ flags.attempted \in BOOLEAN /\ flags.finished \in BOOLEAN
    BY DEF AgentInv, StopInv, FlagsType
  <2>3. \/ flags' = flags
        \/ flags' = [flags EXCEPT !.started = flags.started, !.attempted = TRUE, !.finished = flags.finished]
        \/ flags' = [flags EXCEPT !.started = TRUE, !.attempted = flags.attempted, !.finished = flags.finished]
        \/ flags' = [flags EXCEPT !.started = flags.started, !.attempted = flags.attempted, !.finished = TRUE]
    BY <1>9, <2>2 DEF AttemptStart, MarkStarted, StartFailed, FlagsType
  <2>4. StopInv'  BY <1>1, <2>1, <2>2, <2>3, FlagsKept DEF AgentInv
  <2> QED  BY <1>2, <2>1, <2>4 DEF AgentInv, MainInv
<1>10. CASE Started
  <2>1. flags \in FlagsType /\ flags.attempted \in BOOLEAN  BY DEF AgentInv, StopInv, FlagsType
  <2>2. flags' = [flags EXCEPT !.started = TRUE, !.attempted = flags.attempted, !.finished = TRUE]
    BY <1>10, <2>1 DEF Started, FlagsType
  <2>3. UNCHANGED <<stopLock, stops, secrets>> /\ main' \in {Call("stop", "beat"), At("beat")}  BY <1>10 DEF Started
  <2>4. StopInv'  BY <2>1, <2>2, <2>3, FlagsKept DEF AgentInv
  <2> QED  BY <1>2, <1>4, <2>3, <2>4 DEF AgentInv, MainInv
<1>11. CASE StopMediaOnce
  <2>1. StopInv'  BY <1>11, StopEntered DEF StopMediaOnce, AgentInv
  <2>2. main.then \in {"beat", "join", "cleanup"} /\ UNCHANGED <<secrets, secretPath, exitCode>>
    BY <1>11 DEF StopMediaOnce, AgentInv, MainInv
  <2>3. main' \in {Call("stopping", main.then), At(main.then)}  BY <1>11 DEF StopMediaOnce
  <2>4. MainInv' /\ SecretsRemoved'  BY <2>2, <2>3 DEF AgentInv, MainInv, SecretsRemoved
  <2> QED  BY <2>1, <2>4 DEF AgentInv
<1>12. ASSUME NEW o \in Outcomes, MainStopReturns(o) PROVE AgentInv'
  <2>1. StopInv'  BY <1>12, StopReturned DEF MainStopReturns, AgentInv
  <2>2. main'.step \in {"beat", "join", "cleanup"} /\ UNCHANGED secrets
    BY <1>12 DEF MainStopReturns, AgentInv, MainInv
  <2> QED  BY <1>2, <2>1, <2>2 DEF AgentInv, MainInv
<1>13. ASSUME NEW answer, Heartbeat(answer) PROVE AgentInv'
  <2>1. main'.step \in {"beat", "finally"} /\ UNCHANGED <<flags, stopLock, stops, secrets>>  BY <1>13 DEF Heartbeat
  <2> QED  BY <1>1, <1>2, <2>1 DEF AgentInv, MainInv
<1>14. CASE HeartbeatsEnd
  <2>1. main'.step = "finally" /\ UNCHANGED <<flags, stopLock, stops, secrets>>  BY <1>14 DEF HeartbeatsEnd
  <2> QED  BY <1>1, <1>2, <2>1 DEF AgentInv, MainInv
<1>15. CASE Finally \/ JoinWatchdog
  <2>1. /\ main' \in {Call("stop", "join"), Call("stop", "cleanup")}
        /\ UNCHANGED <<flags, stopLock, stops, secrets>>
    BY <1>15 DEF Finally, JoinWatchdog
  <2> QED  BY <1>1, <1>4, <2>1 DEF AgentInv
<1>16. ASSUME NEW ok \in BOOLEAN, AgentCleanup(ok) PROVE AgentInv'
  <2>1. secretPath => "egress" \notin secrets'  BY <1>16 DEF AgentCleanup, RemovedSecrets
  <2>2. "media" \in secrets' => exitCode' = 1  BY <1>16 DEF AgentCleanup, RemovedSecrets
  <2>3. UNCHANGED <<flags, stopLock, stops, secretPath>> /\ main'.step = "exited" /\ secrets' \subseteq secrets
    BY <1>16 DEF AgentCleanup
  <2> QED  BY <1>1, <2>1, <2>2, <2>3 DEF AgentInv, MainInv, SecretsRemoved
<1>17. ASSUME NEW readable, Watch(readable) PROVE AgentInv'  BY <1>1, <1>3, <1>17 DEF Watch, AgentInv
<1>18. CASE WatchdogStop  BY <1>3, <1>18, StopEntered DEF WatchdogStop, AgentInv
<1>19. ASSUME NEW o \in Outcomes, WatchdogStopReturns(o) PROVE AgentInv'
  BY <1>3, <1>19, StopReturned DEF WatchdogStopReturns, AgentInv
<1>20. CASE HandleSignal \/ AgentTick \/ UNCHANGED agentVars
  BY <1>1, <1>3, <1>20 DEF HandleSignal, AgentTick, agentVars, AgentInv
<1> QED
  BY <1>5, <1>6, <1>7, <1>8, <1>9, <1>10, <1>11, <1>12, <1>13, <1>14, <1>15, <1>16, <1>17, <1>18, <1>19, <1>20
  DEF AgentNext, MainSteps, StopSteps, WatchdogSteps

(***************************************************************************)
(* The agent, wherever the deadline lies and however often the bootstrap    *)
(* fails: its threads call the supervisor's stop once unless a call raised, *)
(* and an agent that has ended leaves no secret it wrote, or says so.       *)
(***************************************************************************)
THEOREM AgentHolds == AgentSpec => []AgentPromise
<1>1. AgentInit => AgentInv
  BY DEF AgentInit, AgentInv, StopInv, MainInv, SecretsRemoved, NoFlags, FlagsType, At
<1>2. AgentInv /\ [AgentNext]_agentVars => AgentInv'  BY AgentStep
<1>3. AgentInv => StopsOnce /\ SecretsRemoved  BY DEF AgentInv, StopInv, StopsOnce
<1> QED  BY <1>1, <1>2, <1>3, PTL DEF AgentSpec, AgentPromise

-----------------------------------------------------------------------------
(***************************************************************************)
(* IngestPolicy.  The inspector's count is the publisher's own: a new       *)
(* publisher has an id that the inspector has not seen, and one it has seen *)
(* shows all of its tracks.                                                 *)
(***************************************************************************)
PublisherType == [id : Sources, format : Formats, shown : {"partial", "whole"}]
InspectorType ==
  [source : spent \cup {"none"}, over : Nat, enforced : Sources \cup {"none"}, sampled : BOOLEAN]

PolicyInv ==
  /\ publisher \in {Nobody} \cup PublisherType /\ spent \subseteq Sources
  /\ inspector \in InspectorType
  /\ truth \in Nat
  /\ publisher # Nobody =>
       /\ publisher.id \in spent
       /\ inspector.source = publisher.id => inspector.over = truth /\ publisher.shown = "whole"
       /\ inspector.source # publisher.id => truth = 0

(* One observation, by the names the action gives to its parts. *)
LEMMA ObserveStep ==
  ASSUME PolicyInv, NEW rate, NEW quality, NEW kickable \in BOOLEAN, ObservePublisher(rate, quality, kickable)
  PROVE  /\ PolicyInv'
         /\ inspector'.enforced = publisher.id /\ inspector.enforced # publisher.id =>
              publisher.format = "bad" \/ truth' >= ViolationSamples
         /\ publisher.format = "bad" /\ inspector.source = publisher.id => report'.status = "REJECTED"
<1> DEFINE i == OfSource(publisher.id)
           isNew == inspector.source # publisher.id
           measured == IF isNew \/ ~i.sampled THEN "none" ELSE rate
           over == Over(i, measured)
           observed == Observed(isNew, measured)
           kicks == observed.status = "REJECTED" /\ i.enforced # publisher.id /\ kickable
<1>0. ViolationSamples \in Nat \ {0} /\ "none" \notin Sources  BY IngestPolicyAssumption
<1>1. publisher \in PublisherType /\ publisher.id \in spent /\ publisher.id \in Sources /\ publisher.id # "none"
  BY <1>0 DEF ObservePublisher, PolicyInv, PublisherType
<1>2. /\ i \in InspectorType /\ i.source = publisher.id /\ i.over = truth /\ truth \in Nat
      /\ i.enforced \in {"none", inspector.enforced}
  <2>1. /\ inspector \in InspectorType /\ truth \in Nat
        /\ inspector.source = publisher.id => inspector.over = truth
        /\ inspector.source # publisher.id => truth = 0
    BY DEF PolicyInv, ObservePublisher
  <2>2. CASE inspector.source = publisher.id
    <3>1. i = inspector  BY <2>2 DEF OfSource
    <3> QED  BY <2>1, <2>2, <3>1
  <2>3. CASE inspector.source # publisher.id
    <3>1. i = [source |-> publisher.id, over |-> 0, enforced |-> "none", sampled |-> TRUE]  BY <2>3 DEF OfSource
    <3> QED  BY <1>1, <2>1, <2>3, <3>1 DEF InspectorType
  <2> QED  BY <2>2, <2>3
<1>3. over = IF measured = "high" THEN Capped(truth + 1, ViolationSamples) ELSE IF measured = "none" THEN truth ELSE 0
  BY <1>2 DEF Over
<1>4. over \in Nat  BY <1>0, <1>2, <1>3 DEF Capped
<1>5. truth' = over  BY <1>3 DEF ObservePublisher
<1>6. /\ inspector' = [i EXCEPT !.over = over, !.enforced = IF kicks THEN publisher.id ELSE i.enforced]
      /\ publisher' = IF kicks THEN Nobody ELSE [publisher EXCEPT !.shown = "whole"]
      /\ spent' = spent
  BY <1>2 DEF ObservePublisher, Enforced, InspectorType
<1>7. observed.status = IF observed.reasons # {} THEN "REJECTED" ELSE observed.status  BY DEF Observed
<1>8. observed.reasons = FormatReasons(isNew)
        \cup (IF measured = "high" /\ over >= ViolationSamples THEN {"BITRATE_TOO_HIGH"} ELSE {})
  BY DEF Observed
<1>9. observed.status = "REJECTED" => observed.reasons # {}  BY DEF Observed
<1>10. FormatReasons(isNew) = IF publisher.shown = "partial" /\ isNew THEN {}
                              ELSE IF publisher.format = "bad" THEN {"TRACKS"} ELSE {}
  BY <1>1 DEF FormatReasons, PolicyInv, ObservePublisher, PublisherType
<1>11. observed.status = "REJECTED" => publisher.format = "bad" \/ over >= ViolationSamples
  BY <1>8, <1>9, <1>10
<1>12. publisher.format = "bad" /\ ~isNew => observed.status = "REJECTED"
  BY <1>7, <1>8, <1>10
<1>13. report' = Augmented(observed, quality, measured)  BY DEF ObservePublisher
<1>14. observed.status = "REJECTED" => report'.status = "REJECTED"  BY <1>13 DEF Augmented
<1> HIDE DEF i, measured, over, observed
<1>15. CASE kicks
  <2>1. inspector' = [i EXCEPT !.over = over, !.enforced = publisher.id] /\ publisher' = Nobody  BY <1>6, <1>15
  <2>2. inspector' \in [source : spent \cup {"none"}, over : Nat, enforced : Sources \cup {"none"}, sampled : BOOLEAN]
    BY <1>1, <1>2, <1>4, <2>1 DEF InspectorType
  <2>3. PolicyInv'  BY <1>4, <1>5, <1>6, <2>1, <2>2 DEF PolicyInv, InspectorType
  <2> QED  BY <1>5, <1>11, <1>12, <1>14, <1>15, <2>3
<1>16. CASE ~kicks
  <2>1. inspector' = [i EXCEPT !.over = over, !.enforced = i.enforced]
        /\ publisher' = [publisher EXCEPT !.shown = "whole"]
    BY <1>6, <1>16
  <2>2. /\ inspector' \in [source : spent \cup {"none"}, over : Nat, enforced : Sources \cup {"none"}, sampled : BOOLEAN]
        /\ inspector'.source = publisher.id /\ inspector'.over = over /\ inspector'.enforced = i.enforced
    BY <1>2, <1>4, <2>1 DEF InspectorType
  <2>3. publisher' \in PublisherType /\ publisher'.id = publisher.id /\ publisher'.shown = "whole"
    BY <1>1, <2>1 DEF PublisherType
  <2>4. PolicyInv'  BY <1>1, <1>4, <1>5, <1>6, <2>2, <2>3 DEF PolicyInv, InspectorType
  <2>5. inspector'.enforced = publisher.id => inspector.enforced = publisher.id  BY <1>1, <1>2, <2>2
  <2> QED  BY <1>12, <1>14, <2>4, <2>5
<1> QED  BY <1>15, <1>16

LEMMA PolicyStep == ASSUME PolicyInv, [PolicyNext]_policyVars PROVE PolicyInv'
<1>1. ASSUME NEW id \in Sources, NEW format \in Formats, NEW shown \in {"partial", "whole"},
             PublisherConnects(id, format, shown)
      PROVE  PolicyInv'
  <2>1. publisher' \in PublisherType /\ publisher'.id = id /\ id \notin spent /\ spent' = spent \cup {id}
        /\ truth' = 0 /\ inspector' = inspector
    BY <1>1 DEF PublisherConnects, PublisherType
  <2>2. inspector.source # id  BY <2>1, IngestPolicyAssumption DEF PolicyInv, InspectorType
  <2> QED  BY <2>1, <2>2 DEF PolicyInv, InspectorType
<1>2. CASE PublisherLeaves  BY <1>2 DEF PublisherLeaves, PolicyInv, InspectorType
<1>3. CASE ApiUnavailable \/ UNCHANGED policyVars
  BY <1>3 DEF ApiUnavailable, policyVars, PolicyInv, InspectorType
<1>4. CASE ObserveOffline
  <2>1. inspector' \in InspectorType  BY <1>4 DEF ObserveOffline, ResetSampling, PolicyInv, InspectorType
  <2> QED  BY <1>4, <2>1 DEF ObserveOffline, PolicyInv, InspectorType
<1> QED  BY <1>1, <1>2, <1>3, <1>4, ObserveStep DEF PolicyNext

(* Who is newly enforced against, and what is newly reported, are the work of one observation. *)
LEMMA PolicyActs ==
  ASSUME PolicyInv, [PolicyNext]_policyVars, publisher # Nobody
  PROVE  /\ inspector'.enforced = publisher.id /\ inspector.enforced # publisher.id =>
              publisher.format = "bad" \/ truth' >= ViolationSamples
         /\ publisher.format = "bad" /\ inspector.source = publisher.id
              /\ report'.id = publisher.id /\ report' # report => report'.status = "REJECTED"
<1>1. publisher.id # "none"  BY IngestPolicyAssumption DEF PolicyInv, PublisherType
<1>2. CASE \E rate \in Rates \cup {"none"}, quality \in {"good", "warned", "poor", "unavailable"}, kickable \in BOOLEAN :
             ObservePublisher(rate, quality, kickable)
  BY <1>2, ObserveStep
<1>3. CASE inspector' = inspector /\ (report' = report \/ report'.id = "none")  BY <1>1, <1>3
<1>4. PublisherLeaves \/ ApiUnavailable \/ UNCHANGED policyVars => inspector' = inspector /\ (report' = report \/ report'.id = "none")
  BY DEF PublisherLeaves, ApiUnavailable, policyVars
<1> QED  BY <1>2, <1>3, <1>4 DEF PolicyNext, PublisherConnects, ObserveOffline

(***************************************************************************)
(* The ingest policy, for every set of source ids and every number of       *)
(* samples: a publisher is kicked only for its own bad format or its own    *)
(* run of intervals above the limit, and a bad format that was seen before  *)
(* is reported as rejected whatever the quality probe finds.                *)
(***************************************************************************)
THEOREM PolicyHolds == PolicySpec => IngestPolicyPromise
<1>1. PolicyInit => PolicyInv  BY DEF PolicyInit, PolicyInv, InspectorType
<1>2. PolicyInv /\ [PolicyNext]_policyVars => PolicyInv'  BY PolicyStep
<1>3. PolicyInv /\ [PolicyNext]_policyVars =>
        [publisher # Nobody /\ inspector'.enforced = publisher.id /\ inspector.enforced # publisher.id =>
           publisher.format = "bad" \/ truth' >= ViolationSamples]_policyVars
  BY PolicyActs
<1>4. PolicyInv /\ [PolicyNext]_policyVars =>
        [publisher # Nobody /\ publisher.format = "bad" /\ inspector.source = publisher.id
           /\ report'.id = publisher.id /\ report' # report => report'.status = "REJECTED"]_policyVars
  BY PolicyActs
<1> QED  BY <1>1, <1>2, <1>3, <1>4, PTL
  DEF PolicySpec, IngestPolicyPromise, KickIsDeserved, RejectionIsReported

-----------------------------------------------------------------------------
(***************************************************************************)
(* EgressAttempt.  Both queues are blocked until both tracks are there, and *)
(* the poll's own window is the observed one.                               *)
(***************************************************************************)
AttemptInv ==
  /\ attached \subseteq Tracks /\ connected \in BOOLEAN
  /\ pipe = "none" => attached = {} /\ muxed = {}
  /\ pipe = "playing" /\ attached # Tracks => blocked = Tracks /\ muxed = {}
  /\ ~connected => readyFor = proven
  /\ ConnectedIsProven

LEMMA PollStep ==
  ASSUME AttemptInv, NEW p \in SinkProgress, NEW d \in 1 .. 2, Poll(p, d)
  PROVE  AttemptInv'
<1>1. UNCHANGED <<attached, blocked, muxed>> /\ pipe' \in {pipe, "null"}  BY DEF Poll, Quit
<1>2. /\ connected' \in BOOLEAN /\ (~connected' => readyFor' = proven') /\ ConnectedIsProven'
  <2>1. CASE UNCHANGED <<connected, readyFor, proven>>  BY <2>1 DEF AttemptInv, ConnectedIsProven
  <2>2. CASE ~UNCHANGED <<connected, readyFor, proven>>
    <3> DEFINE since == SinceReady(p.ready, d)
               observed == IF ~p.ready THEN None ELSE IF proven = None THEN 0 ELSE Older(proven, d, Stability)
               promote == ~connected /\ p.ready /\ since # None /\ since >= Stability
    <3>1. /\ readyFor' = IF connected THEN readyFor ELSE since
          /\ proven' = IF connected THEN proven ELSE observed
          /\ connected' = (connected \/ promote)
      BY <2>2 DEF Poll
    <3>2. ~connected => since = observed  BY DEF AttemptInv, SinceReady
    <3> HIDE DEF since, observed
    <3>3. CASE connected  BY <3>1, <3>3 DEF AttemptInv, ConnectedIsProven
    <3>4. CASE ~connected  BY <3>1, <3>2, <3>4 DEF ConnectedIsProven
    <3> QED  BY <3>3, <3>4
  <2> QED  BY <2>1, <2>2
<1> QED  BY <1>1, <1>2 DEF AttemptInv

LEMMA AttemptStep == ASSUME AttemptInv, [AttemptNext]_attemptVars PROVE AttemptInv'
<1>1. CASE Build  BY <1>1 DEF Build, timers, AttemptInv, ConnectedIsProven
<1>2. CASE LoopRun  BY <1>2 DEF LoopRun, timers, AttemptInv, ConnectedIsProven
<1>3. ASSUME NEW kind \in Tracks, OnSourcePad(kind) PROVE AttemptInv'
  BY <1>3 DEF OnSourcePad, AttachTrack, timers, AttemptInv, ConnectedIsProven
<1>4. ASSUME NEW kind \in Tracks, OnSourcePadFails(kind) PROVE AttemptInv'
  BY <1>4 DEF OnSourcePadFails, Quit, timers, AttemptInv, ConnectedIsProven
<1>5. ASSUME NEW kind \in Tracks, Flow(kind) PROVE AttemptInv'
  BY <1>5 DEF Flow, timers, AttemptInv, ConnectedIsProven
<1>6. CASE PollStopped  BY <1>6 DEF PollStopped, Quit, timers, AttemptInv, ConnectedIsProven
<1>7. ASSUME NEW reason, OnBusMessage(reason) PROVE AttemptInv'
  BY <1>7 DEF OnBusMessage, Quit, timers, AttemptInv, ConnectedIsProven
<1>8. CASE UNCHANGED attemptVars  BY <1>8 DEF attemptVars, AttemptInv, ConnectedIsProven
<1> QED  BY <1>1, <1>2, <1>3, <1>4, <1>5, <1>6, <1>7, <1>8, PollStep DEF AttemptNext

(***************************************************************************)
(* A publish attempt, for all its timeouts and counters: nothing reaches    *)
(* the muxer before both tracks are attached, and CONNECTED follows a whole *)
(* stability window in which every poll found the sink ready.               *)
(***************************************************************************)
THEOREM AttemptHolds == AttemptSpec => []AttemptPromise
<1>1. AttemptInit => AttemptInv  BY DEF AttemptInit, AttemptInv, ConnectedIsProven, Tracks
<1>2. AttemptInv /\ [AttemptNext]_attemptVars => AttemptInv'  BY AttemptStep
<1>3. AttemptInv => HeaderHasBothTracks /\ ConnectedIsProven  BY DEF AttemptInv, HeaderHasBothTracks
<1> QED  BY <1>1, <1>2, <1>3, PTL DEF AttemptSpec, AttemptPromise

-----------------------------------------------------------------------------
(***************************************************************************)
(* EgressGateway.  Between attempts no child lives.  While one is           *)
(* supervised, the deadline of the stop and that of the liveness or of the  *)
(* teardown stand for the time a stop and a silence may still last; while   *)
(* it is reaped, the stage and what is left of it do.                       *)
(***************************************************************************)
Clock == {Off} \cup Nat
SupType ==
  [startup : Clock, live : {Off} \cup 0 .. LivenessLimit, teardown : {Off} \cup 0 .. TeardownLimit,
   stop : {Off} \cup 0 .. TeardownLimit, pending : ChildReasons \cup {"none"}]

Between == {"start", "check", "wait"}

(* What a reaping that has come to its stage may have taken; the second one does not wait
   for a natural end. *)
FenceRoom ==
  LET first == IF fence.raising THEN NaturalLimit + TerminateLimit + KillLimit ELSE NaturalLimit IN
  IF fence.stage = "natural" THEN first
  ELSE IF fence.stage = "terminate" THEN first + TerminateLimit
  ELSE first + TerminateLimit + KillLimit

FenceType == [stage : {"natural", "terminate", "kill"}, left : Nat, raising : BOOLEAN]

GatewayTypeOK ==
  /\ gw \in Between \cup {"supervise", "fence", "decide", "ended", "raised"}
  /\ {failures, tries, stopAge, silence} \subseteq Nat /\ {stopSet, looked} \subseteq BOOLEAN
  /\ chan \in Seq(Messages) /\ sup \in SupType
  /\ gw = "fence" => fence \in FenceType

ChildInv == strays = 0 /\ (gw \in Between \cup {"decide"} => child \notin Living)

RetryInv ==
  /\ gw \notin {"ended", "raised"} /\ MaxAttempts > 0 => failures < MaxAttempts
  /\ gw \in Between => tries <= failures
  /\ gw \in {"supervise", "fence", "decide"} => tries <= failures + 1
  /\ RetriesBounded

HaltInv ==
  /\ ~stopSet \/ gw \in Between => stopAge = 0
  /\ gw = "supervise" =>
       /\ sup.stop = Off => stopAge <= 1 /\ (looked => stopAge = 0)
       /\ sup.stop # Off => stopAge + sup.stop <= 1 + TeardownLimit
  /\ gw = "fence" => stopAge + fence.left <= 1 + TeardownLimit + FenceRoom
  /\ gw = "decide" => stopAge <= 1 + TeardownLimit + ReapTime

LiveOK(s, n) ==
  /\ s.live # Off
  /\ s.teardown = Off => n + s.live <= LivenessLimit
  /\ s.teardown # Off => n + s.teardown <= LivenessLimit + TeardownLimit

SilenceInv ==
  /\ gw \in Between => egress # "CONNECTED"
  /\ egress = "CONNECTED" /\ LivenessArmed =>
       /\ gw = "supervise" => LiveOK(sup, silence)
       /\ gw = "fence" => silence + fence.left <= LivenessLimit + TeardownLimit + FenceRoom
       /\ gw = "decide" => silence <= LivenessLimit + TeardownLimit + ReapTime

LookedInv == gw = "supervise" /\ looked => 0 \notin {sup.stop, sup.teardown, sup.live}

(* Before the liveness deadline is armed, whatever a publishing child has sent is behind its connected. *)
ConnectedFirst(q, c) ==
  /\ c = "publishing" => \E j \in 1 .. Len(q) : q[j].kind = "connected"
  /\ \A i \in 1 .. Len(q) : q[i].kind = "progress" => \E j \in 1 .. i - 1 : q[j].kind = "connected"

PipeInv == gw = "supervise" /\ LivenessArmed /\ sup.live = Off => ConnectedFirst(chan, child)

GatewayInv == GatewayTypeOK /\ ChildInv /\ RetryInv /\ HaltInv /\ SilenceInv /\ LookedInv /\ PipeInv

LEMMA GatewayConstants ==
  /\ ConnectLimit \in Nat /\ TeardownLimit \in Nat /\ LivenessLimit \in Nat /\ NaturalLimit \in Nat
  /\ TerminateLimit \in Nat /\ KillLimit \in Nat /\ HeartbeatEvery \in Nat /\ MaxAttempts \in Nat
  BY GatewayAssumption

LEMMA MinOfTwo ==
  ASSUME NEW a \in Int, NEW b \in Int
  PROVE  Min({a, b}) \in {a, b} /\ Min({a, b}) <= a /\ Min({a, b}) <= b
<1>1. \E x \in {a, b} : \A y \in {a, b} : x <= y  OBVIOUS
<1> QED  BY <1>1 DEF Min

(* The looped round: what is left of the stop after the user's wish was passed on. *)
LEMMA ArmedFacts ==
  ASSUME GatewayInv, gw = "supervise"
  PROVE  /\ Armed \in SupType /\ Armed.live = sup.live /\ Armed.teardown = sup.teardown
         /\ Armed.stop = Off => stopAge = 0
         /\ Armed.stop # Off => stopAge + Armed.stop <= 1 + TeardownLimit
<1> USE GatewayConstants
<1>1. sup \in SupType /\ stopAge \in Nat /\ stopSet \in BOOLEAN  BY DEF GatewayInv, GatewayTypeOK
<1>2. CASE stopSet /\ sup.stop = Off
  <2>1. Armed = [sup EXCEPT !.stop = TeardownLimit]  BY <1>2 DEF Armed
  <2>2. /\ Armed \in SupType /\ Armed.live = sup.live /\ Armed.teardown = sup.teardown
        /\ Armed.stop = TeardownLimit
    BY <1>1, <2>1 DEF SupType
  <2>3. stopAge <= 1 /\ TeardownLimit # Off  BY <1>2 DEF GatewayInv, HaltInv, Off
  <2> QED  BY <1>1, <2>2, <2>3
<1>3. CASE ~(stopSet /\ sup.stop = Off)
  <2>1. Armed = sup  BY <1>3 DEF Armed
  <2> QED  BY <1>1, <1>3, <2>1 DEF GatewayInv, HaltInv
<1> QED  BY <1>2, <1>3

(* How a round ends: with the deadlines it leaves, or with the reaping. *)
LEMMA RoundEnds ==
  ASSUME GatewayInv, gw = "supervise", NEW s \in SupType, NEW heard, CheckDeadlines(s, heard),
         UNCHANGED <<stopSet, stopAge, strays, child>>, silence' \in Nat, chan' \in Seq(Messages),
         s.stop = Off => stopAge = 0, s.stop # Off => stopAge + s.stop <= 1 + TeardownLimit,
         egress' = "CONNECTED" /\ LivenessArmed => LiveOK(s, silence'),
         LivenessArmed /\ s.live = Off => ConnectedFirst(chan', child),
         <<failures', tries'>> \in {<<failures, tries>>, <<0, 0>>}
  PROVE  GatewayInv'
<1> USE GatewayConstants
<1>1. /\ s.live \in {Off} \cup 0 .. LivenessLimit /\ s.teardown \in {Off} \cup 0 .. TeardownLimit
      /\ s.stop \in {Off} \cup 0 .. TeardownLimit
  BY DEF SupType
<1>2. /\ stopAge \in Nat /\ failures \in Nat /\ tries \in Nat /\ stopSet \in BOOLEAN /\ looked \in BOOLEAN
  BY DEF GatewayInv, GatewayTypeOK
<1>3. gw' \in {"supervise", "fence"} /\ sup' \in SupType /\ looked' \in BOOLEAN
  <2>1. NoSup \in SupType  BY DEF NoSup, SupType, Clock, Off
  <2> QED  BY <1>2, <2>1 DEF CheckDeadlines, Fence
<1>4. failures' \in Nat /\ tries' \in Nat /\ tries' <= failures' + 1 /\ RetriesBounded'
      /\ (MaxAttempts > 0 => failures' < MaxAttempts)
  BY <1>2 DEF GatewayInv, RetryInv, RetriesBounded
<1>5. RetryInv' /\ ChildInv'  BY <1>3, <1>4 DEF GatewayInv, RetryInv, ChildInv, Between
<1>6. ~stopSet => stopAge = 0  BY DEF GatewayInv, HaltInv
<1>7. stopAge <= 1 + TeardownLimit  BY <1>1, <1>2 DEF Off
<1>8. egress' = "CONNECTED" /\ LivenessArmed => silence' <= LivenessLimit + TeardownLimit
  BY <1>1 DEF LiveOK, Off
<1>9. CASE Due(s, heard)
  <2>1. gw' = "fence" /\ fence' = [stage |-> "natural", left |-> 0, raising |-> FALSE]
    BY <1>9 DEF CheckDeadlines, Fence
  <2>2. FenceRoom' = NaturalLimit /\ fence'.left = 0  BY <2>1 DEF FenceRoom
  <2>3. GatewayTypeOK'  BY <1>2, <1>3, <1>4, <2>1 DEF GatewayTypeOK, FenceType, Between
  <2>4. HaltInv'  BY <1>2, <1>6, <1>7, <2>1, <2>2 DEF HaltInv, Between
  <2>5. egress' = "CONNECTED" /\ LivenessArmed => silence' + fence'.left <= LivenessLimit + TeardownLimit + FenceRoom'
    <3>1. silence' \in Nat  OBVIOUS
    <3>2. \A n \in Nat : n <= LivenessLimit + TeardownLimit => n + 0 <= LivenessLimit + TeardownLimit + NaturalLimit
      OBVIOUS
    <3> QED  BY <1>8, <2>2, <3>1, <3>2, Zenon
  <2>6. SilenceInv'  BY <2>1, <2>5 DEF SilenceInv, LivenessArmed, Between
  <2> QED  BY <1>5, <2>1, <2>3, <2>4, <2>6 DEF GatewayInv, LookedInv, PipeInv
<1>10. CASE ~Due(s, heard)
  <2>1. gw' = "supervise" /\ sup' = s /\ looked' = TRUE  BY <1>10 DEF CheckDeadlines
  <2>2. 0 \notin {s.stop, s.teardown, s.live}  BY <1>10 DEF Due
  <2>3. GatewayTypeOK'  BY <1>2, <1>3, <1>4, <2>1 DEF GatewayTypeOK, FenceType, Between
  <2>4. HaltInv'  BY <1>2, <1>6, <2>1 DEF HaltInv, Between
  <2>5. SilenceInv'  BY <2>1 DEF SilenceInv, LiveOK, LivenessArmed, Between
  <2>6. LookedInv' /\ PipeInv'  BY <2>1, <2>2 DEF LookedInv, PipeInv, LivenessArmed, ConnectedFirst
  <2> QED  BY <1>5, <2>3, <2>4, <2>5, <2>6 DEF GatewayInv
<1> QED  BY <1>9, <1>10

LEMMA PipeSent ==
  ASSUME NEW q \in Seq(Messages), NEW c, NEW m \in Messages, ConnectedFirst(q, c),
         m.kind = "progress" => c = "publishing"
  PROVE  ConnectedFirst(Append(q, m), IF m.kind = "connected" THEN "publishing" ELSE c)
<1> DEFINE a == Append(q, m)
<1>1. Len(q) \in Nat /\ Len(a) = Len(q) + 1 /\ a[Len(q) + 1] = m  OBVIOUS
<1>2. \A i \in 1 .. Len(q) : a[i] = q[i]  OBVIOUS
<1> HIDE DEF a
<1>3. (IF m.kind = "connected" THEN "publishing" ELSE c) = "publishing" =>
        \E j \in 1 .. Len(a) : a[j].kind = "connected"
  BY <1>1, <1>2 DEF ConnectedFirst
<1>4. ASSUME NEW i \in 1 .. Len(a), a[i].kind = "progress" PROVE \E j \in 1 .. i - 1 : a[j].kind = "connected"
  <2>1. CASE i = Len(q) + 1  BY <1>1, <1>2, <1>4, <2>1 DEF ConnectedFirst
  <2>2. CASE i # Len(q) + 1
    <3>1. i \in 1 .. Len(q) /\ q[i].kind = "progress"  BY <1>1, <1>2, <1>4, <2>2
    <3>2. PICK j \in 1 .. i - 1 : q[j].kind = "connected"  BY <3>1 DEF ConnectedFirst
    <3>3. j \in 1 .. Len(q) /\ a[j] = q[j]  BY <1>1, <1>2, <3>1, <3>2
    <3> QED  BY <3>2, <3>3
  <2> QED  BY <2>1, <2>2
<1>5. ConnectedFirst(a, IF m.kind = "connected" THEN "publishing" ELSE c)  BY <1>3, <1>4 DEF ConnectedFirst
<1> QED  BY <1>5 DEF a

LEMMA PipeRead ==
  ASSUME NEW q \in Seq(Messages), q # <<>>, NEW c, ConnectedFirst(q, c), Head(q).kind # "connected"
  PROVE  Head(q).kind # "progress" /\ ConnectedFirst(Tail(q), c)
<1> DEFINE t == Tail(q)
<1>1. Len(q) \in Nat /\ Len(q) >= 1 /\ Len(t) = Len(q) - 1 /\ Head(q) = q[1]  OBVIOUS
<1>2. \A i \in 1 .. Len(t) : t[i] = q[i + 1]  OBVIOUS
<1> HIDE DEF t
<1>3. Head(q).kind # "progress"  BY <1>1 DEF ConnectedFirst
<1>4. ASSUME NEW j \in 1 .. Len(q), q[j].kind = "connected" PROVE j - 1 \in 1 .. Len(t) /\ t[j - 1].kind = "connected"
  <2>1. j # 1  BY <1>1, <1>4
  <2>2. j - 1 \in 1 .. Len(t) /\ (j - 1) + 1 = j  BY <1>1, <2>1
  <2> QED  BY <1>2, <1>4, <2>2
<1>5. c = "publishing" => \E j \in 1 .. Len(t) : t[j].kind = "connected"  BY <1>4 DEF ConnectedFirst
<1>6. ASSUME NEW i \in 1 .. Len(t), t[i].kind = "progress" PROVE \E j \in 1 .. i - 1 : t[j].kind = "connected"
  <2>1. i + 1 \in 1 .. Len(q) /\ q[i + 1].kind = "progress"  BY <1>1, <1>2, <1>6
  <2>2. PICK j \in 1 .. (i + 1) - 1 : q[j].kind = "connected"  BY <2>1 DEF ConnectedFirst
  <2>3. j \in 1 .. Len(q)  BY <1>1, <2>2
  <2>4. j - 1 \in 1 .. Len(t) /\ t[j - 1].kind = "connected"  BY <1>4, <2>2, <2>3
  <2>5. j - 1 \in 1 .. i - 1  BY <2>2, <2>4
  <2> QED  BY <2>4, <2>5
<1>7. ConnectedFirst(t, c)  BY <1>5, <1>6 DEF ConnectedFirst
<1> QED  BY <1>3, <1>7 DEF t

(* The rounds that hear something that is accepted, and the one that hears nothing. *)
LEMMA RoundSteps ==
  ASSUME GatewayInv, ReceiveConnected \/ ReceiveProgress \/ ReceiveTeardown \/ NoMessage
  PROVE  GatewayInv'
<1> USE GatewayConstants
<1>0. gw = "supervise"  BY DEF ReceiveConnected, ReceiveProgress, ReceiveTeardown, NoMessage
<1> DEFINE a == Armed
<1>1. /\ a \in SupType /\ a.live = sup.live /\ a.teardown = sup.teardown
      /\ a.stop = Off => stopAge = 0
      /\ a.stop # Off => stopAge + a.stop <= 1 + TeardownLimit
  BY <1>0, ArmedFacts
<1> HIDE DEF a
<1>2. chan \in Seq(Messages) /\ silence \in Nat  BY DEF GatewayInv, GatewayTypeOK
<1>3. chan # <<>> => Tail(chan) \in Seq(Messages) /\ Head(chan) \in Messages  BY <1>2
<1>4. LivenessArmed /\ sup.live = Off => ConnectedFirst(chan, child)  BY <1>0 DEF GatewayInv, PipeInv
<1>5. egress = "CONNECTED" /\ LivenessArmed => LiveOK(sup, silence)  BY <1>0 DEF GatewayInv, SilenceInv
<1>6. CASE ReceiveConnected
  <2> DEFINE c == AtConnected(a)
             s == Refreshed(c)
  <2>1. /\ c \in SupType /\ c.stop = a.stop /\ c.teardown = a.teardown
        /\ c.live = IF LivenessArmed THEN LivenessLimit ELSE a.live
    <3> DEFINE n == IF LivenessArmed THEN LivenessLimit ELSE a.live
    <3>1. a \in SupType /\ a.live \in {Off} \cup 0 .. LivenessLimit  BY <1>1 DEF SupType
    <3>2. n \in {Off} \cup 0 .. LivenessLimit /\ Off \in Clock  BY <3>1 DEF Clock
    <3>3. c = [a EXCEPT !.startup = Off, !.live = n]  BY <3>1 DEF AtConnected, SupType
    <3> HIDE DEF n, c
    <3>4. c \in SupType /\ c.stop = a.stop /\ c.teardown = a.teardown /\ c.live = n
      BY <3>1, <3>2, <3>3 DEF SupType
    <3> QED  BY <3>4 DEF n
  <2> HIDE DEF c
  <2>2. /\ s \in SupType /\ s.stop = a.stop /\ s.teardown = a.teardown
        /\ LivenessArmed => s.live = LivenessLimit
    BY <2>1 DEF Refreshed, SupType
  <2>3. CheckDeadlines(s, TRUE) /\ UNCHANGED <<stopSet, stopAge, strays, child>> /\ silence' = 0
        /\ chan' = Tail(chan) /\ chan # <<>> /\ failures' = 0 /\ tries' = 0
    BY <1>6 DEF ReceiveConnected, a, c
  <2> HIDE DEF s
  <2>4. a.teardown \in {Off} \cup 0 .. TeardownLimit  BY <1>1 DEF SupType
  <2>5. LivenessArmed => LiveOK(s, silence') /\ s.live # Off  BY <2>2, <2>3, <2>4 DEF LiveOK, Off
  <2>6. chan' \in Seq(Messages) /\ silence' \in Nat /\ <<failures', tries'>> = <<0, 0>>  BY <1>3, <2>3
  <2>7. /\ s.stop = Off => stopAge = 0
        /\ s.stop # Off => stopAge + s.stop <= 1 + TeardownLimit
    BY <1>1, <2>2
  <2> QED  BY <1>0, <2>2, <2>3, <2>5, <2>6, <2>7, RoundEnds
<1>7. CASE ReceiveProgress
  <2> DEFINE s == Refreshed(a)
  <2>1. /\ s \in SupType /\ s.stop = a.stop /\ s.teardown = a.teardown
        /\ s.live = IF a.live # Off THEN LivenessLimit ELSE Off
    BY <1>1 DEF Refreshed, SupType
  <2>2. CheckDeadlines(s, TRUE) /\ UNCHANGED <<stopSet, stopAge, strays, child>> /\ silence' = 0
        /\ chan' = Tail(chan) /\ chan # <<>> /\ failures' = failures /\ tries' = tries
    BY <1>7 DEF ReceiveProgress, a
  <2> HIDE DEF s
  <2>3. LivenessArmed => sup.live # Off
    <3>1. Head(chan).kind = "progress"  BY <1>7 DEF ReceiveProgress
    <3> QED  BY <1>2, <1>4, <2>2, <3>1, PipeRead
  <2>4. a.teardown \in {Off} \cup 0 .. TeardownLimit  BY <1>1 DEF SupType
  <2>5. LivenessArmed => LiveOK(s, silence') /\ s.live # Off  BY <1>1, <2>1, <2>2, <2>3, <2>4 DEF LiveOK, Off
  <2>6. chan' \in Seq(Messages) /\ silence' \in Nat /\ <<failures', tries'>> = <<failures, tries>>  BY <1>3, <2>2
  <2>7. /\ s.stop = Off => stopAge = 0
        /\ s.stop # Off => stopAge + s.stop <= 1 + TeardownLimit
    BY <1>1, <2>1
  <2> QED  BY <1>0, <2>1, <2>2, <2>5, <2>6, <2>7, RoundEnds
<1>8. CASE ReceiveTeardown
  <2> DEFINE m == Head(chan)
             c == AtTeardown(a, m)
             s == Refreshed(c)
  <2>1. chan # <<>> /\ m.kind = "teardown" /\ m \in Messages  BY <1>3, <1>8 DEF ReceiveTeardown
  <2>2. m.r \in ChildReasons  BY <2>1 DEF Messages
  <2>3. a \in SupType /\ a.teardown \in {Off} \cup 0 .. TeardownLimit  BY <1>1 DEF SupType
  <2>4. /\ c \in SupType /\ c.stop = a.stop /\ c.live = a.live
        /\ c.teardown = IF a.teardown = Off THEN TeardownLimit ELSE a.teardown
    <3> DEFINE n == IF a.teardown = Off THEN TeardownLimit ELSE a.teardown
    <3>1. n \in {Off} \cup 0 .. TeardownLimit  BY <2>3
    <3>2. c = [a EXCEPT !.pending = m.r, !.teardown = n]  BY <2>3 DEF AtTeardown, SupType
    <3> HIDE DEF n, c, m
    <3>3. c \in SupType /\ c.stop = a.stop /\ c.live = a.live /\ c.teardown = n
      BY <2>2, <2>3, <3>1, <3>2 DEF SupType
    <3> QED  BY <3>3 DEF n
  <2> HIDE DEF c
  <2>5. /\ s \in SupType /\ s.stop = a.stop /\ s.teardown = c.teardown
        /\ s.live = IF a.live # Off THEN LivenessLimit ELSE Off
    BY <2>4 DEF Refreshed, SupType
  <2>6. CheckDeadlines(s, TRUE)
        /\ UNCHANGED <<stopSet, stopAge, strays, child, silence, egress>>
        /\ chan' = Tail(chan) /\ failures' = failures /\ tries' = tries
    BY <1>8 DEF ReceiveTeardown, a, c, history
  <2> HIDE DEF s
  <2>7. egress' = "CONNECTED" /\ LivenessArmed => LiveOK(s, silence')
    <3> SUFFICES ASSUME egress' = "CONNECTED", LivenessArmed PROVE LiveOK(s, silence')  OBVIOUS
    <3>1. LiveOK(sup, silence) /\ silence' = silence  BY <1>5, <2>6
    <3>2. sup.live \in 0 .. LivenessLimit  BY <1>1, <3>1 DEF LiveOK, SupType
    <3>3. s.teardown # Off /\ s.live # Off  BY <1>1, <2>3, <2>4, <2>5, <3>1 DEF LiveOK, Off
    <3>4. silence + s.teardown <= LivenessLimit + TeardownLimit
      BY <1>1, <1>2, <2>3, <2>4, <2>5, <3>1, <3>2 DEF LiveOK, Off
    <3> QED  BY <3>1, <3>3, <3>4 DEF LiveOK
  <2>8. LivenessArmed /\ s.live = Off => ConnectedFirst(chan', child)
    <3> SUFFICES ASSUME LivenessArmed, s.live = Off PROVE ConnectedFirst(chan', child)  OBVIOUS
    <3>1. sup.live = Off  BY <1>1, <2>5 DEF Off
    <3> QED  BY <1>2, <1>4, <2>1, <2>6, <3>1, PipeRead
  <2>9. chan' \in Seq(Messages) /\ silence' \in Nat /\ <<failures', tries'>> = <<failures, tries>>
    BY <1>2, <1>3, <2>1, <2>6
  <2>10. /\ s.stop = Off => stopAge = 0
         /\ s.stop # Off => stopAge + s.stop <= 1 + TeardownLimit
    BY <1>1, <2>5
  <2> QED  BY <1>0, <2>5, <2>6, <2>7, <2>8, <2>9, <2>10, RoundEnds
<1>9. CASE NoMessage
  <2>1. CheckDeadlines(a, FALSE) /\ UNCHANGED <<stopSet, stopAge, strays, child, silence, egress, chan, failures, tries>>
    BY <1>9 DEF NoMessage, a, history
  <2>2. egress' = "CONNECTED" /\ LivenessArmed => LiveOK(a, silence')  BY <1>1, <1>5, <2>1 DEF LiveOK
  <2>3. LivenessArmed /\ a.live = Off => ConnectedFirst(chan', child)  BY <1>1, <1>4, <2>1
  <2>4. chan' \in Seq(Messages) /\ silence' \in Nat /\ <<failures', tries'>> = <<failures, tries>>  BY <1>2, <2>1
  <2> QED  BY <1>0, <1>1, <2>1, <2>2, <2>3, <2>4, RoundEnds
<1> QED  BY <1>6, <1>7, <1>8, <1>9

(* The ends of the supervision that the child brings about. *)
LEMMA ReapBegins == ASSUME GatewayInv, ReceiveResult \/ ReceiveNothingValid \/ CallbackFails PROVE GatewayInv'
<1> USE GatewayConstants
<1>1. gw = "supervise" /\ gw' = "fence" /\ sup' = NoSup  BY DEF ReceiveResult, ReceiveNothingValid, CallbackFails, Fence
<1>2. PICK n \in 0 .. NaturalLimit, b \in BOOLEAN : fence' = [stage |-> "natural", left |-> n, raising |-> b]
  <2>1. 0 \in 0 .. NaturalLimit /\ NaturalLimit \in 0 .. NaturalLimit  OBVIOUS
  <2>2. CASE CallbackFails  BY <2>1, <2>2 DEF CallbackFails
  <2>3. CASE ReceiveResult \/ ReceiveNothingValid  BY <2>1, <2>3 DEF ReceiveResult, ReceiveNothingValid, Fence
  <2> QED  BY <2>2, <2>3
<1>3. /\ UNCHANGED <<egress, stopSet, child, looked, strays, silence, stopAge>>
      /\ UNCHANGED <<failures, tries>> \/ (failures' = 0 /\ tries' = 0)
  BY DEF ReceiveResult, ReceiveNothingValid, CallbackFails, history
<1>4. chan \in Seq(Messages)  BY DEF GatewayInv, GatewayTypeOK
<1>5. chan' \in Seq(Messages)  BY <1>4 DEF ReceiveResult, ReceiveNothingValid, CallbackFails
<1>6. NoSup \in SupType  BY DEF NoSup, SupType, Clock, Off
<1>7. fence'.left = n /\ FenceRoom' \in Nat /\ FenceRoom' >= NaturalLimit /\ n \in Nat /\ n <= NaturalLimit
  BY <1>2 DEF FenceRoom
<1>8. stopAge \in Nat /\ silence \in Nat /\ sup \in SupType  BY DEF GatewayInv, GatewayTypeOK
<1>9. /\ sup.live \in {Off} \cup 0 .. LivenessLimit /\ sup.teardown \in {Off} \cup 0 .. TeardownLimit
      /\ sup.stop \in {Off} \cup 0 .. TeardownLimit
  BY <1>8 DEF SupType
<1>10. stopAge <= 1 + TeardownLimit  BY <1>1, <1>8, <1>9 DEF GatewayInv, HaltInv, Off
<1>11. egress = "CONNECTED" /\ LivenessArmed => silence <= LivenessLimit + TeardownLimit
  BY <1>1, <1>8, <1>9 DEF GatewayInv, SilenceInv, LiveOK, Off
<1>12. GatewayTypeOK'
  <2>1. fence' \in FenceType  BY <1>2, <1>7 DEF FenceType
  <2> QED  BY <1>1, <1>3, <1>5, <1>6, <2>1 DEF GatewayInv, GatewayTypeOK
<1>13. ChildInv' /\ RetryInv'  BY <1>1, <1>3 DEF GatewayInv, ChildInv, RetryInv, RetriesBounded, Between
<1>14. HaltInv'
  <2> DEFINE room == FenceRoom'
  <2>0. room \in Nat /\ n <= room  BY <1>7
  <2> HIDE DEF room
  <2>1. stopAge + n <= 1 + TeardownLimit + room  BY <1>7, <1>8, <1>10, <2>0
  <2> QED  BY <1>1, <1>3, <1>7, <2>1 DEF GatewayInv, HaltInv, Between, room
<1>15. SilenceInv'
  <2> DEFINE room == FenceRoom'
  <2>0. room \in Nat /\ n <= room  BY <1>7
  <2> HIDE DEF room
  <2>1. egress = "CONNECTED" /\ LivenessArmed => silence + n <= LivenessLimit + TeardownLimit + room
    BY <1>7, <1>8, <1>11, <2>0
  <2> QED  BY <1>1, <1>3, <1>7, <2>1 DEF SilenceInv, LivenessArmed, Between, room
<1> QED  BY <1>1, <1>12, <1>13, <1>14, <1>15 DEF GatewayInv, LookedInv, PipeInv

(* reap_child: a stage begins with what the stages before have left. *)
LEMMA FenceSteps == ASSUME GatewayInv, FenceDone \/ FenceEscalates PROVE GatewayInv'
<1> USE GatewayConstants
<1> DEFINE B == 1 + TeardownLimit
           C == LivenessLimit + TeardownLimit
           R == ReapTime
<1>1. gw = "fence"  BY DEF FenceDone, FenceEscalates
<1>2. UNCHANGED <<egress, failures, stopSet, chan, sup, looked, strays, silence, stopAge, tries>>
  BY DEF FenceDone, FenceEscalates, history
<1>3. /\ fence \in FenceType /\ fence.stage \in {"natural", "terminate", "kill"} /\ fence.left \in Nat
      /\ fence.raising \in BOOLEAN /\ stopAge \in Nat /\ silence \in Nat
  BY <1>1 DEF GatewayInv, GatewayTypeOK, FenceType
<1>4. /\ stopAge + fence.left <= B + FenceRoom
      /\ egress = "CONNECTED" /\ LivenessArmed => silence + fence.left <= C + FenceRoom
  BY <1>1 DEF GatewayInv, HaltInv, SilenceInv
<1>5. R \in Nat /\ FenceRoom \in Nat /\ FenceRoom <= R  BY <1>3 DEF FenceRoom, ReapTime
<1>6. CASE FenceDone
  <2>1. gw' \in {"decide", "raised"} /\ child = "exited" /\ child' = child  BY <1>6 DEF FenceDone, Reaped
  <2>2. stopAge <= B + R /\ (egress = "CONNECTED" /\ LivenessArmed => silence <= C + R)  BY <1>3, <1>4, <1>5
  <2>3. GatewayTypeOK'  BY <1>2, <2>1 DEF GatewayInv, GatewayTypeOK
  <2>4. ChildInv'  BY <1>2, <2>1 DEF GatewayInv, ChildInv, Living, Reporting
  <2>5. RetryInv'  BY <1>1, <1>2, <2>1 DEF GatewayInv, RetryInv, RetriesBounded, Between
  <2>6. HaltInv'  BY <1>1, <1>2, <2>1, <2>2 DEF GatewayInv, HaltInv, Between
  <2>7. SilenceInv'  BY <1>2, <2>1, <2>2 DEF SilenceInv, LivenessArmed, Between
  <2> QED  BY <2>1, <2>3, <2>4, <2>5, <2>6, <2>7 DEF GatewayInv, LookedInv, PipeInv
<1>7. ASSUME FenceEscalates, gw' = "fence" PROVE GatewayInv'
  <2>1. /\ fence.left = 0
        /\ \/ fence.stage = "natural" /\ fence' = [fence EXCEPT !.stage = "terminate", !.left = TerminateLimit]
           \/ fence.stage = "terminate" /\ fence' = [fence EXCEPT !.stage = "kill", !.left = KillLimit]
           \/ /\ fence.stage = "kill" /\ ~fence.raising
              /\ fence' = [stage |-> "natural", left |-> 0, raising |-> TRUE]
    BY <1>7, <1>3 DEF FenceEscalates
  <2>2. fence' \in FenceType
    <3>1. TerminateLimit \in Nat /\ KillLimit \in Nat /\ 0 \in Nat  OBVIOUS
    <3>2. CASE fence' = [fence EXCEPT !.stage = "terminate", !.left = TerminateLimit]
      BY <1>3, <3>1, <3>2 DEF FenceType
    <3>3. CASE fence' = [fence EXCEPT !.stage = "kill", !.left = KillLimit]  BY <1>3, <3>1, <3>3 DEF FenceType
    <3>4. CASE fence' = [stage |-> "natural", left |-> 0, raising |-> TRUE]
      <4>1. TRUE \in BOOLEAN  OBVIOUS
      <4> QED  BY <3>1, <3>4, <4>1 DEF FenceType
    <3> QED  BY <2>1, <3>2, <3>3, <3>4
  <2>3. FenceRoom' = FenceRoom + fence'.left
    <3>1. CASE fence.stage = "natural"  BY <1>3, <2>1, <3>1 DEF FenceRoom, FenceType
    <3>2. CASE fence.stage = "terminate"  BY <1>3, <2>1, <3>2 DEF FenceRoom, FenceType
    <3>3. CASE fence.stage = "kill"  BY <2>1, <3>3 DEF FenceRoom
    <3> QED  BY <2>1, <3>1, <3>2, <3>3
  <2> DEFINE n == fence'.left
  <2>4. n \in Nat  BY <2>2 DEF FenceType
  <2> HIDE DEF n
  <2>5. stopAge <= B + FenceRoom /\ (egress = "CONNECTED" /\ LivenessArmed => silence <= C + FenceRoom)
    BY <1>3, <1>4, <2>1
  <2>6. /\ stopAge + n <= B + (FenceRoom + n)
        /\ egress = "CONNECTED" /\ LivenessArmed => silence + n <= C + (FenceRoom + n)
    BY <1>3, <1>5, <2>4, <2>5
  <2>7. GatewayTypeOK'  BY <1>2, <1>7, <2>2 DEF GatewayInv, GatewayTypeOK
  <2>8. ChildInv' /\ RetryInv'
    BY <1>1, <1>2, <1>7 DEF GatewayInv, ChildInv, RetryInv, RetriesBounded, Between
  <2>9. HaltInv'  BY <1>1, <1>2, <1>7, <2>3, <2>6 DEF GatewayInv, HaltInv, Between, n
  <2>10. SilenceInv'  BY <1>2, <1>7, <2>3, <2>6 DEF SilenceInv, LivenessArmed, Between, n
  <2> QED  BY <1>7, <2>7, <2>8, <2>9, <2>10 DEF GatewayInv, LookedInv, PipeInv
<1>8. ASSUME FenceEscalates, gw' # "fence" PROVE GatewayInv'
  <2>1. gw' = "raised"  BY <1>1, <1>8 DEF FenceEscalates
  <2>2. GatewayTypeOK'  BY <1>2, <2>1 DEF GatewayInv, GatewayTypeOK
  <2>3. ChildInv' /\ RetryInv' /\ HaltInv' /\ SilenceInv'
    BY <1>1, <1>2, <2>1 DEF GatewayInv, ChildInv, RetryInv, RetriesBounded, HaltInv, SilenceInv, Between
  <2> QED  BY <2>1, <2>2, <2>3 DEF GatewayInv, LookedInv, PipeInv
<1> QED  BY <1>6, <1>7, <1>8

(* What happens outside the supervision of an attempt. *)
LEMMA RunSteps ==
  ASSUME GatewayInv,
         \/ Start \/ Stopped \/ Decide \/ WaitOver \/ StatusFails
         \/ \E answer, expected : GuardBlocks(answer, expected) \/ StartAttempt(answer, expected)
  PROVE  GatewayInv'
<1> USE GatewayConstants
<1>0. /\ failures \in Nat /\ tries \in Nat /\ stopAge \in Nat /\ silence \in Nat
      /\ stopSet \in BOOLEAN /\ looked \in BOOLEAN /\ sup \in SupType /\ chan \in Seq(Messages)
  BY DEF GatewayInv, GatewayTypeOK
<1>1. CASE Start \/ Stopped \/ WaitOver
  <2>1. /\ gw \in Between /\ gw' \in {"check", "ended"}
        /\ UNCHANGED <<failures, stopSet, child, chan, sup, looked, strays, silence, stopAge, tries>>
        /\ gw' = "check" => egress' # "CONNECTED"
    BY <1>1 DEF Start, Stopped, WaitOver, history, Between, GatewayInv, SilenceInv
  <2>2. GatewayTypeOK'  BY <1>0, <2>1 DEF GatewayTypeOK, Between
  <2>3. ChildInv' /\ RetryInv' /\ HaltInv' /\ SilenceInv'
    BY <2>1 DEF GatewayInv, ChildInv, RetryInv, RetriesBounded, HaltInv, SilenceInv, Between
  <2> QED  BY <2>1, <2>2, <2>3 DEF GatewayInv, LookedInv, PipeInv
<1>e. CASE StatusFails
  <2>1. gw' = "raised" /\ UNCHANGED <<failures, stopSet, child, chan, sup, looked, strays, silence, stopAge, tries>>
    BY <1>e DEF StatusFails, history
  <2>2. GatewayTypeOK'  BY <1>0, <2>1 DEF GatewayTypeOK
  <2>3. ChildInv' /\ RetryInv' /\ HaltInv' /\ SilenceInv'
    BY <2>1 DEF GatewayInv, ChildInv, RetryInv, RetriesBounded, HaltInv, SilenceInv, Between
  <2> QED  BY <2>1, <2>2, <2>3 DEF GatewayInv, LookedInv, PipeInv
<1>2. CASE Decide
  <2>1. /\ gw = "decide" /\ gw' \in {"wait", "ended"}
        /\ UNCHANGED <<stopSet, child, chan, sup, looked, strays, silence, stopAge, tries>>
        /\ failures' \in {failures, failures + 1}
        /\ gw' = "wait" => ~stopSet /\ failures' = failures + 1 /\ ~Exhausted(failures + 1) /\ egress' # "CONNECTED"
    BY <1>2 DEF Decide, history
  <2>2. GatewayTypeOK'  BY <1>0, <2>1 DEF GatewayTypeOK, Between
  <2>3. ChildInv'  BY <2>1 DEF GatewayInv, ChildInv, Between
  <2>4. RetryInv'
    <3>1. tries <= failures + 1 /\ (MaxAttempts > 0 => failures < MaxAttempts /\ tries <= MaxAttempts)
      BY <2>1 DEF GatewayInv, RetryInv, RetriesBounded
    <3>2. CASE gw' = "ended"  BY <2>1, <3>1, <3>2 DEF RetryInv, RetriesBounded, Between
    <3>3. CASE gw' = "wait"
      <4>1. MaxAttempts > 0 => failures + 1 < MaxAttempts  BY <1>0, <2>1, <3>3 DEF Exhausted
      <4>2. tries' <= failures' /\ (MaxAttempts > 0 => failures' < MaxAttempts /\ tries' <= MaxAttempts)
        BY <2>1, <3>1, <3>3, <4>1
      <4> QED  BY <3>3, <4>2 DEF RetryInv, RetriesBounded, Between
    <3> QED  BY <2>1, <3>2, <3>3
  <2>5. HaltInv' /\ SilenceInv'  BY <2>1 DEF GatewayInv, HaltInv, SilenceInv, Between
  <2> QED  BY <2>1, <2>2, <2>3, <2>4, <2>5 DEF GatewayInv, LookedInv, PipeInv
<1>3. ASSUME NEW answer, NEW expected, GuardBlocks(answer, expected) \/ StartAttempt(answer, expected)
      PROVE  GatewayInv'
  <2>1. /\ gw = "check" /\ ~stopSet /\ gw' \in {"decide", "supervise"}
        /\ UNCHANGED <<egress, failures, stopSet, looked, stopAge>>
        /\ tries' = Min({tries + 1, MaxAttempts + 1})
    BY <1>3 DEF GuardBlocks, StartAttempt
  <2>2. child \notin Living /\ strays = 0 /\ stopAge = 0 /\ egress # "CONNECTED"
        /\ tries <= failures /\ (MaxAttempts > 0 => failures < MaxAttempts)
    BY <2>1 DEF GatewayInv, ChildInv, HaltInv, SilenceInv, RetryInv, Between
  <2>3. /\ strays' = 0 /\ (gw' = "decide" => child' \notin Living)
    BY <1>3, <2>2 DEF GuardBlocks, StartAttempt, Living, Reporting
  <2>4. tries' \in Nat /\ tries' <= tries + 1
    <3>1. tries + 1 \in Nat /\ MaxAttempts + 1 \in Nat  BY <1>0
    <3> DEFINE n == Min({tries + 1, MaxAttempts + 1})
    <3>2. n \in {tries + 1, MaxAttempts + 1} /\ n <= tries + 1  BY <3>1, MinOfTwo
    <3>3. tries' = n  BY <2>1
    <3> HIDE DEF n
    <3> QED  BY <3>1, <3>2, <3>3
  <2>5. StartupDeadline \in Clock  BY DEF StartupDeadline, Clock
  <2>6. /\ sup' \in SupType /\ chan' \in Seq(Messages) /\ silence' \in Nat
        /\ gw' = "supervise" => sup'.stop = Off /\ sup'.live = Off /\ sup'.teardown = Off /\ chan' = <<>> /\ child' = "alive"
    <3>1. CASE UNCHANGED <<chan, sup, silence>> /\ gw' = "decide"  BY <1>0, <3>1
    <3>2. CASE chan' = <<>> /\ silence' = 0 /\ sup' = [NoSup EXCEPT !.startup = StartupDeadline] /\ child' = "alive"
      <4>1. sup' \in SupType /\ sup'.stop = Off /\ sup'.live = Off /\ sup'.teardown = Off
        BY <2>5, <3>2 DEF NoSup, SupType
      <4>2. <<>> \in Seq(Messages)  OBVIOUS
      <4> QED  BY <3>2, <4>1, <4>2
    <3> QED  BY <1>3, <3>1, <3>2 DEF GuardBlocks, StartAttempt
  <2>7. GatewayTypeOK'  BY <1>0, <2>1, <2>4, <2>6 DEF GatewayTypeOK, Between
  <2>8. ChildInv'  BY <2>1, <2>3 DEF ChildInv, Between
  <2>9. RetryInv'  BY <1>0, <2>1, <2>2, <2>4 DEF RetryInv, RetriesBounded, Between
  <2>10. HaltInv'  BY <2>1, <2>2, <2>6 DEF HaltInv, Between, ReapTime
  <2>11. SilenceInv'  BY <2>1, <2>2 DEF SilenceInv, Between
  <2>12. LookedInv'  BY <2>1, <2>6 DEF LookedInv, Off
  <2>13. PipeInv'
    <3>1. Len(<<>>) = 0  OBVIOUS
    <3> QED  BY <2>1, <2>6, <3>1 DEF PipeInv, ConnectedFirst
  <2> QED  BY <2>7, <2>8, <2>9, <2>10, <2>11, <2>12, <2>13 DEF GatewayInv
<1> QED  BY <1>1, <1>e, <1>2, <1>3

(* The child's own steps and the signal. *)
LEMMA ChildSteps ==
  ASSUME GatewayInv, ChildChanges \/ RequestStopSignal \/ \E m \in Messages : ChildSends(m)
  PROVE  GatewayInv'
<1>0. chan \in Seq(Messages)  BY DEF GatewayInv, GatewayTypeOK
<1>1. ASSUME UNCHANGED <<gw, egress, failures, stopSet, sup, fence, looked, strays, silence, stopAge, tries>>,
             child \in Living, chan' \in Seq(Messages), PipeInv'
      PROVE  GatewayInv'
  <2>1. GatewayTypeOK'  BY <1>1 DEF GatewayInv, GatewayTypeOK
  <2>2. ChildInv' /\ RetryInv' /\ LookedInv'  BY <1>1 DEF GatewayInv, ChildInv, RetryInv, RetriesBounded, LookedInv
  <2>3. HaltInv'  BY <1>1 DEF GatewayInv, HaltInv, FenceRoom
  <2>4. SilenceInv'  BY <1>1 DEF GatewayInv, SilenceInv, LiveOK, FenceRoom, LivenessArmed
  <2> QED  BY <1>1, <2>1, <2>2, <2>3, <2>4 DEF GatewayInv
<1>2. CASE ChildChanges
  <2>1. child' \in {"deaf", "stuck", "exited"} /\ chan' = chan /\ gw' = gw /\ sup' = sup  BY <1>2 DEF ChildChanges
  <2>2. PipeInv'
    <3> SUFFICES ASSUME gw = "supervise", LivenessArmed, sup.live = Off PROVE ConnectedFirst(chan, child')
      BY <2>1 DEF PipeInv, LivenessArmed
    <3>1. ConnectedFirst(chan, child)  BY DEF GatewayInv, PipeInv
    <3> QED  BY <2>1, <3>1 DEF ConnectedFirst
  <2> QED  BY <1>0, <1>1, <1>2, <2>1, <2>2 DEF ChildChanges, history
<1>3. ASSUME NEW m \in Messages, ChildSends(m) PROVE GatewayInv'
  <2>1. /\ chan' = Append(chan, m) /\ child' = IF m.kind = "connected" THEN "publishing" ELSE child
        /\ m.kind = "progress" => child = "publishing"
        /\ child \in Living /\ gw' = gw /\ sup' = sup
    BY <1>3 DEF ChildSends, Living
  <2>2. PipeInv'
    <3> SUFFICES ASSUME gw = "supervise", LivenessArmed, sup.live = Off PROVE ConnectedFirst(chan', child')
      BY <2>1 DEF PipeInv, LivenessArmed
    <3>1. ConnectedFirst(chan, child)  BY DEF GatewayInv, PipeInv
    <3> QED  BY <1>0, <2>1, <3>1, PipeSent
  <2>3. chan' \in Seq(Messages)  BY <1>0, <2>1
  <2> QED  BY <1>1, <1>3, <2>1, <2>2, <2>3 DEF ChildSends, history
<1>4. CASE RequestStopSignal
  <2>1. /\ UNCHANGED <<gw, egress, failures, child, chan, sup, fence, looked, strays, silence, stopAge, tries>>
        /\ stopSet' = TRUE /\ ~stopSet
    BY <1>4 DEF RequestStopSignal, history
  <2>2. GatewayTypeOK'  BY <2>1 DEF GatewayInv, GatewayTypeOK
  <2>3. ChildInv' /\ RetryInv' /\ LookedInv'  BY <2>1 DEF GatewayInv, ChildInv, RetryInv, RetriesBounded, LookedInv
  <2>4. HaltInv'  BY <2>1 DEF GatewayInv, HaltInv, FenceRoom
  <2>5. SilenceInv'  BY <2>1 DEF GatewayInv, SilenceInv, LiveOK, FenceRoom, LivenessArmed
  <2>6. PipeInv'  BY <2>1 DEF GatewayInv, PipeInv, ConnectedFirst, LivenessArmed
  <2> QED  BY <2>2, <2>3, <2>4, <2>5, <2>6 DEF GatewayInv
<1> QED  BY <1>2, <1>3, <1>4

LEMMA LessFacts ==
  ASSUME NEW b \in Nat, NEW n \in {Off} \cup 0 .. b
  PROVE  /\ Less(n) \in {Off} \cup 0 .. b /\ (n = Off <=> Less(n) = Off) /\ (n > 0 => Less(n) = n - 1)
         /\ n = 0 => Less(n) = 0
  BY DEF Less, Off

(* A tick: what it adds to an age it takes from the deadline that bounds it. *)
LEMMA GatewayTickStep == ASSUME GatewayInv, GatewayTick PROVE GatewayInv'
<1> USE GatewayConstants
<1>0. /\ failures \in Nat /\ tries \in Nat /\ stopAge \in Nat /\ silence \in Nat
      /\ stopSet \in BOOLEAN /\ sup \in SupType /\ chan \in Seq(Messages)
  BY DEF GatewayInv, GatewayTypeOK
<1>1. /\ UNCHANGED <<gw, egress, failures, stopSet, child, chan, strays, tries>> /\ looked' = FALSE
  BY DEF GatewayTick
<1>2. /\ sup.live \in {Off} \cup 0 .. LivenessLimit /\ sup.teardown \in {Off} \cup 0 .. TeardownLimit
      /\ sup.stop \in {Off} \cup 0 .. TeardownLimit /\ sup.startup \in Clock
  BY <1>0 DEF SupType
<1> DEFINE u == Less(sup.startup)
           v == Less(sup.live)
           w == Less(sup.teardown)
           x == Less(sup.stop)
<1>3. /\ v \in {Off} \cup 0 .. LivenessLimit /\ w \in {Off} \cup 0 .. TeardownLimit
      /\ x \in {Off} \cup 0 .. TeardownLimit /\ u \in Clock
  <2>1. u \in Clock  BY <1>2 DEF Less, Clock, Off
  <2> QED  BY <1>2, <2>1, LessFacts
<1>4. sup' = [sup EXCEPT !.startup = u, !.live = v, !.teardown = w, !.stop = x]
  BY <1>0 DEF GatewayTick, SupType
<1>5. /\ (sup.live = Off <=> v = Off) /\ (sup.live > 0 => v = sup.live - 1)
      /\ (sup.teardown = Off <=> w = Off) /\ (sup.teardown > 0 => w = sup.teardown - 1)
      /\ (sup.stop = Off <=> x = Off) /\ (sup.stop > 0 => x = sup.stop - 1)
  BY <1>2, LessFacts
<1> HIDE DEF u, v, w, x
<1>6. sup' \in SupType /\ sup'.live = v /\ sup'.teardown = w /\ sup'.stop = x  BY <1>0, <1>3, <1>4 DEF SupType
<1>7. Bound \in Nat  BY DEF Bound, ReapTime
<1>8. silence' \in Nat /\ silence' <= silence + 1
  <2>1. silence + 1 \in Nat  BY <1>0
  <2>2. CASE egress = "CONNECTED"
    <3>1. silence' \in {silence + 1, Bound} /\ silence' <= silence + 1  BY <1>7, <2>1, <2>2, MinOfTwo DEF GatewayTick
    <3> QED  BY <1>7, <2>1, <2>2, <3>1
  <2>3. CASE egress # "CONNECTED"  BY <1>0, <2>3 DEF GatewayTick
  <2> QED  BY <2>2, <2>3
<1>9. stopAge' \in Nat /\ (~stopSet => stopAge' = 0) /\ stopAge' <= stopAge + 1
  <2>1. stopAge + 1 \in Nat  BY <1>0
  <2>2. CASE stopSet
    <3>1. stopAge' \in {stopAge + 1, Bound} /\ stopAge' <= stopAge + 1  BY <1>7, <2>1, <2>2, MinOfTwo DEF GatewayTick
    <3> QED  BY <1>7, <2>1, <2>2, <3>1
  <2>3. CASE ~stopSet  BY <1>0, <2>3 DEF GatewayTick
  <2> QED  BY <2>2, <2>3
<1>10. ChildInv' /\ RetryInv'  BY <1>1 DEF GatewayInv, ChildInv, RetryInv, RetriesBounded
<1>11. LookedInv'  BY <1>1 DEF LookedInv
<1>12. PipeInv'
  <2>1. v = Off => sup.live = Off  BY <1>5
  <2> QED  BY <1>1, <1>6, <2>1 DEF GatewayInv, PipeInv, ConnectedFirst, LivenessArmed
<1>13. CASE gw = "supervise"
  <2>1. looked /\ sup.stop # 0 /\ sup.teardown # 0 /\ sup.live # 0
    BY <1>13 DEF GatewayTick, GatewayInv, LookedInv
  <2>2. GatewayTypeOK'  BY <1>0, <1>1, <1>6, <1>8, <1>9, <1>13 DEF GatewayInv, GatewayTypeOK
  <2>3. /\ sup.stop = Off => stopAge = 0
        /\ sup.stop # Off => stopAge + sup.stop <= 1 + TeardownLimit
    BY <1>13, <2>1 DEF GatewayInv, HaltInv
  <2>4. /\ x = Off => stopAge' <= 1
        /\ x # Off => stopAge' + x <= 1 + TeardownLimit
    BY <1>0, <1>2, <1>5, <1>9, <2>1, <2>3 DEF Off
  <2>5. HaltInv'  BY <1>1, <1>6, <1>9, <1>13, <2>4 DEF HaltInv, Between
  <2>6. egress = "CONNECTED" /\ LivenessArmed => LiveOK(sup', silence')
    <3> SUFFICES ASSUME egress = "CONNECTED", LivenessArmed PROVE LiveOK(sup', silence')  OBVIOUS
    <3>1. LiveOK(sup, silence)  BY <1>13 DEF GatewayInv, SilenceInv
    <3>2. sup.live > 0 /\ (sup.teardown # Off => sup.teardown > 0)  BY <1>2, <2>1, <3>1 DEF LiveOK, Off
    <3>3. v # Off /\ v = sup.live - 1 /\ (w # Off => w = sup.teardown - 1 /\ sup.teardown # Off)
      BY <1>2, <1>5, <3>1, <3>2 DEF LiveOK
    <3>4. w = Off => silence' + v <= LivenessLimit
      BY <1>0, <1>2, <1>5, <1>8, <3>1, <3>3 DEF LiveOK, Off
    <3>5. w # Off => silence' + w <= LivenessLimit + TeardownLimit
      BY <1>0, <1>2, <1>8, <3>1, <3>3 DEF LiveOK, Off
    <3> QED  BY <1>6, <3>3, <3>4, <3>5 DEF LiveOK
  <2>7. SilenceInv'  BY <1>1, <1>13, <2>6 DEF SilenceInv, LiveOK, LivenessArmed, Between
  <2> QED  BY <1>10, <1>11, <1>12, <2>2, <2>5, <2>7 DEF GatewayInv
<1>14. CASE gw = "fence"
  <2>1. /\ fence \in FenceType /\ fence.left > 0 /\ fence.left \in Nat
    BY <1>14 DEF GatewayTick, GatewayInv, GatewayTypeOK, FenceType
  <2> DEFINE n == fence.left - 1
  <2>2. fence' = [fence EXCEPT !.left = n]  BY <1>14, <2>1 DEF GatewayTick, Less
  <2>3. n \in Nat /\ fence.left = n + 1  BY <2>1
  <2> HIDE DEF n
  <2>4. /\ fence' \in FenceType /\ fence'.left = n /\ fence'.stage = fence.stage
        /\ fence'.raising = fence.raising /\ fence.raising \in BOOLEAN
    BY <2>1, <2>2, <2>3 DEF FenceType
  <2>5. FenceRoom' = FenceRoom /\ FenceRoom \in Nat  BY <2>1, <2>4 DEF FenceRoom, FenceType
  <2>6. /\ stopAge + (n + 1) <= 1 + TeardownLimit + FenceRoom
        /\ egress = "CONNECTED" /\ LivenessArmed =>
             silence + (n + 1) <= LivenessLimit + TeardownLimit + FenceRoom
    BY <1>14, <2>3 DEF GatewayInv, HaltInv, SilenceInv
  <2>7. /\ stopAge' + n <= 1 + TeardownLimit + FenceRoom
        /\ egress = "CONNECTED" /\ LivenessArmed =>
             silence' + n <= LivenessLimit + TeardownLimit + FenceRoom
    <3>1. \A a \in Nat, b \in Nat, c \in Nat :
            b <= a + 1 /\ a + (n + 1) <= c + FenceRoom => b + n <= c + FenceRoom
      BY <2>3, <2>5
    <3>2. 1 + TeardownLimit \in Nat /\ LivenessLimit + TeardownLimit \in Nat  OBVIOUS
    <3> QED  BY <1>0, <1>8, <1>9, <2>6, <3>1, <3>2, Zenon
  <2>8. GatewayTypeOK'  BY <1>0, <1>1, <1>6, <1>8, <1>9, <1>14, <2>4 DEF GatewayInv, GatewayTypeOK
  <2>9. HaltInv'  BY <1>1, <1>9, <1>14, <2>4, <2>5, <2>7 DEF HaltInv, Between
  <2>10. SilenceInv'  BY <1>1, <1>14, <2>4, <2>5, <2>7 DEF SilenceInv, LivenessArmed, Between
  <2> QED  BY <1>10, <1>11, <1>12, <2>8, <2>9, <2>10 DEF GatewayInv
<1>15. CASE gw = "wait"
  <2>1. ~stopSet  BY <1>15 DEF GatewayTick
  <2>2. GatewayTypeOK'  BY <1>0, <1>1, <1>6, <1>8, <1>9, <1>15 DEF GatewayInv, GatewayTypeOK
  <2>3. HaltInv' /\ SilenceInv'
    BY <1>1, <1>9, <1>15, <2>1 DEF GatewayInv, HaltInv, SilenceInv, Between
  <2> QED  BY <1>10, <1>11, <1>12, <2>2, <2>3 DEF GatewayInv
<1> QED  BY <1>13, <1>14, <1>15 DEF GatewayTick

LEMMA GatewayStep == ASSUME GatewayInv, [GatewayNext]_gatewayVars PROVE GatewayInv'
<1>1. CASE UNCHANGED gatewayVars
  BY <1>1 DEF gatewayVars, GatewayInv, GatewayTypeOK, ChildInv, RetryInv, RetriesBounded, HaltInv, FenceRoom,
              SilenceInv, LiveOK, LookedInv, PipeInv, ConnectedFirst, LivenessArmed
<1>2. CASE GatewaySteps  BY <1>2, RunSteps, RoundSteps, ReapBegins, FenceSteps DEF GatewaySteps
<1> QED  BY <1>1, <1>2, GatewayTickStep, ChildSteps DEF GatewayNext

(***************************************************************************)
(* The gateway, for all its limits, pauses and numbers of attempts and      *)
(* whatever its child does: no attempt starts while an earlier child lives, *)
(* a stop is carried out within its window, CONNECTED is not kept beyond    *)
(* the silence that the deadlines allow, and the retries are bounded.       *)
(***************************************************************************)
THEOREM GatewayHolds == GatewaySpec => []GatewayPromise
<1> USE GatewayConstants
<1>1. GatewayInit => GatewayInv
  <2> SUFFICES ASSUME GatewayInit PROVE GatewayInv  OBVIOUS
  <2>1. NoSup \in SupType /\ <<>> \in Seq(Messages)  BY DEF NoSup, SupType, Clock, Off
  <2>2. GatewayTypeOK
    <3>1. gw = "start" /\ {failures, tries, stopAge, silence} \subseteq Nat  BY DEF GatewayInit
    <3>2. stopSet \in BOOLEAN /\ looked \in BOOLEAN  BY DEF GatewayInit
    <3>3. {stopSet, looked} \subseteq BOOLEAN  BY <3>2, Zenon
    <3>4. chan \in Seq(Messages) /\ sup \in SupType  BY <2>1 DEF GatewayInit
    <3>5. gw \in Between /\ gw # "fence"  BY <3>1 DEF Between
    <3> QED  BY <3>1, <3>3, <3>4, <3>5 DEF GatewayTypeOK
  <2> QED
    BY <2>2 DEF GatewayInit, GatewayInv, ChildInv, Living, Reporting, RetryInv, RetriesBounded, HaltInv, SilenceInv,
                LookedInv, PipeInv, Between
<1>2. GatewayInv /\ [GatewayNext]_gatewayVars => GatewayInv'  BY GatewayStep
<1>3. GatewayInv => OnePublisher /\ RetriesBounded  BY DEF GatewayInv, ChildInv, OnePublisher, RetryInv
<1>4. ASSUME GatewayInv, ~Ended
      PROVE  /\ stopAge <= 1 + TeardownLimit + ReapTime
             /\ egress = "CONNECTED" /\ LivenessArmed => silence <= LivenessLimit + TeardownLimit + ReapTime
  <2>0. ReapTime \in Nat  BY DEF ReapTime
  <2>1. stopAge \in Nat /\ silence \in Nat /\ sup \in SupType  BY <1>4 DEF GatewayInv, GatewayTypeOK
  <2>2. CASE gw \in Between  BY <1>4, <2>0, <2>1, <2>2 DEF GatewayInv, HaltInv, SilenceInv
  <2>3. CASE gw = "supervise"
    <3>1. /\ sup.live \in {Off} \cup 0 .. LivenessLimit /\ sup.teardown \in {Off} \cup 0 .. TeardownLimit
          /\ sup.stop \in {Off} \cup 0 .. TeardownLimit
      BY <2>1 DEF SupType
    <3>2. stopAge <= 1 + TeardownLimit  BY <1>4, <2>1, <2>3, <3>1 DEF GatewayInv, HaltInv, Off
    <3>3. egress = "CONNECTED" /\ LivenessArmed => silence <= LivenessLimit + TeardownLimit
      BY <1>4, <2>1, <2>3, <3>1 DEF GatewayInv, SilenceInv, LiveOK, Off
    <3> QED  BY <2>0, <2>1, <3>2, <3>3
  <2>4. CASE gw = "fence"
    <3>1. fence.left \in Nat /\ fence.stage \in {"natural", "terminate", "kill"} /\ fence.raising \in BOOLEAN
      BY <1>4, <2>4 DEF GatewayInv, GatewayTypeOK, FenceType
    <3>2. FenceRoom \in Nat /\ FenceRoom <= ReapTime  BY <3>1 DEF FenceRoom, ReapTime
    <3>3. /\ stopAge + fence.left <= 1 + TeardownLimit + FenceRoom
          /\ egress = "CONNECTED" /\ LivenessArmed =>
               silence + fence.left <= LivenessLimit + TeardownLimit + FenceRoom
      BY <1>4, <2>4 DEF GatewayInv, HaltInv, SilenceInv
    <3> QED  BY <2>0, <2>1, <3>1, <3>2, <3>3
  <2>5. CASE gw = "decide"  BY <1>4, <2>5 DEF GatewayInv, HaltInv, SilenceInv
  <2> QED  BY <1>4, <2>2, <2>3, <2>4, <2>5 DEF GatewayInv, GatewayTypeOK, Ended
<1>5. GatewayInv => StopIsPrompt /\ NoStaleConnected  BY <1>4 DEF StopIsPrompt, NoStaleConnected
<1> QED  BY <1>1, <1>2, <1>3, <1>5, PTL DEF GatewaySpec, GatewayPromise

-----------------------------------------------------------------------------
(***************************************************************************)
(* Continuity.  The engine's view of the last frame lags by the frame that  *)
(* a probe carries to the lock; its stable window began no earlier than the *)
(* last frame after a gap, or that frame is on its way and makes the view   *)
(* too old to be recent.                                                    *)
(***************************************************************************)
Age == {Never} \cup 0 .. Oldest

SwitchTypeOK ==
  /\ lastVideo \in Age /\ stableSince \in Age /\ lastAudio \in Age
  /\ recent \in [frame : Age, gapless : Age]
  /\ handoff \in {Resting} \cup [step : {"lock"}, age : 0 .. HandoffDelay]
  /\ reconcile \in {Resting, RoundDue, TimerGone} \cup [step : {"control", "decide"}, age : 0 .. 1]

FrameInv ==
  /\ recent.frame = IF handoff = Resting THEN lastVideo ELSE handoff.age
  /\ recent.frame # Never => recent.gapless # Never /\ recent.gapless >= recent.frame

(* The frame that ended a gap is between its clock and the lock. *)
GapSeen ==
  /\ handoff # Resting
  /\ lastVideo = Never \/ (lastVideo - handoff.age > InputTimeout /\ lastVideo > InputTimeout + 1)

WindowInv ==
  stableSince # Never => recent.gapless # Never /\ (recent.gapless >= stableSince \/ GapSeen)

(* Ticks since the engine last decided. *)
SinceDecision == IF reconcile \in {Resting, TimerGone} THEN 0 ELSE IF reconcile = RoundDue THEN 1 ELSE 1 + reconcile.age

AirInv ==
  reconcile # TimerGone /\ onAir.video = "LIVE" =>
    recent.frame # Never /\ recent.frame <= InputTimeout + HandoffDelay + 1 + SinceDecision

VoiceInv ==
  /\ lastValid = heardMode
  /\ reconcile.step = "decide" /\ desired = "LIVE" => heardMode = "LIVE"

SwitchInv == SwitchTypeOK /\ FrameInv /\ WindowInv /\ AirInv /\ VoiceInv

LEMMA ContinuityConstants ==
  /\ InputTimeout \in Nat /\ StableWindow \in Nat /\ HandoffDelay \in Nat /\ Oldest \in Nat
  /\ Oldest = InputTimeout + StableWindow + HandoffDelay + 2
  BY ContinuityAssumption DEF Oldest

LEMMA AgedFacts ==
  ASSUME NEW a \in Age, NEW b \in Age
  PROVE  /\ Aged(a) \in Age /\ (Aged(a) = Never <=> a = Never)
         /\ a # Never => Aged(a) <= a + 1 /\ Aged(a) >= a /\ (a < Oldest => Aged(a) = a + 1)
                         /\ (a = Oldest => Aged(a) = Oldest)
         /\ a # Never /\ b # Never /\ a <= b => Aged(a) <= Aged(b)
  BY ContinuityConstants DEF Aged, Age, Never

(* A decision for the live input rests on a recent frame of a window that is long enough. *)
LEMMA ApplyFacts ==
  ASSUME SwitchInv, Apply \/ StatusWriteRaises
  PROVE  /\ SwitchInv'
         /\ onAir'.video = "LIVE" => recent.gapless # Never /\ recent.gapless >= StableWindow
         /\ onAir'.audio = "LIVE" => heardMode = "LIVE"
<1> USE ContinuityConstants
<1> DEFINE a == reconcile.age
<1>1. reconcile.step = "decide" /\ a \in 0 .. 1
  BY DEF Apply, StatusWriteRaises, ReconcileEnds, SwitchInv, SwitchTypeOK, Resting, RoundDue, TimerGone
<1>2. /\ UNCHANGED <<lastVideo, lastAudio, desired, handoff, control, lastValid, recent, heardMode>>
      /\ reconcile' \in {Resting, TimerGone} /\ stableSince' \in {stableSince, Never}
  BY DEF Apply, StatusWriteRaises, ReconcileEnds
<1>3. /\ onAir'.video = "LIVE" => Recent(lastVideo, a) /\ Stable(a)
      /\ onAir'.audio = "LIVE" => desired = "LIVE"
  BY DEF Apply, StatusWriteRaises, ReconcileEnds, DecideSources
<1> HIDE DEF a
<1>4. lastVideo \in Age /\ stableSince \in Age /\ recent.frame \in Age /\ recent.gapless \in Age
  BY DEF SwitchInv, SwitchTypeOK
<1>5. handoff # Resting => handoff.age \in 0 .. HandoffDelay  BY DEF SwitchInv, SwitchTypeOK
<1>6. ASSUME onAir'.video = "LIVE" PROVE lastVideo # Never /\ lastVideo <= InputTimeout + 1 /\ lastVideo \in Nat
  BY <1>1, <1>3, <1>4, <1>6 DEF Recent, Age, Never
<1>7. ASSUME onAir'.video = "LIVE" PROVE recent.gapless # Never /\ recent.gapless >= StableWindow
  <2>1. ~GapSeen  BY <1>6, <1>7 DEF GapSeen
  <2>2. stableSince # Never /\ stableSince - a >= StableWindow  BY <1>3, <1>7 DEF Stable
  <2>3. recent.gapless # Never /\ recent.gapless >= stableSince  BY <2>1, <2>2 DEF SwitchInv, WindowInv
  <2>4. stableSince \in Nat /\ recent.gapless \in Nat  BY <1>4, <2>2, <2>3 DEF Age
  <2> QED  BY <1>1, <2>2, <2>3, <2>4
<1>8. AirInv'
  <2> SUFFICES ASSUME onAir'.video = "LIVE"
               PROVE  recent.frame # Never /\ recent.frame <= InputTimeout + HandoffDelay + 1
    BY <1>2 DEF AirInv, SinceDecision
  <2>1. lastVideo # Never /\ lastVideo <= InputTimeout + 1 /\ lastVideo \in Nat  BY <1>6
  <2>2. recent.frame = IF handoff = Resting THEN lastVideo ELSE handoff.age  BY DEF SwitchInv, FrameInv
  <2> QED  BY <1>5, <2>1, <2>2 DEF Never
<1>9. SwitchTypeOK'  BY <1>2 DEF SwitchInv, SwitchTypeOK, Age
<1>10. FrameInv' /\ WindowInv'  BY <1>2 DEF SwitchInv, FrameInv, WindowInv, GapSeen
<1>11. VoiceInv'  BY <1>2 DEF SwitchInv, VoiceInv, Resting, TimerGone
<1>12. onAir'.audio = "LIVE" => heardMode = "LIVE"  BY <1>1, <1>3 DEF SwitchInv, VoiceInv
<1> QED  BY <1>7, <1>8, <1>9, <1>10, <1>11, <1>12 DEF SwitchInv

LEMMA ContinuityTickStep == ASSUME SwitchInv, ContinuityTick PROVE SwitchInv'
<1> USE ContinuityConstants
<1>1. /\ lastVideo \in Age /\ stableSince \in Age /\ lastAudio \in Age
      /\ recent.frame \in Age /\ recent.gapless \in Age
  BY DEF SwitchInv, SwitchTypeOK
<1>2. /\ lastVideo' = Aged(lastVideo) /\ stableSince' = Aged(stableSince) /\ lastAudio' = Aged(lastAudio)
      /\ recent' = [frame |-> Aged(recent.frame), gapless |-> Aged(recent.gapless)]
      /\ UNCHANGED <<desired, control, lastValid, onAir, heardMode>>
  BY DEF ContinuityTick
<1>3. handoff' = IF handoff = Resting THEN Resting ELSE [handoff EXCEPT !.age = @ + 1]  BY DEF ContinuityTick
<1>4. ASSUME handoff # Resting
      PROVE  /\ handoff.age \in Nat /\ handoff.age < HandoffDelay
             /\ handoff' \in [step : {"lock"}, age : 0 .. HandoffDelay] /\ handoff'.age = handoff.age + 1
             /\ handoff' # Resting
  <2>1. handoff \in [step : {"lock"}, age : 0 .. HandoffDelay]  BY <1>4 DEF SwitchInv, SwitchTypeOK
  <2>2. handoff.age < HandoffDelay  BY <1>4 DEF ContinuityTick
  <2>3. handoff' = [handoff EXCEPT !.age = handoff.age + 1]  BY <1>3, <1>4, <2>1
  <2>4. handoff' \in [step : {"lock"}, age : 0 .. HandoffDelay] /\ handoff'.age = handoff.age + 1
    BY <2>1, <2>2, <2>3
  <2>5. handoff'.step = "lock"  BY <2>4
  <2> QED  BY <2>1, <2>2, <2>4, <2>5 DEF Resting
<1>5. /\ reconcile' = IF reconcile = TimerGone THEN TimerGone
                       ELSE IF reconcile = Resting THEN RoundDue ELSE [reconcile EXCEPT !.age = 1]
      /\ reconcile \notin {Resting, TimerGone} => reconcile # RoundDue /\ reconcile.age = 0
  BY DEF ContinuityTick
<1>6. SwitchTypeOK'
  <2>1. reconcile' \in {Resting, RoundDue, TimerGone} \cup [step : {"control", "decide"}, age : 0 .. 1]
    BY <1>5 DEF SwitchInv, SwitchTypeOK
  <2>2. handoff' \in {Resting} \cup [step : {"lock"}, age : 0 .. HandoffDelay]  BY <1>3, <1>4
  <2>3. recent' \in [frame : Age, gapless : Age]  BY <1>1, <1>2, AgedFacts
  <2> QED  BY <1>1, <1>2, <2>1, <2>2, <2>3, AgedFacts DEF SwitchTypeOK
<1>7. recent'.frame = Aged(recent.frame) /\ recent'.gapless = Aged(recent.gapless)  BY <1>2
<1>8. FrameInv'
  <2>1. recent'.frame = IF handoff' = Resting THEN lastVideo' ELSE handoff'.age
    <3>1. CASE handoff = Resting  BY <1>2, <1>3, <1>7, <3>1 DEF SwitchInv, FrameInv
    <3>2. CASE handoff # Resting
      <4>1. recent.frame = handoff.age /\ handoff.age < Oldest /\ handoff.age # Never
        BY <1>4, <3>2 DEF SwitchInv, FrameInv, Never
      <4>2. Aged(recent.frame) = recent.frame + 1  BY <1>1, <4>1, AgedFacts
      <4> QED  BY <1>4, <1>7, <3>2, <4>1, <4>2
    <3> QED  BY <3>1, <3>2
  <2>2. recent'.frame # Never => recent'.gapless # Never /\ recent'.gapless >= recent'.frame
    <3>1. recent.frame # Never => recent.gapless # Never /\ recent.frame <= recent.gapless
      BY <1>1 DEF SwitchInv, FrameInv, Age, Never
    <3>2. recent.frame # Never => Aged(recent.frame) <= Aged(recent.gapless) /\ Aged(recent.gapless) # Never
      BY <1>1, <3>1, AgedFacts
    <3>3. Aged(recent.frame) \in Age /\ Aged(recent.gapless) \in Age /\ (Aged(recent.frame) = Never <=> recent.frame = Never)
      BY <1>1, AgedFacts
    <3> QED  BY <1>7, <3>2, <3>3 DEF Age, Never
  <2> QED  BY <2>1, <2>2 DEF FrameInv
<1>9. WindowInv'
  <2> SUFFICES ASSUME stableSince' # Never
               PROVE  recent'.gapless # Never /\ (recent'.gapless >= stableSince' \/ GapSeen')
    BY DEF WindowInv
  <2>1. stableSince # Never  BY <1>1, <1>2, AgedFacts
  <2>2. recent.gapless # Never /\ (recent.gapless >= stableSince \/ GapSeen)  BY <2>1 DEF SwitchInv, WindowInv
  <2>3. recent'.gapless # Never  BY <1>1, <1>7, <2>2, AgedFacts
  <2>4. CASE recent.gapless >= stableSince
    <3>1. stableSince <= recent.gapless  BY <1>1, <2>1, <2>2, <2>4 DEF Age, Never
    <3>2. Aged(stableSince) <= Aged(recent.gapless)  BY <1>1, <2>1, <2>2, <3>1, AgedFacts
    <3>3. Aged(stableSince) \in Age /\ Aged(recent.gapless) \in Age  BY <1>1, AgedFacts
    <3> QED  BY <1>2, <1>7, <2>3, <3>2, <3>3 DEF Age, Never
  <2>5. CASE GapSeen
    <3>1. handoff # Resting  BY <2>5 DEF GapSeen
    <3>2. CASE lastVideo = Never
      <4>1. lastVideo' = Never  BY <1>1, <1>2, <3>2, AgedFacts
      <4> QED  BY <1>4, <2>3, <3>1, <4>1 DEF GapSeen
    <3>3. CASE lastVideo # Never
      <4>1. lastVideo - handoff.age > InputTimeout /\ lastVideo > InputTimeout + 1 /\ lastVideo \in 0 .. Oldest
        BY <1>1, <2>5, <3>3 DEF GapSeen, Age
      <4>2. \/ lastVideo < Oldest /\ lastVideo' = lastVideo + 1
            \/ lastVideo = Oldest /\ lastVideo' = Oldest
        BY <1>1, <1>2, <3>3, <4>1, AgedFacts
      <4>3. handoff'.age = handoff.age + 1 /\ handoff.age \in Nat /\ handoff.age < HandoffDelay /\ handoff' # Resting
        BY <1>4, <3>1
      <4>4. lastVideo' - (handoff.age + 1) > InputTimeout /\ lastVideo' > InputTimeout + 1
        BY <4>1, <4>2, <4>3
      <4> QED  BY <2>3, <4>3, <4>4 DEF GapSeen
    <3> QED  BY <3>2, <3>3
  <2> QED  BY <2>2, <2>4, <2>5
<1>10. AirInv'
  <2>0. reconcile' # TimerGone => reconcile # TimerGone  BY <1>5
  <2> SUFFICES ASSUME reconcile # TimerGone, onAir.video = "LIVE"
               PROVE  recent'.frame # Never /\ recent'.frame <= InputTimeout + HandoffDelay + 1 + SinceDecision'
    BY <1>2, <2>0 DEF AirInv
  <2>1. recent.frame # Never /\ recent.frame <= InputTimeout + HandoffDelay + 1 + SinceDecision
    BY DEF SwitchInv, AirInv
  <2>2. SinceDecision \in Nat /\ SinceDecision' = SinceDecision + 1
    <3>1. CASE reconcile = Resting  BY <1>5, <3>1 DEF SinceDecision, Resting, RoundDue, TimerGone
    <3>2. CASE reconcile # Resting
      <4>1. reconcile \in [step : {"control", "decide"}, age : 0 .. 1] /\ reconcile.age = 0 /\ reconcile # RoundDue
        BY <1>5, <3>2 DEF SwitchInv, SwitchTypeOK
      <4>2. reconcile' = [reconcile EXCEPT !.age = 1]  BY <1>5, <3>2
      <4>3. reconcile'.age = 1 /\ reconcile'.step \in {"control", "decide"}  BY <4>1, <4>2
      <4>4. reconcile' # Resting /\ reconcile' # RoundDue /\ reconcile' # TimerGone
        BY <4>3 DEF Resting, RoundDue, TimerGone
      <4> QED  BY <3>2, <4>1, <4>3, <4>4 DEF SinceDecision
    <3> QED  BY <3>1, <3>2
  <2>3. Aged(recent.frame) # Never /\ Aged(recent.frame) <= recent.frame + 1 /\ Aged(recent.frame) \in Age
    BY <1>1, <2>1, AgedFacts
  <2> DEFINE n == Aged(recent.frame)
             m == SinceDecision
  <2>4. n <= InputTimeout + HandoffDelay + 1 + (m + 1)  BY <1>1, <2>1, <2>2, <2>3 DEF Age
  <2> QED  BY <1>7, <2>2, <2>3, <2>4
<1>11. VoiceInv'
  <2>1. reconcile'.step = "decide" => reconcile.step = "decide"
    <3>1. CASE reconcile \in {Resting, TimerGone}  BY <1>5, <3>1 DEF RoundDue, Resting, TimerGone
    <3>2. CASE reconcile \notin {Resting, TimerGone}
      <4>1. reconcile \in [step : {"control", "decide"}, age : 0 .. 1]
        BY <1>5, <3>2 DEF SwitchInv, SwitchTypeOK
      <4> QED  BY <1>5, <3>2, <4>1
    <3> QED  BY <3>1, <3>2
  <2> QED  BY <1>2, <2>1 DEF SwitchInv, VoiceInv
<1> QED  BY <1>6, <1>8, <1>9, <1>10, <1>11 DEF SwitchInv

LEMMA SwitchStep == ASSUME SwitchInv, [ContinuityNext]_continuityVars PROVE SwitchInv'
<1> USE ContinuityConstants
<1>1. ASSUME UNCHANGED switchVars PROVE SwitchInv'
  BY <1>1 DEF switchVars, SwitchInv, SwitchTypeOK, FrameInv, WindowInv, GapSeen, AirInv, SinceDecision, VoiceInv
<1>2. CASE InputNext
  BY <1>1, <1>2 DEF InputNext, ClearFailed, StartInputPipeline, OnInputMessage, WatchInput, StopInputPipeline, InputEnds
<1>3. CASE VideoFrame
  <2> DEFINE g == IF recent.frame = Never \/ recent.frame > InputTimeout + 1 THEN 0 ELSE recent.gapless
  <2>1. /\ handoff = Resting /\ handoff' = [step |-> "lock", age |-> 0]
        /\ recent' = [frame |-> 0, gapless |-> g]
        /\ UNCHANGED <<lastVideo, stableSince, lastAudio, desired, reconcile, lastValid, onAir, heardMode>>
    BY <1>3 DEF VideoFrame
  <2>2. handoff' # Resting /\ handoff'.age = 0  BY <2>1 DEF Resting
  <2>3. recent.frame \in Age /\ recent.gapless \in Age /\ lastVideo \in Age /\ recent.frame = lastVideo
    BY <2>1 DEF SwitchInv, SwitchTypeOK, FrameInv
  <2>4. g \in Age /\ g # Never /\ g >= 0  BY <2>3 DEF SwitchInv, FrameInv, Age, Never
  <2>5. SwitchTypeOK'
    <3> HIDE DEF g
    <3>1. recent' \in [frame : Age, gapless : Age]  BY <2>1, <2>4 DEF Age
    <3> QED  BY <2>1, <3>1 DEF SwitchInv, SwitchTypeOK
  <2>6. FrameInv'  BY <2>1, <2>2, <2>4 DEF FrameInv
  <2>7. WindowInv'
    <3> SUFFICES ASSUME stableSince # Never PROVE g >= stableSince \/ GapSeen'
      BY <2>1, <2>4 DEF WindowInv
    <3>1. recent.gapless >= stableSince  BY <2>1 DEF SwitchInv, WindowInv, GapSeen
    <3>2. CASE lastVideo = Never  BY <2>1, <2>2, <3>2 DEF GapSeen
    <3>3. CASE lastVideo > InputTimeout + 1
      <4>1. lastVideo \in Int  BY <2>3 DEF Age, Never
      <4>2. lastVideo - 0 > InputTimeout  BY <3>3, <4>1
      <4> QED  BY <2>1, <2>2, <3>3, <4>2 DEF GapSeen
    <3>4. CASE ~(lastVideo = Never \/ lastVideo > InputTimeout + 1)  BY <2>3, <3>1, <3>4
    <3> QED  BY <3>2, <3>3, <3>4
  <2>8. AirInv'
    <3>1. SinceDecision \in Nat  BY DEF SinceDecision, SwitchInv, SwitchTypeOK
    <3>2. SinceDecision' = SinceDecision  BY <2>1 DEF SinceDecision
    <3> QED  BY <2>1, <3>1, <3>2 DEF AirInv, Never
  <2>9. VoiceInv'  BY <2>1 DEF SwitchInv, VoiceInv
  <2> QED  BY <2>5, <2>6, <2>7, <2>8, <2>9 DEF SwitchInv
<1>4. CASE ObserveVideo
  <2>1. /\ handoff.step = "lock" /\ handoff' = Resting /\ lastVideo' = handoff.age
        /\ stableSince' = IF StartsWindow(handoff.age) THEN handoff.age ELSE stableSince
        /\ UNCHANGED <<lastAudio, desired, reconcile, lastValid, onAir, recent, heardMode>>
    BY <1>4 DEF ObserveVideo
  <2>2. handoff # Resting /\ handoff.age \in 0 .. HandoffDelay  BY <2>1 DEF Resting, SwitchInv, SwitchTypeOK
  <2>3. handoff.age \in Age /\ handoff.age # Never  BY <2>2 DEF Age, Never
  <2>4. recent.frame = handoff.age /\ recent.gapless # Never /\ recent.gapless >= handoff.age
    BY <2>2, <2>3 DEF SwitchInv, FrameInv
  <2>5. SwitchTypeOK'  BY <2>1, <2>3 DEF SwitchInv, SwitchTypeOK
  <2>6. FrameInv'  BY <2>1, <2>4 DEF FrameInv
  <2>7. WindowInv'
    <3>1. GapSeen => StartsWindow(handoff.age)  BY DEF GapSeen, StartsWindow
    <3> QED  BY <2>1, <2>4, <3>1 DEF SwitchInv, WindowInv
  <2>8. AirInv' /\ VoiceInv'  BY <2>1 DEF SwitchInv, AirInv, SinceDecision, VoiceInv
  <2> QED  BY <2>5, <2>6, <2>7, <2>8 DEF SwitchInv
<1>5. CASE ObserveAudio
  <2>1. lastAudio' \in Age  BY <1>5 DEF ObserveAudio, Age
  <2> QED
    BY <1>5, <2>1 DEF ObserveAudio, SwitchInv, SwitchTypeOK, FrameInv, WindowInv, GapSeen, AirInv, SinceDecision, VoiceInv
<1>6. CASE ReconcileStart
  <2>1. /\ reconcile = RoundDue /\ reconcile' = [step |-> "control", age |-> 0]
        /\ UNCHANGED <<lastVideo, stableSince, lastAudio, desired, handoff, lastValid, onAir, recent, heardMode>>
    BY <1>6 DEF ReconcileStart
  <2>2. SinceDecision' = SinceDecision /\ reconcile # TimerGone
    BY <2>1 DEF SinceDecision, Resting, RoundDue, TimerGone
  <2>3. SwitchTypeOK'  BY <2>1 DEF SwitchInv, SwitchTypeOK
  <2>4. FrameInv' /\ WindowInv'  BY <2>1 DEF SwitchInv, FrameInv, WindowInv, GapSeen
  <2>5. AirInv' /\ VoiceInv'  BY <2>1, <2>2 DEF SwitchInv, AirInv, VoiceInv
  <2> QED  BY <2>3, <2>4, <2>5 DEF SwitchInv
<1>7. CASE ReadControl
  <2>1. /\ reconcile.step = "control" /\ reconcile' = [reconcile EXCEPT !.step = "decide"]
        /\ UNCHANGED <<lastVideo, stableSince, lastAudio, handoff, onAir, recent>>
    BY <1>7 DEF ReadControl
  <2>2. reconcile \in [step : {"control", "decide"}, age : 0 .. 1]
    BY <2>1 DEF SwitchInv, SwitchTypeOK, Resting, RoundDue, TimerGone
  <2>3. reconcile' \in [step : {"control", "decide"}, age : 0 .. 1] /\ reconcile'.age = reconcile.age
        /\ reconcile'.step = "decide"
    BY <2>1, <2>2
  <2>4. SinceDecision' = SinceDecision /\ reconcile # TimerGone
    BY <2>1, <2>2, <2>3 DEF SinceDecision, Resting, RoundDue, TimerGone
  <2>5. SwitchTypeOK'  BY <2>1, <2>3 DEF SwitchInv, SwitchTypeOK
  <2>6. FrameInv' /\ WindowInv'  BY <2>1 DEF SwitchInv, FrameInv, WindowInv, GapSeen
  <2>7. AirInv'  BY <2>1, <2>4 DEF SwitchInv, AirInv
  <2>8. VoiceInv'  BY <1>7 DEF ReadControl, Fallback, SwitchInv, VoiceInv
  <2> QED  BY <2>5, <2>6, <2>7, <2>8 DEF SwitchInv
<1>8. ASSUME NEW c, ControlChanges(c) PROVE SwitchInv'
  BY <1>8 DEF ControlChanges, SwitchInv, SwitchTypeOK, FrameInv, WindowInv, GapSeen, AirInv, SinceDecision, VoiceInv
<1>9. CASE EngineRestarts
  <2>1. Never \in Age  BY DEF Age
  <2>2. SwitchTypeOK'  BY <1>9, <2>1 DEF EngineRestarts, SwitchTypeOK
  <2> QED
    BY <1>9, <2>2 DEF EngineRestarts, SwitchInv, FrameInv, WindowInv, AirInv, VoiceInv, RoundDue
<1>10. CASE UNCHANGED continuityVars  BY <1>1, <1>10 DEF continuityVars
<1> QED
  BY <1>2, <1>3, <1>4, <1>5, <1>6, <1>7, <1>8, <1>9, <1>10, ApplyFacts, ContinuityTickStep
  DEF ContinuityNext, SwitchNext

(***************************************************************************)
(* The continuity engine, for all its timeouts and however long a probe     *)
(* waits for the lock: viewers see a frozen input no longer than the bound, *)
(* the live input only after a stable window, and hear it only on a LIVE    *)
(* command that this process has read.                                      *)
(***************************************************************************)
THEOREM ContinuityHolds == ContinuitySpec => ContinuityPromise
<1> USE ContinuityConstants
<1>1. ContinuityInit => SwitchInv
  <2> SUFFICES ASSUME ContinuityInit PROVE SwitchInv  OBVIOUS
  <2>1. Never \in Age  BY DEF Age
  <2>2. SwitchTypeOK  BY <2>1 DEF ContinuityInit, SwitchTypeOK
  <2> QED  BY <2>2 DEF ContinuityInit, SwitchInv, FrameInv, WindowInv, AirInv, VoiceInv, RoundDue
<1>2. SwitchInv /\ [ContinuityNext]_continuityVars => SwitchInv'  BY SwitchStep
<1>3. SwitchInv => FrozenIsHidden
  <2> SUFFICES ASSUME SwitchInv, reconcile # TimerGone, onAir.video = "LIVE"
               PROVE  recent.frame # Never /\ recent.frame <= InputTimeout + HandoffDelay + 3
    BY DEF FrozenIsHidden
  <2>1. SinceDecision \in Nat /\ SinceDecision <= 2  BY DEF SinceDecision, SwitchInv, SwitchTypeOK
  <2>2. recent.frame # Never /\ recent.frame \in Age
        /\ recent.frame <= InputTimeout + HandoffDelay + 1 + SinceDecision
    BY DEF SwitchInv, SwitchTypeOK, AirInv
  <2> QED  BY <2>1, <2>2 DEF Age
<1>4. SwitchInv /\ [ContinuityNext]_continuityVars =>
        [(Apply \/ StatusWriteRaises) /\ onAir'.video = "LIVE" => recent.gapless # Never /\ recent.gapless >= StableWindow]_continuityVars
  BY ApplyFacts
<1>5. SwitchInv /\ [ContinuityNext]_continuityVars =>
        [(Apply \/ StatusWriteRaises) /\ onAir'.audio = "LIVE" => heardMode = "LIVE"]_continuityVars
  BY ApplyFacts
<1> QED  BY <1>1, <1>2, <1>3, <1>4, <1>5, PTL
  DEF ContinuitySpec, ContinuityPromise, LiveIsStable, NeverUnmutes
=============================================================================
