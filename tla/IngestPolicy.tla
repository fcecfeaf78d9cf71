-------------------------------- MODULE IngestPolicy --------------------------------
(***************************************************************************)
(* What the Node Agent makes of the publisher at every heartbeat: the policy   *)
(* inspector reads MediaMTX's path list and kicks a publisher whose format or  *)
(* bit rate is not allowed, and the quality sampler probes the media.          *)
(*                                                                         *)
(* MediaMTX may show a new publisher before all of its tracks; they have       *)
(* settled by the next observation.  MediaMTX is external.                    *)
(***************************************************************************)
EXTENDS Integers, FiniteSets

CONSTANTS
  Sources,            \* source ids MediaMTX gives
  ViolationSamples,   \* bitrate_violation_samples
  LowSamples          \* low_bitrate_samples

ASSUME IngestPolicyAssumption == {ViolationSamples, LowSamples} \subseteq Nat \ {0} /\ "none" \notin Sources

VARIABLES
  publisher,   \* the publisher and its tracks, or Nobody
  inspector,   \* IngestPolicyInspector
  sampler,     \* IngestQualitySampler
  report,      \* the observation of the last heartbeat
  truth,       \* history: measured intervals in a row above the limit, of this publisher
  spent        \* source ids that were used

policyVars == <<publisher, inspector, sampler, report, truth, spent>>

Nobody == [id |-> "none"]
Formats == {"good", "odd", "bad"}       \* odd: allowed with warnings
Rates == {"low", "fine", "high"}
NoReport == [status |-> "none", reasons |-> {}, id |-> "none"]

PolicyInit ==
  /\ publisher = Nobody
  /\ inspector = [source |-> "none", over |-> 0, enforced |-> "none", sampled |-> FALSE]
  /\ sampler = [source |-> "none", low |-> 0]
  /\ report = NoReport /\ truth = 0 /\ spent = {}

-----------------------------------------------------------------------------
(* MediaMTX and the publishers *)

PublisherConnects(id, format, shown) ==
  /\ publisher = Nobody /\ id \notin spent
  /\ publisher' = [id |-> id, format |-> format, shown |-> shown]
  /\ spent' = spent \cup {id} /\ truth' = 0
  /\ UNCHANGED <<inspector, sampler, report>>

PublisherLeaves ==
  /\ publisher # Nobody /\ publisher' = Nobody
  /\ UNCHANGED <<inspector, sampler, report, truth, spent>>

-----------------------------------------------------------------------------
(* IngestPolicyInspector.observe *)

(* _reset_sampling *)
ResetSampling == [inspector EXCEPT !.source = "none", !.over = 0, !.sampled = FALSE]

(* A bug: the count of samples goes on with the next publisher. *)
OfSourceKeepsCount(id) ==
  IF inspector.source = id THEN inspector
  ELSE [source |-> id, over |-> inspector.over, enforced |-> "none", sampled |-> TRUE]

(* Another source begins again. *)
OfSource(id) ==
  IF inspector.source = id THEN inspector
  ELSE [source |-> id, over |-> 0, enforced |-> "none", sampled |-> TRUE]

(* evaluate_tracks with _track_metadata_may_be_incomplete, on the snapshot that is shown *)
FormatReasons(isNew) ==
  IF publisher.shown = "partial" THEN IF isNew THEN {} ELSE {"TRACKS"}
  ELSE IF publisher.format = "bad" THEN {"TRACKS"} ELSE {}

FormatWarnings(isNew) ==
  (IF publisher.shown = "partial" /\ isNew THEN {"TRACK_METADATA_PENDING"} ELSE {})
    \cup (IF publisher.format = "odd" THEN {"TRACKS"} ELSE {})

(* The counts only matter up to the limits they are compared with: they stop there. *)
Capped(n, bound) == IF n < bound THEN n ELSE bound

(* An interval is measured unless the source is new, the clock has not advanced or the
   counter has gone back. *)
Over(seen, rate) ==
  CASE rate = "high" -> Capped(seen.over + 1, ViolationSamples) [] rate = "none" -> seen.over [] OTHER -> 0

Observed(isNew, rate) ==
  LET over == Over(OfSource(publisher.id), rate)
      reasons == FormatReasons(isNew)
                   \cup (IF rate = "high" /\ over >= ViolationSamples THEN {"BITRATE_TOO_HIGH"} ELSE {})
      warnings == FormatWarnings(isNew)
                   \cup (IF rate = "high" /\ over < ViolationSamples THEN {"PENDING"} ELSE {}) IN
  [status |-> IF reasons # {} THEN "REJECTED" ELSE IF rate = "none" THEN "PENDING"
              ELSE IF warnings # {} THEN "WARNING" ELSE "ACCEPTED",
   reasons |-> reasons, id |-> publisher.id]

-----------------------------------------------------------------------------
(* IngestQualitySampler.augment *)

(* The count is taken after the probe: one that raises leaves it. *)
LowCount(rate, quality) ==
  LET low == IF sampler.source = publisher.id THEN sampler.low ELSE 0 IN
  CASE quality = "unavailable" \/ rate = "none" -> low
    [] quality # "unavailable" /\ rate = "low" -> Capped(low + 1, LowSamples)
    [] OTHER -> 0

(* A bug: what the probe finds replaces the verdict of the policy. *)
AugmentedAlways(observed, quality, rate) ==
  [observed EXCEPT !.status = IF quality = "poor" THEN "DEGRADED" ELSE IF @ = "REJECTED" THEN "WARNING" ELSE @]

(* A rejected observation is returned as it is; a poor one is degraded, and never kicks.  A
   probe that raises adds a warning and nothing else. *)
Augmented(observed, quality, rate) ==
  LET reasons == observed.reasons
        \cup (IF quality = "poor" THEN {"QUALITY"} ELSE {})
        \cup (IF quality # "unavailable" /\ rate = "low" /\ LowCount(rate, quality) >= LowSamples
              THEN {"BITRATE_TOO_LOW"} ELSE {})
      warned == quality \in {"warned", "unavailable"} \/ (rate = "low" /\ LowCount(rate, quality) < LowSamples) IN
  IF observed.status = "REJECTED" THEN observed
  ELSE [observed EXCEPT !.reasons = reasons,
                        !.status = IF reasons # {} THEN "DEGRADED"
                                   ELSE IF warned /\ @ = "ACCEPTED" THEN "WARNING" ELSE @]

-----------------------------------------------------------------------------
(* _ingest_observation, once in every heartbeat *)

(* MediaMTX does not answer: nothing is learnt or reset. *)
ApiUnavailable ==
  /\ report' = [status |-> "UNKNOWN", reasons |-> {"API"}, id |-> "none"]
  /\ UNCHANGED <<publisher, inspector, sampler, truth, spent>>

ObserveOffline ==
  /\ publisher = Nobody
  /\ inspector' = ResetSampling
  /\ sampler' = [source |-> "none", low |-> 0]
  /\ report' = [status |-> "OFFLINE", reasons |-> {}, id |-> "none"]
  /\ UNCHANGED <<publisher, truth, spent>>

(* A bug: the enforcement is recorded though the kick has failed. *)
EnforcedAnyway(rejected, kicked) == rejected

(* A kick that fails is not recorded, and the next observation tries again. *)
Enforced(rejected, kicked) == kicked

(* observe_and_enforce with its kick, and augment *)
ObservePublisher(rate, quality, kickable) ==
  /\ publisher # Nobody
  /\ LET isNew == inspector.source # publisher.id
         measured == IF isNew \/ ~OfSource(publisher.id).sampled THEN "none" ELSE rate
         observed == Observed(isNew, measured)
         kicks == /\ observed.status = "REJECTED"
                  /\ OfSource(publisher.id).enforced # publisher.id
                  /\ kickable IN
     /\ inspector' = [OfSource(publisher.id) EXCEPT !.over = Over(OfSource(publisher.id), measured),
                                                    !.enforced = IF Enforced(observed.status = "REJECTED", kicks) THEN publisher.id ELSE @]
     /\ sampler' = [source |-> publisher.id,
                    low |-> IF observed.status = "REJECTED"
                            THEN IF sampler.source = publisher.id THEN sampler.low ELSE 0
                            ELSE LowCount(measured, quality)]
     /\ report' = Augmented(observed, quality, measured)
     /\ truth' = CASE measured = "high" -> Capped(truth + 1, ViolationSamples)
                  [] measured = "none" -> truth [] OTHER -> 0
     /\ publisher' = IF kicks THEN Nobody ELSE [publisher EXCEPT !.shown = "whole"]
  /\ UNCHANGED spent

PolicyNext ==
  \/ \E id \in Sources, format \in Formats, shown \in {"partial", "whole"} : PublisherConnects(id, format, shown)
  \/ PublisherLeaves
  \/ ApiUnavailable \/ ObserveOffline
  \/ \E rate \in Rates \cup {"none"}, quality \in {"good", "warned", "poor", "unavailable"}, kickable \in BOOLEAN :
       ObservePublisher(rate, quality, kickable)

PolicySpec == PolicyInit /\ [][PolicyNext]_policyVars

-----------------------------------------------------------------------------
(* A publisher is kicked only for a format that is really bad or for ViolationSamples measured
   intervals in a row above the limit: not for what MediaMTX shows of it at first, nor for
   what an earlier publisher did. *)
KickIsDeserved ==
  [][publisher # Nobody /\ inspector'.enforced = publisher.id /\ inspector.enforced # publisher.id =>
       publisher.format = "bad" \/ truth' >= ViolationSamples]_policyVars

(* A publisher with a bad format that has been seen twice is reported as rejected whatever
   the probe of its media says, until it is gone. *)
RejectionIsReported ==
  [][publisher # Nobody /\ publisher.format = "bad" /\ inspector.source = publisher.id
       /\ report'.id = publisher.id /\ report' # report => report'.status = "REJECTED"]_policyVars

(* A publisher with a bad format does not stay: a kick that fails is tried again. *)
BadIsKicked ==
  \A s \in Sources : (publisher.id = s /\ publisher.format = "bad") ~> (publisher.id # s)

(* What the ingest policy promises (ingest_policy.py, ingest_quality.py): it kicks only whom it should, and
   tells of it. *)
IngestPolicyPromise == KickIsDeserved /\ RejectionIsReported
=============================================================================
