------------------------------ MODULE OperationsAlerts ------------------------------
(***************************************************************************)
(* The dry-run alert evaluators (operations_*_alerts.py).  Ten of them read *)
(* a JSONL batch from standard input through the bounded readers of         *)
(* operations_jsonl_safety.py; two read the Node authority and a clock.     *)
(*                                                                          *)
(* A stream is a sequence of characters: "h" and "l" stand for the text of  *)
(* a record above and exactly at the evaluator's threshold, two of them     *)
(* together for a malformed record, "w" for a character of two bytes, "x"   *)
(* for text that has no UTF-8 form, and "_" ends a line.                    *)
(***************************************************************************)
EXTENDS Integers, Sequences, FiniteSets, FiniteSetsExt

CONSTANTS MaxRecord,     \* _MAX_RECORD_BYTES
          MaxStream,     \* bound on a stream
          AlertNodes, Grace, MaxAlertClock

ASSUME OperationsAssumption ==
  MaxRecord \in Nat \ {0} /\ MaxStream \in Nat /\ Grace \in Nat \ {0} /\ MaxAlertClock \in Nat

VARIABLES batch,    \* one JSONL evaluator process
          fleet,    \* the Node authority: node -> [desired, status, beat]
          clock,
          inspect   \* one authority evaluator process

batchVars == <<batch>>
fleetVars == <<fleet, clock, inspect>>
-----------------------------------------------------------------------------
(* What an evaluator expects of the catalogue, and the codes it reports. *)
Evaluator(id, severity, bad, threshold) ==
  [id |-> id, severity |-> severity, mode |-> "threshold", bad |-> bad, threshold |-> threshold]

SessionFailure == Evaluator("SESSION_FAILURE_SURGE", "critical", "INVALID_FAILURE_RATE", TRUE)

SessionRestart == Evaluator("SESSION_PROCESS_CRASH_LOOP", "critical", "INVALID_RESTART_RATE", TRUE)

AssetFailure == Evaluator("ASSET_FAILURE_RATE_HIGH", "warning", "INVALID_PROCESSING_FAILURE_RATE", TRUE)

BillingWebhook ==
  Evaluator("BILLING_WEBHOOK_DELAYED", "warning", "INVALID_WEBHOOK_BACKLOG_AGE_SECONDS", TRUE)

EgressFailure == Evaluator("EGRESS_FAILURE_SURGE", "critical", "INVALID_FAILURE_RATE", TRUE)

EgressReconnect == Evaluator("RECONNECT_RATE_HIGH", "warning", "INVALID_RECONNECT_RATE", TRUE)

IngestUnavailable == Evaluator("INGEST_UNAVAILABLE", "critical", "INVALID_CONNECTIVITY_FAILURE_RATE", TRUE)

NodeResourcePressure == Evaluator("NODE_RESOURCE_PRESSURE", "warning", "INVALID_RESOURCE_PRESSURE", TRUE)

Capacity == Evaluator("MEDIA_NODE_CAPACITY_HIGH", "warning", "INVALID_CAPACITY_VALUE", FALSE)

EventAlerts ==
  [id |-> "EVENT", severity |-> "any", mode |-> "event", bad |-> "MISSING_REQUIRED_FIELD", threshold |-> FALSE]

Evaluators == {SessionFailure, SessionRestart, AssetFailure, BillingWebhook, EgressFailure, EgressReconnect,
               IngestUnavailable, NodeResourcePressure, Capacity, EventAlerts}
-----------------------------------------------------------------------------
(* The catalogue.  An entry has a type when an event triggers it; "sound"   *)
(* stands for every check validate_catalog makes of one entry alone.        *)
Entry(id, severity, mode, type, sound) ==
  [id |-> id, severity |-> severity, mode |-> mode, type |-> type, sound |-> sound]

EntriesFor(e) ==
  { Entry(e.id, e.severity, e.mode, "T", TRUE), Entry(e.id, "other", e.mode, "T", TRUE),
    Entry(e.id, e.severity, e.mode, "T", FALSE),
    Entry("OTHER", "warning", "event", "T", TRUE), Entry("SPARE", "warning", "event", "U", TRUE) }

ValidateCatalog(c) ==
  /\ c # <<>>
  /\ \A i \in DOMAIN c : c[i].sound
  /\ \A i, j \in DOMAIN c :
       i # j => /\ c[i].id # c[j].id
                /\ c[i].mode = "event" /\ c[j].mode = "event" => c[i].type # c[j].type

(* _validate_alert_contract: exactly one entry has the id, and it is the expected one. *)
ContractHolds(e, c) ==
  LET own == { i \in DOMAIN c : c[i].id = e.id }
  IN  Cardinality(own) = 1 /\ \A i \in own : c[i].severity = e.severity /\ c[i].mode = e.mode

(* _build_event_alert_index: an event type leads to one alert. *)
BuildEventAlertIndex(c) ==
  [t \in { c[i].type : i \in { j \in DOMAIN c : c[j].mode = "event" } } |->
     c[CHOOSE i \in DOMAIN c : c[i].mode = "event" /\ c[i].type = t].id]

CatalogAccepted(e, c) == ValidateCatalog(c) /\ (e.mode = "threshold" => ContractHolds(e, c))
-----------------------------------------------------------------------------
(* The bounded readers. *)
Newline(s) == s # <<>> /\ s[Len(s)] = "_"

Bytes(s) == Len(s) + Cardinality({ i \in DOMAIN s : s[i] = "w" })

Unencodable(s) == \E i \in DOMAIN s : s[i] = "x"

(* readline(n): up to and with the first newline, and at most n characters. *)
Readline(s, n) ==
  LET ends == { i \in DOMAIN s : s[i] = "_" \/ i = n \/ i = Len(s) }
  IN  IF ends = {} THEN <<>> ELSE SubSeq(s, 1, Min(ends))

After(s, line) == SubSeq(s, Len(line) + 1, Len(s))

(* A complete line is yielded as it is, or as one of the two markers. *)
IterBoundedLines(line) == line

IterBoundedByteLines(line) ==
  IF Len(line) > MaxRecord THEN <<"OVERSIZED">>
  ELSE IF Unencodable(line) THEN <<"INVALID_UTF8">> ELSE line

Utf8SizeViolation(line) ==
  IF Unencodable(line) THEN "INVALID_JSON"
  ELSE IF Bytes(line) > MaxRecord THEN "RECORD_TOO_LARGE" ELSE "none"

(* A whole line was read: it ends in a newline or the stream ended before the limit. *)
WholeLineAnyLength(line) == Newline(line) \/ Len(line) <= MaxRecord + 1
WholeLine(line) == Newline(line) \/ Len(line) < MaxRecord + 1
-----------------------------------------------------------------------------
(* strict_json_loads and the checks on the record it returns. *)
Content(line) == IF Newline(line) THEN SubSeq(line, 1, Len(line) - 1) ELSE line

RecordViolation(e, text) ==
  CASE text = <<"h", "h">> -> "DUPLICATE_JSON_KEY"
    [] text = <<"h", "l">> -> "NONFINITE_NUMBER"
    [] text = <<"l", "h">> -> e.bad
    [] text \in {<<"h">>, <<"l">>} -> "none"
    [] OTHER -> "INVALID_JSON"

(* (active + reserved) * 5 > maximum * 4: five sessions of five, or four of them. *)
IsAboveIssue11Threshold(maximum, occupied) == occupied * 5 > maximum * 4

(* For the event evaluator "h" is a record of event type "T". *)
Matches(b, text) ==
  CASE b.e = Capacity    -> IsAboveIssue11Threshold(5, IF text = <<"h">> THEN 5 ELSE 4)
    [] b.e = EventAlerts -> text = <<"h">> /\ b.routed
    [] OTHER             -> LET effective_threshold == 1
                            IN  (IF text = <<"h">> THEN effective_threshold + 1 ELSE effective_threshold)
                                  > effective_threshold

(* The Counter reasons: its keys, and in violations the sum of its counts. *)
Violation(b, code) == [b EXCEPT !.records = @ + 1, !.violations = @ + 1, !.reasons = @ \cup {code}]

(* The body of the loop of evaluate_lines. *)
EvaluateLine(b, line) ==
  LET text == Content(line) code == RecordViolation(b.e, text)
  IN  CASE line = <<"OVERSIZED">>    -> Violation(b, "RECORD_TOO_LARGE")
        [] line = <<"INVALID_UTF8">> -> Violation(b, "INVALID_JSON")
        [] line \notin {<<"OVERSIZED">>, <<"INVALID_UTF8">>} /\ Utf8SizeViolation(line) # "none" ->
             Violation(b, Utf8SizeViolation(line))
        [] OTHER ->
             IF text = <<>> THEN b
             ELSE IF code # "none" THEN Violation(b, code)
             ELSE IF Matches(b, text) THEN [b EXCEPT !.records = @ + 1, !.matches = @ + 1]
             ELSE [b EXCEPT !.records = @ + 1, !.unmatched = @ + 1]

(* One invalid record suppresses what the others said. *)
Concluded(b) ==
  IF b.reasons # {} THEN [b EXCEPT !.phase = "done", !.status = "INVALID", !.matches = 0, !.unmatched = 0]
  ELSE [b EXCEPT !.phase = "done", !.status = IF b.matches > 0 THEN "MATCHED" ELSE "NO_MATCHES"]
-----------------------------------------------------------------------------
NoStream == <<>>

(* The characters an in-process caller or a byte stream can hold. *)
Alphabet(mode) == IF mode = "text" THEN {"h", "l", "w", "x", "_"} ELSE {"h", "l", "x", "_"}

Streams(mode) == UNION { [1..n -> Alphabet(mode)] : n \in 0..MaxStream }

Fresh(e) == [e |-> e, phase |-> "start", status |-> "none", mode |-> "bytes", input |-> NoStream, rest |-> NoStream,
             routed |-> TRUE, records |-> 0, matches |-> 0, unmatched |-> 0, violations |-> 0, reasons |-> {}]

BatchInit == batch = Fresh(SessionFailure)

Catalogs(e) == UNION { [1..n -> EntriesFor(e)] : n \in 0..2 }

(* Whether the accepted catalogue leads from event type "T" to an alert. *)
Routings(e) == { e.threshold \/ e = Capacity \/ "T" \in DOMAIN BuildEventAlertIndex(c) :
                   c \in { d \in Catalogs(e) : CatalogAccepted(e, d) } }

(* main: the catalogue first, then the threshold, then the stream. *)
Main(e) ==
  /\ batch.phase = "start"
  /\ \/ \E c \in Catalogs(e) :
          /\ ~CatalogAccepted(e, c)
          /\ batch' = [Fresh(e) EXCEPT !.phase = "done", !.status = "INVALID_CATALOG"]
     \/ e.threshold /\ batch' = [Fresh(e) EXCEPT !.phase = "done", !.status = "INVALID_THRESHOLD"]
     \/ \E mode \in {"bytes", "text"}, routed \in Routings(e) : \E s \in Streams(mode) :
          batch' = [Fresh(e) EXCEPT !.phase = "read", !.mode = mode, !.routed = routed, !.input = s, !.rest = s]

SessionFailureMain == Main(SessionFailure)

SessionRestartMain == Main(SessionRestart)

AssetFailureMain == Main(AssetFailure)

BillingWebhookMain == Main(BillingWebhook)

EgressFailureMain == Main(EgressFailure)

EgressReconnectMain == Main(EgressReconnect)

IngestUnavailableMain == Main(IngestUnavailable)

NodeResourcePressureMain == Main(NodeResourcePressure)

CapacityMain == Main(Capacity)

EventMain == Main(EventAlerts)

(* The readers' loop: a whole line is yielded, an oversized one is drained first. *)
ReadOn(e) ==
  /\ batch.phase = "read" /\ batch.e = e
  /\ LET line == Readline(batch.rest, MaxRecord + 1)
         later == [batch EXCEPT !.rest = After(batch.rest, line)]
     IN  IF line = <<>> THEN batch' = Concluded(batch)
         ELSE IF WholeLine(line)
         THEN batch' = EvaluateLine(later, IF batch.mode = "bytes" THEN IterBoundedByteLines(line)
                                                                   ELSE IterBoundedLines(line))
         ELSE batch' = [later EXCEPT !.phase = "drain"]

DrainOn(e) ==
  /\ batch.phase = "drain" /\ batch.e = e
  /\ LET line == Readline(batch.rest, MaxRecord + 1)
         later == [batch EXCEPT !.rest = After(batch.rest, line)]
     IN  batch' = IF line # <<>> /\ ~Newline(line) THEN later
                  ELSE EvaluateLine([later EXCEPT !.phase = "read"], <<"OVERSIZED">>)

EvaluateLines(e) == ReadOn(e) \/ DrainOn(e)

SessionFailureLines == EvaluateLines(SessionFailure)

SessionRestartLines == EvaluateLines(SessionRestart)

AssetFailureLines == EvaluateLines(AssetFailure)

BillingWebhookLines == EvaluateLines(BillingWebhook)

EgressFailureLines == EvaluateLines(EgressFailure)

EgressReconnectLines == EvaluateLines(EgressReconnect)

IngestUnavailableLines == EvaluateLines(IngestUnavailable)

NodeResourcePressureLines == EvaluateLines(NodeResourcePressure)

CapacityLines == EvaluateLines(Capacity)

EventLines == EvaluateLines(EventAlerts)

BatchNext ==
  \/ SessionFailureMain \/ SessionFailureLines
  \/ SessionRestartMain \/ SessionRestartLines
  \/ AssetFailureMain \/ AssetFailureLines
  \/ BillingWebhookMain \/ BillingWebhookLines
  \/ EgressFailureMain \/ EgressFailureLines
  \/ EgressReconnectMain \/ EgressReconnectLines
  \/ IngestUnavailableMain \/ IngestUnavailableLines
  \/ NodeResourcePressureMain \/ NodeResourcePressureLines
  \/ CapacityMain \/ CapacityLines
  \/ EventMain \/ EventLines
-----------------------------------------------------------------------------
(* The two authority evaluators.  They read the clock, then the authority, then report. *)
Statuses == {"REGISTERED", "READY", "STOPPED", "FAILED"}

FleetInit ==
  /\ fleet = [n \in AlertNodes |-> [desired |-> "RUNNING", status |-> "REGISTERED", beat |-> 0]]
  /\ clock = 0
  /\ inspect = [phase |-> "idle"]

(* The Nodes' side, external to these tools: a heartbeat, a new status or wish, and time.
   The evaluator looks at the Nodes once; what they do after that is left out. *)
NotRead == inspect.phase \in {"idle", "clock"}

Beat(n) == /\ NotRead
           /\ fleet' = [fleet EXCEPT ![n].beat = clock]
           /\ UNCHANGED <<clock, inspect>>

SetNode(n, d, s) == /\ NotRead
                    /\ fleet' = [fleet EXCEPT ![n].desired = d, ![n].status = s]
                    /\ UNCHANGED <<clock, inspect>>

AlertTick == /\ clock < MaxAlertClock
             /\ clock' = clock + 1
             /\ UNCHANGED <<fleet, inspect>>

InspectionNow ==
  /\ inspect.phase = "idle"
  /\ inspect' = [phase |-> "clock", now |-> clock]
  /\ UNCHANGED <<fleet, clock>>

ReadNodeAuthority ==
  /\ inspect.phase = "clock"
  /\ inspect' = [phase |-> "read", now |-> inspect.now, copy |-> fleet, readAt |-> clock]
  /\ UNCHANGED <<fleet, clock>>

(* summarize_node_heartbeats.  The age never falls below zero. *)
EvaluationNowLate(i) == clock
EvaluationNow(i) == i.now

AgeOf(i, n) == IF EvaluationNow(i) < i.copy[n].beat THEN 0 ELSE EvaluationNow(i) - i.copy[n].beat

ExpectedHeartbeat(node) == node.desired = "RUNNING" /\ node.status \notin {"STOPPED", "FAILED"}

StaleNodes(i) == { n \in AlertNodes : ExpectedHeartbeat(i.copy[n]) /\ AgeOf(i, n) >= Grace }

EvaluateHeartbeats(i) == [alert |-> "heartbeat", matched |-> StaleNodes(i) # {}, stale |-> StaleNodes(i)]

AvailableNodesStale(i) == { n \in AlertNodes : i.copy[n].desired = "RUNNING" /\ i.copy[n].status = "READY" }
AvailableNodes(i) ==
  { n \in AlertNodes : i.copy[n].desired = "RUNNING" /\ i.copy[n].status = "READY" /\ n \notin StaleNodes(i) }

EvaluateAvailability(i) ==
  [alert |-> "availability", stale |-> StaleNodes(i),
   matched |-> AvailableNodes(i) = {} /\ \E n \in AlertNodes : i.copy[n].desired = "RUNNING"]

Unavailable == [alert |-> "none", matched |-> FALSE, stale |-> {}]

Reported(i, report) == [phase |-> "done", copy |-> i.copy, readAt |-> i.readAt, report |-> report]

HeartbeatMain ==
  /\ inspect.phase = "read"
  /\ inspect' = Reported(inspect, EvaluateHeartbeats(inspect))
  /\ UNCHANGED <<fleet, clock>>

AvailabilityMain ==
  /\ inspect.phase = "read"
  /\ inspect' = Reported(inspect, EvaluateAvailability(inspect))
  /\ UNCHANGED <<fleet, clock>>

(* The clock or the authority cannot be read: the report is UNAVAILABLE. *)
InspectFails ==
  /\ inspect.phase \in {"idle", "clock"}
  /\ inspect' = [phase |-> "failed", report |-> Unavailable]
  /\ UNCHANGED <<fleet, clock>>

FleetNext ==
  \/ \E n \in AlertNodes : Beat(n) \/ \E d \in {"RUNNING", "STOPPED"}, s \in Statuses : SetNode(n, d, s)
  \/ AlertTick \/ InspectionNow \/ ReadNodeAuthority \/ HeartbeatMain \/ AvailabilityMain \/ InspectFails

AlertsInit == BatchInit /\ FleetInit

AlertsNext == (BatchNext /\ UNCHANGED fleetVars) \/ (FleetNext /\ UNCHANGED batchVars)

AlertsSpec == AlertsInit /\ [][AlertsNext]_<<batchVars, fleetVars>>
-----------------------------------------------------------------------------
(* Reference definitions: the lines of a stream, without reading it in pieces. *)
LineStarts(s) == { i \in DOMAIN s : i = 1 \/ s[i - 1] = "_" }

LineAt(s, i) == SubSeq(s, i, Min({ j \in i..Len(s) : s[j] = "_" \/ j = Len(s) }))

BadLine(e, line) ==
  \/ Bytes(line) > MaxRecord
  \/ Content(line) # <<>> /\ (Unencodable(line) \/ RecordViolation(e, Content(line)) # "none")

LinesOf(b) == { i \in LineStarts(b.input) : Content(LineAt(b.input, i)) # <<>> }

BadOf(b) == { i \in LinesOf(b) : BadLine(b.e, LineAt(b.input, i)) }

HighOf(b) == { i \in LinesOf(b) : Content(LineAt(b.input, i)) = <<"h">> /\ b.routed }

(***************************************************************************)
(* A batch is reported whole or not at all: however the stream falls across *)
(* the reader's limit, every non-blank line counts as one record, one bad   *)
(* line makes the result INVALID with nothing matched, and otherwise the    *)
(* matched and unmatched counts are those of the lines.                     *)
(***************************************************************************)
BatchIsWhole ==
  batch.phase = "done" /\ batch.status \in {"INVALID", "MATCHED", "NO_MATCHES"} =>
    LET lines == LinesOf(batch) bad == BadOf(batch) high == HighOf(batch)
    IN  /\ batch.records = Cardinality(lines)
        /\ (batch.status = "INVALID") = (bad # {})
        /\ batch.violations = Cardinality(bad)
        /\ batch.matches = IF bad = {} THEN Cardinality(high) ELSE 0
        /\ batch.unmatched = IF bad = {} THEN Cardinality(lines) - Cardinality(high) ELSE 0

(***************************************************************************)
(* No false alarm: a Node the heartbeat or availability report calls stale  *)
(* had been silent for the grace period when its record was read, although  *)
(* heartbeats arrive while the evaluator runs.                              *)
(***************************************************************************)
StaleWasSilent ==
  inspect.phase = "done" =>
    \A n \in inspect.report.stale : inspect.readAt - inspect.copy[n].beat >= Grace

(***************************************************************************)
(* The critical alert is not quieter than the warning: when every Node that *)
(* should run is reported stale, the availability evaluator fires.          *)
(***************************************************************************)
SilentFleetIsCritical ==
  inspect.phase = "done" /\ inspect.report.alert = "availability" =>
    LET wanted == { n \in AlertNodes : inspect.copy[n].desired = "RUNNING" }
    IN  wanted # {} /\ wanted \subseteq inspect.report.stale => inspect.report.matched

(***************************************************************************)
(* What an operator may rely on in the alert evaluators: a report is about  *)
(* the whole batch, a stale Node was silent, and a silent fleet is critical.*)
(***************************************************************************)
AlertPromise == BatchIsWhole /\ StaleWasSilent /\ SilentFleetIsCritical
=============================================================================
