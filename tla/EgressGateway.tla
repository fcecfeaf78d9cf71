------------------------------- MODULE EgressGateway -------------------------------
(***************************************************************************)
(* The egress gateway with process isolation: the parent keeps the retry     *)
(* policy and the status file, each publish attempt runs in a child, and     *)
(* the parent starts no other before that child is reaped.                  *)
(*                                                                         *)
(* The child reports progress after it has connected; otherwise it may send  *)
(* what it likes, flood, fall silent, ignore SIGTERM, hang in the kernel, or *)
(* die.  A dead child's pipe is readable: poll returns true and recv raises  *)
(* EOFError.  Deadlines are the ticks left; the supervising loop runs at     *)
(* least once in a tick.                                                     *)
(***************************************************************************)
EXTENDS Naturals, Integers, Sequences, FiniteSets, FiniteSetsExt

CONSTANTS
  ConnectLimit,    \* connect_timeout_seconds
  TeardownLimit, LivenessLimit, NaturalLimit, TerminateLimit, KillLimit,
  HeartbeatEvery,  \* status_heartbeat_seconds
  RetryInitial, RetryMax, JitterPercent,
  MaxAttempts,     \* EGRESS_MAX_ATTEMPTS; 0 is unlimited
  PipeSize         \* bound on messages in the pipe

ASSUME GatewayAssumption ==
  /\ {ConnectLimit, TeardownLimit, LivenessLimit, NaturalLimit, TerminateLimit, KillLimit, HeartbeatEvery,
      RetryInitial, RetryMax, JitterPercent, MaxAttempts, PipeSize} \subseteq Nat
  /\ RetryInitial <= RetryMax /\ JitterPercent <= 100

VARIABLES
  gw,        \* where run stands
  egress,    \* status of the status file
  failures,  \* failure_count
  stopSet,   \* stop_event
  verdict,   \* the AttemptResult
  child,     \* the attempt's process
  chan,      \* its pipe
  sup,       \* deadlines and results of supervise_attempt_child
  fence,     \* reap_child: stage and ticks left; raising: run has an exception to raise again
  pause,     \* ticks left of stop_event.wait(delay)
  looked,    \* the supervising loop has run in this tick
  strays,    \* history: children alive besides the attempt's
  silence,   \* history: ticks since the child last said that it publishes, while CONNECTED
  stopAge,   \* history: ticks since stop_event was set
  tries      \* history: attempts since the last connection

gatewayVars == <<gw, egress, failures, stopSet, verdict, child, chan, sup, fence, pause, looked,
                 strays, silence, stopAge, tries>>

Off == -1
NoResult == [reason |-> "none", terminal |-> FALSE]
Result(r) == [reason |-> r, terminal |-> r \in {"AUTH_FAILED", "LOCAL_PIPELINE_FAILED", "DESTINATION_UNSAFE"}]
LocalFailure == Result("LOCAL_PIPELINE_FAILED")
ChildReasons == {"TIMEOUT", "AUTH_FAILED", "STOPPED"}
Reporting == {"alive", "publishing"}
Living == Reporting \cup {"deaf", "stuck"}

(* A child that survives the kill is reaped a second time while the error is on its way. *)
ReapTime == NaturalLimit + 2 * (TerminateLimit + KillLimit)

Bound == LivenessLimit + TeardownLimit + ReapTime + 2

Messages ==
  [kind : {"connected", "progress"}] \cup [kind : {"teardown", "result"}, r : ChildReasons] \cup [kind : {"bad"}]

NoSup == [startup |-> Off, live |-> Off, teardown |-> Off, stop |-> Off, pending |-> "none"]
NoFence == [stage |-> "none"]

GatewayInit ==
  /\ gw = "start" /\ egress = "none" /\ failures = 0 /\ stopSet = FALSE
  /\ verdict = NoResult /\ child = "none" /\ chan = <<>> /\ sup = NoSup /\ fence = NoFence
  /\ pause = 0 /\ looked = FALSE
  /\ strays = 0 /\ silence = 0 /\ stopAge = 0 /\ tries = 0

history == <<strays, silence, stopAge, tries>>

-----------------------------------------------------------------------------
(* run *)

Start ==
  /\ gw = "start"
  /\ \/ egress' = "STARTING" /\ gw' = "check"
     \/ egress' = "FAILED" /\ gw' = "ended"   \* sink factory or destination secret
  /\ UNCHANGED <<failures, stopSet, verdict, child, chan, sup, fence, pause, looked, history>>

Stopped ==
  /\ gw = "check" /\ stopSet
  /\ egress' = "STOPPED" /\ gw' = "ended"
  /\ UNCHANGED <<failures, stopSet, verdict, child, chan, sup, fence, pause, looked, history>>

(* validate_destination_runtime: every address is public, and the verified one is there. *)
Addresses == {"verified", "public", "private"}

ValidateDestination(answer, expected) ==
  CASE answer = {} -> "DNS_FAILED"
    [] answer # {} /\ "private" \in answer -> "DESTINATION_UNSAFE"
    [] answer # {} /\ "private" \notin answer /\ expected # "none" /\ expected \notin answer -> "DESTINATION_UNSAFE"
    [] OTHER -> "none"

GuardBlocks(answer, expected) ==
  /\ gw = "check" /\ ~stopSet
  /\ ValidateDestination(answer, expected) # "none"
  /\ verdict' = Result(ValidateDestination(answer, expected))
  /\ gw' = "decide"
  /\ tries' = Min({tries + 1, MaxAttempts + 1})
  /\ UNCHANGED <<egress, failures, stopSet, child, chan, sup, fence, pause, looked, strays, silence, stopAge>>

(* A bug: no deadline before the child reports. *)
StartupDeadlineNone == Off

StartupDeadline == IF ConnectLimit > 0 THEN ConnectLimit + TeardownLimit ELSE Off

StartAttempt(answer, expected) ==
  /\ gw = "check" /\ ~stopSet
  /\ ValidateDestination(answer, expected) = "none"
  /\ tries' = Min({tries + 1, MaxAttempts + 1})
  /\ strays' = strays + (IF child \in Living THEN 1 ELSE 0)
  /\ \/ /\ child' = "alive" /\ chan' = <<>> /\ gw' = "supervise" /\ silence' = 0
        /\ sup' = [NoSup EXCEPT !.startup = StartupDeadline]
        /\ UNCHANGED verdict
     \/ /\ verdict' = LocalFailure /\ gw' = "decide" /\ child' = "none"
        /\ UNCHANGED <<chan, sup, silence>>
  /\ UNCHANGED <<egress, failures, stopSet, fence, pause, looked, stopAge>>

-----------------------------------------------------------------------------
(* The child *)

ChildSends(m) ==
  /\ child \in Reporting /\ Len(chan) < PipeSize
  /\ m.kind = "connected" => child = "alive"
  /\ m.kind = "progress" => child = "publishing"
  /\ chan' = Append(chan, m)
  /\ child' = IF m.kind = "connected" THEN "publishing" ELSE child
  /\ UNCHANGED <<gw, egress, failures, stopSet, verdict, sup, fence, pause, looked, history>>

ChildChanges ==
  /\ child \in Living
  /\ child' \in (IF child \in Reporting THEN {"deaf", "stuck", "exited"} ELSE {"exited"})
  /\ UNCHANGED <<gw, egress, failures, stopSet, verdict, chan, sup, fence, pause, looked, history>>

-----------------------------------------------------------------------------
(* supervise_attempt_child, one round of its loop *)

Fence(natural, result) ==
  /\ gw' = "fence"
  /\ verdict' = result
  /\ fence' = [stage |-> "natural", left |-> natural, raising |-> FALSE]

(* A bug: a message in time excuses every deadline. *)
DueQuiet(s, heard) == ~heard /\ 0 \in {s.stop, s.teardown, s.startup, s.live}

Due(s, heard) == 0 \in {s.stop, s.teardown, s.startup, s.live}

(* What the child has announced counts at its teardown's deadline and when it falls silent,
   not before it has connected. *)
DeadlineResult(s) ==
  LET announced(otherwise) == IF s.pending # "none" THEN Result(s.pending) ELSE otherwise IN
  CASE s.stop = 0 -> Result("STOPPED")
    [] s.stop # 0 /\ s.teardown = 0 -> announced(LocalFailure)
    [] 0 \notin {s.stop, s.teardown} /\ s.startup = 0 -> Result("TIMEOUT")
    [] OTHER -> announced(Result("TIMEOUT"))

(* The user's stop is passed on once. *)
Armed == IF stopSet /\ sup.stop = Off THEN [sup EXCEPT !.stop = TeardownLimit] ELSE sup

CheckDeadlines(s, heard) ==
  IF Due(s, heard)
    THEN Fence(0, DeadlineResult(s)) /\ sup' = NoSup /\ UNCHANGED looked
    ELSE sup' = s /\ looked' = TRUE /\ UNCHANGED <<gw, verdict, fence>>

LivenessArmed == LivenessLimit > 0 /\ HeartbeatEvery > 0 /\ LivenessLimit > HeartbeatEvery

(* Any accepted message is evidence. *)
Refreshed(s) == IF s.live # Off THEN [s EXCEPT !.live = LivenessLimit] ELSE s

AtConnected(s) == [s EXCEPT !.startup = Off, !.live = IF LivenessArmed THEN LivenessLimit ELSE @]

ReceiveConnected ==
  /\ gw = "supervise" /\ chan # <<>> /\ Head(chan).kind = "connected"
  /\ chan' = Tail(chan) /\ silence' = 0
  /\ egress' = "CONNECTED" /\ failures' = 0 /\ tries' = 0
  /\ CheckDeadlines(Refreshed(AtConnected(Armed)), TRUE)
  /\ UNCHANGED <<stopSet, child, pause, strays, stopAge>>

ReceiveProgress ==
  /\ gw = "supervise" /\ chan # <<>> /\ Head(chan).kind = "progress"
  /\ chan' = Tail(chan) /\ silence' = 0
  /\ egress' = "CONNECTED"
  /\ CheckDeadlines(Refreshed(Armed), TRUE)
  /\ UNCHANGED <<failures, stopSet, child, pause, strays, stopAge, tries>>

(* A bug: every teardown message begins the teardown again. *)
AtTeardownAgain(s, m) == [s EXCEPT !.pending = m.r, !.teardown = TeardownLimit]

AtTeardown(s, m) == [s EXCEPT !.pending = m.r, !.teardown = IF @ = Off THEN TeardownLimit ELSE @]

ReceiveTeardown ==
  /\ gw = "supervise" /\ chan # <<>> /\ Head(chan).kind = "teardown"
  /\ chan' = Tail(chan)
  /\ CheckDeadlines(Refreshed(AtTeardown(Armed, Head(chan))), TRUE)
  /\ UNCHANGED <<egress, failures, stopSet, child, pause, history>>

ReceiveResult ==
  /\ gw = "supervise" /\ chan # <<>> /\ Head(chan).kind = "result"
  /\ chan' = Tail(chan) /\ sup' = NoSup
  /\ Fence(NaturalLimit, Result(Head(chan).r))
  /\ UNCHANGED <<egress, failures, stopSet, child, pause, looked, history>>

(* A malformed message, or the end of a dead child's pipe. *)
ReceiveNothingValid ==
  /\ gw = "supervise"
  /\ \/ chan # <<>> /\ Head(chan).kind = "bad"
     \/ chan = <<>> /\ child = "exited"
  /\ sup' = NoSup
  /\ Fence(0, LocalFailure)
  /\ UNCHANGED <<egress, failures, stopSet, child, chan, pause, looked, history>>

NoMessage ==
  /\ gw = "supervise" /\ chan = <<>> /\ child # "exited" /\ ~looked
  /\ CheckDeadlines(Armed, FALSE)
  /\ UNCHANGED <<egress, failures, stopSet, child, chan, pause, history>>

(* The status file is written from the loop: an error there leaves it, and run reaps the child
   before it raises. *)
CallbackFails ==
  /\ gw = "supervise" /\ chan # <<>> /\ Head(chan).kind \in {"connected", "progress"}
  /\ chan' = Tail(chan) /\ sup' = NoSup
  /\ gw' = "fence" /\ fence' = [stage |-> "natural", left |-> 0, raising |-> TRUE]
  /\ IF Head(chan).kind = "connected" THEN failures' = 0 /\ tries' = 0 ELSE UNCHANGED <<failures, tries>>
  /\ UNCHANGED <<egress, stopSet, verdict, child, pause, looked, strays, silence, stopAge>>

-----------------------------------------------------------------------------
(* reap_child *)

(* A bug: after the kill the child counts as dead. *)
ReapedAnyway == child = "exited" \/ (fence.stage = "kill" /\ fence.left = 0)

Reaped == child = "exited"

FenceDone ==
  /\ gw = "fence" /\ Reaped
  /\ gw' = IF fence.raising THEN "raised" ELSE "decide"
  /\ fence' = NoFence
  /\ UNCHANGED <<egress, failures, stopSet, verdict, child, chan, sup, pause, looked, history>>

(* A signal that comes too late for the child finds no process.  AttemptSupervisorError, after
   the kill, makes run go through the three stages again before it ends the gateway. *)
FenceEscalates ==
  /\ gw = "fence" /\ ~Reaped /\ fence.left = 0
  /\ \/ /\ fence.stage = "natural"
        /\ fence' = [fence EXCEPT !.stage = "terminate", !.left = TerminateLimit]
        /\ child' \in (IF child \in Reporting THEN {"exited", child} ELSE {child})
        /\ UNCHANGED gw
     \/ /\ fence.stage = "terminate"
        /\ fence' = [fence EXCEPT !.stage = "kill", !.left = KillLimit]
        /\ child' = IF child = "stuck" THEN child ELSE "exited"
        /\ UNCHANGED gw
     \/ /\ fence.stage = "kill" /\ ~fence.raising
        /\ fence' = [stage |-> "natural", left |-> 0, raising |-> TRUE]
        /\ UNCHANGED <<gw, child>>
     \/ /\ fence.stage = "kill" /\ fence.raising
        /\ gw' = "raised" /\ fence' = NoFence
        /\ UNCHANGED child
  /\ UNCHANGED <<egress, failures, stopSet, verdict, chan, sup, pause, looked, history>>

-----------------------------------------------------------------------------
(* After the attempt *)

(* exhausted, with EGRESS_MAX_RETRY_SECONDS at its default of 0; a bug would let one
   more pass. *)
ExhaustedLate(n) == MaxAttempts > 0 /\ n > MaxAttempts

Exhausted(n) == MaxAttempts > 0 /\ n >= MaxAttempts

(* delay_for: exponential, capped, with jitter *)
DelayFor(n) ==
  LET base == Min({RetryMax, RetryInitial * 2 ^ (n - 1)}) IN
  (base * (100 - JitterPercent)) \div 100 .. (base * (100 + JitterPercent) + 99) \div 100

Decide ==
  /\ gw = "decide"
  /\ IF stopSet \/ verdict.reason = "STOPPED"
       THEN egress' = "STOPPED" /\ gw' = "ended" /\ UNCHANGED <<failures, pause>>
       ELSE /\ failures' = failures + 1
            /\ IF verdict.terminal
                 THEN /\ egress' = IF verdict.reason = "AUTH_FAILED" THEN "AUTH_FAILED" ELSE "FAILED"
                      /\ gw' = "ended" /\ UNCHANGED pause
                 ELSE IF Exhausted(failures + 1)
                 THEN egress' = "FAILED" /\ gw' = "ended" /\ UNCHANGED pause
                 ELSE egress' = "RECONNECTING" /\ gw' = "wait" /\ pause' \in DelayFor(failures + 1)
  /\ verdict' = NoResult
  /\ UNCHANGED <<stopSet, child, chan, sup, fence, looked, history>>

WaitOver ==
  /\ gw = "wait" /\ (pause = 0 \/ stopSet)
  /\ gw' = "check"
  /\ UNCHANGED <<egress, failures, stopSet, verdict, child, chan, sup, fence, pause, looked, history>>

(* A status that cannot be written ends the gateway. *)
StatusFails ==
  /\ gw \in {"start", "decide"} \/ (gw = "check" /\ stopSet)
  /\ gw' = "raised"
  /\ UNCHANGED <<egress, failures, stopSet, verdict, child, chan, sup, fence, pause, looked, history>>

RequestStopSignal ==
  /\ ~stopSet /\ gw \notin {"ended", "raised"}
  /\ stopSet' = TRUE
  /\ UNCHANGED <<gw, egress, failures, verdict, child, chan, sup, fence, pause, looked, history>>

(* Time passes while the gateway waits: in the loop, in a join, between attempts until the
   stop event ends that wait. *)
Less(n) == IF n > 0 THEN n - 1 ELSE n

GatewayTick ==
  /\ \/ gw = "supervise" /\ looked
     \/ gw = "fence" /\ fence.left > 0 /\ child # "exited"
     \/ gw = "wait" /\ pause > 0 /\ ~stopSet
  /\ sup' = [sup EXCEPT !.startup = Less(@), !.live = Less(@), !.teardown = Less(@), !.stop = Less(@)]
  /\ fence' = IF gw = "fence" THEN [fence EXCEPT !.left = Less(@)] ELSE fence
  /\ pause' = Less(pause)
  /\ looked' = FALSE
  /\ silence' = IF egress = "CONNECTED" THEN Min({silence + 1, Bound}) ELSE 0
  /\ stopAge' = IF stopSet THEN Min({stopAge + 1, Bound}) ELSE 0
  /\ UNCHANGED <<gw, egress, failures, stopSet, verdict, child, chan, strays, tries>>

GatewaySteps ==
  \/ Start \/ Stopped
  \/ \E answer \in SUBSET Addresses, expected \in {"none", "verified"} :
       GuardBlocks(answer, expected) \/ StartAttempt(answer, expected)
  \/ ReceiveConnected \/ ReceiveProgress \/ ReceiveTeardown \/ ReceiveResult \/ ReceiveNothingValid \/ NoMessage
  \/ CallbackFails \/ FenceDone \/ FenceEscalates \/ Decide \/ WaitOver \/ StatusFails

GatewayNext ==
  \/ GatewaySteps \/ GatewayTick
  \/ (\E m \in Messages : ChildSends(m)) \/ ChildChanges \/ RequestStopSignal

GatewaySpec == GatewayInit /\ [][GatewayNext]_gatewayVars

Ended == gw \in {"ended", "raised"}

-----------------------------------------------------------------------------
(* There is never a second publisher: no attempt starts while an earlier child lives, also
   when that child ignores SIGTERM or hangs in the kernel. *)
OnePublisher == strays = 0

(* A stop is carried out within one round of the loop, the teardown window and the
   reaping, whatever the child sends or refuses to do: a child that hangs in the kernel costs
   the second reaping too. *)
StopIsPrompt == ~Ended => stopAge <= 1 + TeardownLimit + ReapTime

(* CONNECTED is published only while the child says that it publishes: silence and a
   teardown that does not end are noticed, and reaping takes the longest until the status
   changes. *)
NoStaleConnected ==
  egress = "CONNECTED" /\ ~Ended /\ LivenessArmed =>
    silence <= LivenessLimit + TeardownLimit + ReapTime

(* Attempts without a connection between them stay within the configured number. *)
RetriesBounded == MaxAttempts > 0 => tries <= MaxAttempts

(* No child that neither connects nor dies can hold an attempt up: with a connect timeout, the
   attempt connects or the gateway decides what comes next.  Only with a limit on the attempts
   does an outage therefore end; the default, 0, retries for as long as it lasts. *)
OutageEnds ==
  ConnectLimit > 0 =>
    /\ (gw = "supervise" /\ egress # "CONNECTED") ~> (egress = "CONNECTED" \/ gw = "decide" \/ Ended)
    /\ MaxAttempts > 0 => (egress \in {"STARTING", "RECONNECTING"} ~> (egress = "CONNECTED" \/ Ended))

(* What the gateway promises of its attempts (egress.py, isolated_attempt.py): one
   publisher at a time, a prompt stop, a CONNECTED that is true, and bounded retries. *)
GatewayPromise == OnePublisher /\ StopIsPrompt /\ NoStaleConnected /\ RetriesBounded
=============================================================================
