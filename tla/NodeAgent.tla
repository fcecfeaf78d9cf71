-------------------------------- MODULE NodeAgent --------------------------------
(***************************************************************************)
(* The Node Agent: it bootstraps, writes the secrets, starts the media stack, *)
(* sends heartbeats, and stops the stack when the Control Plane, a signal or  *)
(* the absolute deadline says so.  The deadline is watched by a thread of its *)
(* own, so both threads may stop the stack, while the other starts it.       *)
(* NodeAuthority is the other side of its calls.                            *)
(***************************************************************************)
EXTENDS Integers, FiniteSets

CONSTANTS
  Horizon,        \* bound: how far off a deadline may be, in ticks
  MaxRetries      \* bound: bootstrap calls that fail in transport

ASSUME NodeAgentAssumption == {Horizon, MaxRetries} \subseteq Nat

VARIABLES
  main,        \* the main thread: step, and where _stop_media_once returns to
  watchdog,    \* _deadline_watchdog
  remaining,   \* ticks to absolute_deadline, or NoDeadline
  retries,     \* bootstrap calls that have failed in transport
  shutdown,    \* _shutdown_event
  flags,       \* the _media_* flags
  stopLock,    \* holder of _media_stop_lock, or "nobody"
  stack,       \* the media containers: "down" or "up"
  secrets,     \* which secret files exist
  secretPath,  \* write_secret has returned a path
  exitCode,
  stops        \* history: calls of supervisor.stop that have not raised

agentVars == <<main, watchdog, remaining, retries, shutdown, flags, stopLock, stack, secrets, secretPath, exitCode, stops>>

NoDeadline == -1
At(step) == [step |-> step, then |-> "none"]
Call(step, then) == [step |-> step, then |-> then]

NoFlags == [started |-> FALSE, attempted |-> FALSE, finished |-> FALSE, stopAttempted |-> FALSE,
            stopRequested |-> FALSE, stopResult |-> "none"]

AgentInit ==
  /\ main = At("bootstrap") /\ watchdog = At("none") /\ remaining = NoDeadline /\ retries = 0
  /\ shutdown = FALSE /\ flags = NoFlags /\ stopLock = "nobody"
  /\ stack \in {"down", "up"} /\ secrets \in SUBSET {"egress"} /\ secretPath = FALSE
  /\ exitCode = 0 /\ stops = 0

-----------------------------------------------------------------------------
(* bootstrap_with_retry, write_secret, seed_control_state *)

(* Transport errors are retried until the bootstrap timeout; a denial or a response that
   does not validate is not. *)
BootstrapUnavailable ==
  /\ main.step = "bootstrap"
  /\ \/ retries < MaxRetries /\ retries' = retries + 1 /\ UNCHANGED <<main, exitCode>>
     \/ main' = At("finally") /\ exitCode' = 1 /\ UNCHANGED retries
  /\ UNCHANGED <<watchdog, remaining, shutdown, flags, stopLock, stack, secrets, stops, secretPath>>

BootstrapDenied ==
  /\ main.step = "bootstrap"
  /\ main' = At("finally") /\ exitCode' = 1
  /\ UNCHANGED <<watchdog, remaining, retries, shutdown, flags, stopLock, stack, secrets, stops, secretPath>>

(* A deadline that has passed, or a clock that cannot be read, refuses the start. *)
Bootstrapped(deadline, readable) ==
  /\ main.step = "bootstrap"
  /\ remaining' = deadline
  /\ IF deadline # NoDeadline /\ (~readable \/ deadline = 0)
     THEN main' = At("finally") /\ shutdown' = TRUE /\ exitCode' = 1
     ELSE main' = At("secret") /\ UNCHANGED <<shutdown, exitCode>>
  /\ UNCHANGED <<watchdog, retries, flags, stopLock, stack, secrets, stops, secretPath>>

(* A relay-only session has no outbound credential, and stale files are removed; a failed
   write removes what it has written, a refused response does not touch the files. *)
WriteSecret(kind) ==
  /\ main.step = "secret"
  /\ main' = At(IF kind \in {"written", "relay"} THEN "seed" ELSE "finally")
  /\ secrets' = CASE kind = "written" -> secrets \cup {"egress"}
                  [] kind \in {"relay", "failed"} -> secrets \ {"egress"}
                  [] kind = "refused" -> secrets
  /\ secretPath' = (kind = "written")
  /\ exitCode' = IF kind \in {"failed", "refused"} THEN 1 ELSE exitCode
  /\ UNCHANGED <<watchdog, remaining, retries, shutdown, flags, stopLock, stack, stops>>

(* A control file that exists is kept; then the watchdog is started. *)
SeedControlState(valid) ==
  /\ main.step = "seed"
  /\ IF valid THEN main' = At("auth") /\ watchdog' = At("watch") /\ UNCHANGED exitCode
     ELSE main' = At("finally") /\ exitCode' = 1 /\ UNCHANGED watchdog
  /\ UNCHANGED <<remaining, retries, shutdown, flags, stopLock, stack, secrets, stops, secretPath>>

(* pre_media_start: the media secrets and the auth proxy; a partial start is undone. *)
StartMediaAuth(ok) ==
  /\ main.step = "auth"
  /\ IF shutdown THEN main' = At("finally") /\ UNCHANGED <<secrets, exitCode>>
     ELSE IF ok THEN main' = At("attempt") /\ secrets' = secrets \cup {"media"} /\ UNCHANGED exitCode
     ELSE main' = At("finally") /\ exitCode' = 1 /\ UNCHANGED secrets
  /\ UNCHANGED <<watchdog, remaining, retries, shutdown, flags, stopLock, stack, stops, secretPath>>

-----------------------------------------------------------------------------
(* Starting the stack *)

AttemptStart ==
  /\ main.step = "attempt"
  /\ IF shutdown THEN main' = At("finally") /\ UNCHANGED flags
     ELSE main' = At("mark") /\ flags' = [flags EXCEPT !.attempted = TRUE]
  /\ UNCHANGED <<watchdog, remaining, retries, shutdown, stopLock, stack, secrets, exitCode, stops, secretPath>>

(* The stack counts as started for the whole call of the supervisor. *)
MarkStarted ==
  /\ main.step = "mark" /\ stopLock = "nobody"
  /\ main' = At("compose") /\ flags' = [flags EXCEPT !.started = TRUE]
  /\ UNCHANGED <<watchdog, remaining, retries, shutdown, stopLock, stack, secrets, exitCode, stops, secretPath>>

(* ComposeSupervisor.start: the preflight, and the start of existing containers; a command
   that fails or times out may have started some. *)
ComposeStart(ok) ==
  /\ main.step = "compose"
  /\ \/ stack' = "up" /\ main' = At(IF ok THEN "health" ELSE "startFailed")
     \/ ~ok /\ main' = At("startFailed") /\ UNCHANGED stack
  /\ UNCHANGED <<watchdog, remaining, retries, shutdown, flags, stopLock, secrets, exitCode, stops, secretPath>>

(* The services are polled until they run, or the startup timeout. *)
WaitForHealth(ready) ==
  /\ main.step = "health" /\ (ready => stack = "up")
  /\ main' = At(IF ready THEN "started" ELSE "startFailed")
  /\ UNCHANGED <<watchdog, remaining, retries, shutdown, flags, stopLock, stack, secrets, exitCode, stops, secretPath>>

StartFailed ==
  /\ main.step = "startFailed"
  /\ flags' = [flags EXCEPT !.finished = TRUE] /\ exitCode' = 1 /\ main' = At("finally")
  /\ UNCHANGED <<watchdog, remaining, retries, shutdown, stopLock, stack, secrets, stops, secretPath>>

Started ==
  /\ main.step = "started" /\ stopLock = "nobody"
  /\ flags' = [flags EXCEPT !.started = TRUE, !.finished = TRUE]
  /\ main' = IF flags.stopRequested \/ shutdown THEN Call("stop", "beat") ELSE At("beat")
  /\ UNCHANGED <<watchdog, remaining, retries, shutdown, stopLock, stack, secrets, exitCode, stops, secretPath>>

-----------------------------------------------------------------------------
(* _stop_media_once, from either thread *)

(* A bug: the caller does not look for an earlier stop. *)
StopIsDueAlways == flags.started \/ ~flags.attempted \/ flags.finished

StopIsDue ==
  /\ flags.started \/ ~flags.attempted \/ flags.finished
  /\ ~flags.stopAttempted

EnterStop(who) ==
  /\ stopLock = "nobody"
  /\ flags' = [flags EXCEPT !.stopRequested = TRUE, !.stopAttempted = @ \/ StopIsDue]
  /\ stopLock' = IF StopIsDue THEN who ELSE "nobody"
  /\ stops' = IF StopIsDue THEN stops + 1 ELSE stops

(* supervisor.stop: the containers are down, three attempts have failed, or it raises. *)
StopReturns(who, outcome) ==
  /\ stopLock = who /\ stopLock' = "nobody"
  /\ stops' = IF outcome = "raised" THEN stops - 1 ELSE stops
  /\ stack' = IF outcome = "ok" THEN "down" ELSE stack
  /\ flags' = CASE outcome = "ok" -> [flags EXCEPT !.started = FALSE, !.stopResult = "ok"]
                [] outcome = "failed" -> [flags EXCEPT !.stopResult = "failed"]
                [] outcome = "raised" -> [flags EXCEPT !.stopAttempted = FALSE, !.stopResult = "raised"]

StopMediaOnce ==
  /\ main.step = "stop" /\ EnterStop("main")
  /\ main' = IF StopIsDue THEN Call("stopping", main.then) ELSE At(main.then)
  /\ UNCHANGED <<watchdog, remaining, retries, shutdown, stack, secrets, exitCode, secretPath>>

MainStopReturns(outcome) ==
  /\ main.step = "stopping" /\ StopReturns("main", outcome) /\ main' = At(main.then)
  /\ UNCHANGED <<watchdog, remaining, retries, shutdown, secrets, exitCode, secretPath>>

-----------------------------------------------------------------------------
(* Heartbeats, and the end of run *)

(* RUNNING, a server error or no answer go on; STOPPED, a denial or a clock that cannot be
   read end the loop. *)
Heartbeat(answer) ==
  /\ main.step = "beat" /\ ~shutdown
  /\ IF answer = "on" THEN UNCHANGED <<main, shutdown, exitCode>>
     ELSE /\ main' = At("finally") /\ shutdown' = TRUE
          /\ exitCode' = IF answer = "clock" THEN 1 ELSE exitCode
  /\ UNCHANGED <<watchdog, remaining, retries, flags, stopLock, stack, secrets, stops, secretPath>>

HeartbeatsEnd ==
  /\ main.step = "beat" /\ shutdown /\ main' = At("finally")
  /\ UNCHANGED <<watchdog, remaining, retries, shutdown, flags, stopLock, stack, secrets, exitCode, stops, secretPath>>

Finally ==
  /\ main.step = "finally" /\ shutdown' = TRUE /\ main' = Call("stop", "join")
  /\ UNCHANGED <<watchdog, remaining, retries, flags, stopLock, stack, secrets, exitCode, stops, secretPath>>

(* The join lasts a second at most; then the stop is called once more. *)
JoinWatchdog ==
  /\ main.step = "join" /\ main' = Call("stop", "cleanup")
  /\ UNCHANGED <<watchdog, remaining, retries, shutdown, flags, stopLock, stack, secrets, exitCode, stops, secretPath>>

(* A bug: the secrets of a start that did not come up are kept. *)
RemovedSecretsIfStarted(ok) == IF flags.finished /\ ok THEN {"egress", "media"} ELSE {}

(* A proxy that cannot be stopped keeps the media secrets. *)
RemovedSecrets(ok) ==
  (IF secretPath THEN {"egress"} ELSE {}) \cup (IF ok THEN {"media"} ELSE {})

(* post_media_stop and remove_secret *)
AgentCleanup(ok) ==
  /\ main.step = "cleanup"
  /\ exitCode' = IF flags.stopResult \in {"failed", "raised"} \/ ~ok THEN 1 ELSE exitCode
  /\ secrets' = secrets \ RemovedSecrets(ok)
  /\ main' = At("exited")
  /\ UNCHANGED <<watchdog, remaining, retries, shutdown, flags, stopLock, stack, stops, secretPath>>

-----------------------------------------------------------------------------
(* _deadline_watchdog *)

(* A bug: the watchdog waits for the event only. *)
DeadlineSeenNever(readable) == FALSE

DeadlineSeen(readable) == remaining # NoDeadline /\ (~readable \/ remaining = 0)

Watch(readable) ==
  /\ watchdog.step = "watch"
  /\ shutdown \/ DeadlineSeen(readable)
  /\ shutdown' = TRUE /\ watchdog' = At("stop")
  /\ UNCHANGED <<main, remaining, retries, flags, stopLock, stack, secrets, exitCode, stops, secretPath>>

WatchdogStop ==
  /\ watchdog.step = "stop" /\ EnterStop("watchdog")
  /\ watchdog' = IF StopIsDue THEN At("stopping") ELSE At("done")
  /\ UNCHANGED <<main, remaining, retries, shutdown, stack, secrets, exitCode, secretPath>>

WatchdogStopReturns(outcome) ==
  /\ watchdog.step = "stopping" /\ StopReturns("watchdog", outcome) /\ watchdog' = At("done")
  /\ UNCHANGED <<main, remaining, retries, shutdown, secrets, exitCode, secretPath>>

(* handle_signal *)
HandleSignal ==
  /\ ~shutdown /\ main.step # "exited" /\ shutdown' = TRUE
  /\ UNCHANGED <<main, watchdog, remaining, retries, flags, stopLock, stack, secrets, exitCode, stops, secretPath>>

AgentTick ==
  /\ remaining > 0 /\ remaining' = remaining - 1
  /\ UNCHANGED <<main, watchdog, retries, shutdown, flags, stopLock, stack, secrets, exitCode, stops, secretPath>>

-----------------------------------------------------------------------------
Outcomes == {"ok", "failed", "raised"}

StopSteps ==
  \/ StopMediaOnce \/ \E o \in Outcomes : MainStopReturns(o)

WatchdogSteps ==
  \/ \E readable \in BOOLEAN : Watch(readable)
  \/ WatchdogStop \/ \E o \in Outcomes : WatchdogStopReturns(o)

MainSteps ==
  \/ BootstrapUnavailable \/ BootstrapDenied
  \/ \E d \in {NoDeadline} \cup 0..Horizon, readable \in BOOLEAN : Bootstrapped(d, readable)
  \/ \E kind \in {"written", "relay", "failed", "refused"} : WriteSecret(kind)
  \/ \E ok \in BOOLEAN : SeedControlState(ok) \/ StartMediaAuth(ok) \/ ComposeStart(ok) \/ WaitForHealth(ok)
                         \/ AgentCleanup(ok)
  \/ AttemptStart \/ MarkStarted \/ StartFailed \/ Started \/ StopSteps
  \/ HeartbeatsEnd \/ Finally \/ JoinWatchdog

(* The steps that are no calls of something else: what a thread does by itself once it is
   scheduled.  Every call, of the Control Plane, the auth proxy or the supervisor, may hang. *)
MainAdvances ==
  \/ AttemptStart \/ MarkStarted \/ StartFailed \/ Started \/ StopMediaOnce
  \/ HeartbeatsEnd \/ Finally \/ JoinWatchdog

WatchdogAdvances == (\E readable \in BOOLEAN : Watch(readable)) \/ WatchdogStop

AgentNext ==
  \/ MainSteps \/ WatchdogSteps
  \/ \E answer \in {"on", "stop", "clock"} : Heartbeat(answer)
  \/ HandleSignal \/ AgentTick

AgentSpec == AgentInit /\ [][AgentNext]_agentVars

-----------------------------------------------------------------------------
(* Both threads and the finalizer ask for the stop, and the supervisor is called once unless
   a call raised. *)
StopsOnce == stops <= 1

(* The deadline stops the media even while the main thread hangs in a call for ever.  The one
   gap is the instant before the stack counts as started: a stop asked for there waits for the
   start, and follows it if the start comes back. *)
DeadlineStops ==
  /\ (watchdog.step = "watch" /\ remaining = 0) ~> (stops > 0 \/ main.step = "mark")
  /\ (flags.stopRequested /\ main.step \in {"started", "startFailed"}) ~> (stops > 0)

(* Whatever step of the start fails, an agent that has ended leaves no credential that it
   wrote, except the media secrets when its own auth proxy could not be stopped, and says so. *)
SecretsRemoved ==
  main.step = "exited" =>
    /\ secretPath => "egress" \notin secrets
    /\ "media" \in secrets => exitCode = 1

(* An agent that ends without an error has left no media running: a start that returns late
   is followed by a stop. *)
NeverLeftRunning == main.step = "exited" /\ exitCode = 0 => stack = "down"

(* What the agent's two threads promise (agent.py): one stop, and no secret left behind. *)
AgentPromise == StopsOnce /\ SecretsRemoved
=============================================================================
