-------------------------------- MODULE Continuity --------------------------------
(***************************************************************************)
(* The continuity engine of a Node: probes in the input pipeline observe     *)
(* frames, a reconcile loop decides whether viewers see the live input or    *)
(* the standby image and whether they hear it, and a supervisor thread        *)
(* rebuilds the input pipeline.                                             *)
(*                                                                         *)
(* Instants are kept as ages in ticks, up to Oldest.  A probe reads the clock *)
(* and then takes the lock of ContinuityState; the reconcile loop reads the   *)
(* clock, then the control file, and then takes the lock.                   *)
(***************************************************************************)
EXTENDS Integers, FiniteSets, FiniteSetsExt

CONSTANTS
  InputTimeout,   \* INPUT_TIMEOUT_SECONDS
  StableWindow,   \* RECOVERY_STABLE_SECONDS
  HandoffDelay    \* ticks a probe may wait between its clock and the lock

ASSUME ContinuityAssumption == InputTimeout \in Nat \ {0} /\ {StableWindow, HandoffDelay} \subseteq Nat

VARIABLES
  lastVideo,    \* age of _last_video_at, or Never
  stableSince,  \* age of _video_stable_since, or Never
  lastAudio,    \* age of _last_audio_at, or Never
  desired,      \* desired_audio
  handoff,      \* a video probe between its clock and the lock
  reconcile,    \* the reconcile loop
  control,      \* control.json
  lastValid,    \* _last_valid of the ControlStateReader
  onAir,        \* the active pads
  input,        \* the input pipeline and its supervisor
  failedFlag,   \* _input_failed
  recent,       \* history: ages of the last frame and of the last frame after a gap
  heardMode     \* history: the mode this process has last read

switchVars == <<lastVideo, stableSince, lastAudio, desired, handoff, reconcile, control, lastValid, onAir,
                recent, heardMode>>
inputVars == <<input, failedFlag>>
continuityVars == <<switchVars, inputVars>>

Never == -1
Oldest == InputTimeout + StableWindow + HandoffDelay + 2
ModesOfAudio == {"LIVE", "MUTED"}
Resting == [step |-> "none"]
RoundDue == [step |-> "due"]
TimerGone == [step |-> "gone"]   \* GLib has removed the callback that raised

Aged(a) == IF a = Never \/ a = Oldest THEN a ELSE a + 1

ContinuityInit ==
  /\ lastVideo = Never /\ stableSince = Never /\ lastAudio = Never /\ desired = "LIVE"
  /\ handoff = Resting /\ reconcile = RoundDue
  /\ control \in ModesOfAudio \cup {"invalid", "absent"} /\ lastValid = "none"
  /\ onAir = [video |-> "STANDBY", audio |-> "SILENCE"]
  /\ recent = [frame |-> Never, gapless |-> Never] /\ heardMode = "none"
  /\ input = [step |-> "clear", pipe |-> "none"] /\ failedFlag = FALSE

-----------------------------------------------------------------------------
(* ContinuityState *)

(* A frame passes the probe: the handoff reads the clock.  One frame stands for those of a tick. *)
VideoFrame ==
  /\ handoff = Resting /\ recent.frame # 0
  /\ handoff' = [step |-> "lock", age |-> 0]
  /\ recent' = [frame |-> 0,
                gapless |-> IF recent.frame = Never \/ recent.frame > InputTimeout + 1
                            THEN 0 ELSE recent.gapless]
  /\ UNCHANGED <<lastVideo, stableSince, lastAudio, desired, reconcile, control, lastValid, onAir, heardMode, inputVars>>

StartsWindow(age) == lastVideo = Never \/ lastVideo - age > InputTimeout

ObserveVideo ==
  /\ handoff.step = "lock"
  /\ stableSince' = IF StartsWindow(handoff.age) THEN handoff.age ELSE stableSince
  /\ lastVideo' = handoff.age
  /\ handoff' = Resting
  /\ UNCHANGED <<lastAudio, desired, reconcile, control, lastValid, onAir, recent, heardMode, inputVars>>

ObserveAudio ==
  /\ lastAudio' = 0
  /\ UNCHANGED <<lastVideo, stableSince, desired, handoff, reconcile, control, lastValid, onAir, recent, heardMode,
                 inputVars>>

-----------------------------------------------------------------------------
(* _reconcile *)

ReconcileStart ==
  /\ reconcile = RoundDue
  /\ reconcile' = [step |-> "control", age |-> 0]
  /\ UNCHANGED <<lastVideo, stableSince, lastAudio, desired, handoff, control, lastValid, onAir, recent, heardMode,
                 inputVars>>

(* A bug: without a readable command the audio is live. *)
FallbackLive == IF lastValid = "none" THEN "LIVE" ELSE lastValid

(* ControlStateReader.read and _fallback *)
Fallback == IF lastValid = "none" THEN "MUTED" ELSE lastValid

ReadControl ==
  /\ reconcile.step = "control"
  /\ lastValid' = IF control \in ModesOfAudio THEN control ELSE lastValid
  /\ heardMode' = IF control \in ModesOfAudio THEN control ELSE heardMode
  /\ desired' = IF control \in ModesOfAudio THEN control ELSE Fallback
  /\ reconcile' = [reconcile EXCEPT !.step = "decide"]
  /\ UNCHANGED <<lastVideo, stableSince, lastAudio, handoff, control, onAir, recent, inputVars>>

(* A bug: what has been live stays so while frames are recent enough to come again. *)
RecentTwice(a, age) == a # Never /\ a - age <= 2 * InputTimeout + 1

Recent(a, age) == a # Never /\ a - age <= InputTimeout

(* A bug: any window at all is long enough. *)
StableAny(age) == stableSince # Never

Stable(age) == stableSince # Never /\ stableSince - age >= StableWindow

DecideSources(age) ==
  LET video == IF Recent(lastVideo, age) /\ Stable(age) THEN "LIVE" ELSE "STANDBY" IN
  [video |-> video,
   audio |-> IF desired = "LIVE" /\ video = "LIVE" /\ Recent(lastAudio, age) THEN "LIVE" ELSE "SILENCE"]

(* decide, and the active pads; status.json comes last and says the same. *)
ReconcileEnds ==
  /\ reconcile.step = "decide"
  /\ onAir' = DecideSources(reconcile.age)
  /\ stableSince' = IF Recent(lastVideo, reconcile.age) THEN stableSince ELSE Never
  /\ UNCHANGED <<lastVideo, lastAudio, desired, handoff, control, lastValid, recent, heardMode, inputVars>>

(* A status that is not strict JSON or has no usable wall clock is not written, and the round
   ends all the same. *)
Apply == reconcile' = Resting /\ ReconcileEnds

(* Only RuntimeStatusWriteError is caught: any other error of the write leaves the callback,
   which does not come again: the pads stay as this round has set them. *)
StatusWriteRaises == reconcile' = TimerGone /\ ReconcileEnds

ControlChanges(c) ==
  /\ control' = c /\ control # c
  /\ UNCHANGED <<lastVideo, stableSince, lastAudio, desired, handoff, reconcile, lastValid, onAir, recent, heardMode,
                 inputVars>>

(* The container starts again: nothing but the control file is left. *)
EngineRestarts ==
  /\ lastVideo' = Never /\ stableSince' = Never /\ lastAudio' = Never /\ desired' = "LIVE"
  /\ handoff' = Resting /\ reconcile' = RoundDue /\ lastValid' = "none"
  /\ onAir' = [video |-> "STANDBY", audio |-> "SILENCE"]
  /\ recent' = [frame |-> Never, gapless |-> Never] /\ heardMode' = "none"
  /\ input' = [step |-> "clear", pipe |-> "none"] /\ failedFlag' = FALSE
  /\ UNCHANGED control

(* The reconcile timer fires once in a tick and a round may last into the next; a probe
   keeps its clock for HandoffDelay. *)
ContinuityTick ==
  /\ handoff # Resting => handoff.age < HandoffDelay
  /\ reconcile \notin {Resting, TimerGone} => reconcile # RoundDue /\ reconcile.age = 0
  /\ lastVideo' = Aged(lastVideo) /\ stableSince' = Aged(stableSince) /\ lastAudio' = Aged(lastAudio)
  /\ recent' = [frame |-> Aged(recent.frame), gapless |-> Aged(recent.gapless)]
  /\ handoff' = IF handoff = Resting THEN Resting ELSE [handoff EXCEPT !.age = @ + 1]
  /\ reconcile' = IF reconcile = TimerGone THEN TimerGone
                  ELSE IF reconcile = Resting THEN RoundDue ELSE [reconcile EXCEPT !.age = 1]
  /\ UNCHANGED <<desired, control, lastValid, onAir, heardMode, inputVars>>

SwitchNext ==
  \/ VideoFrame \/ ObserveVideo \/ ObserveAudio
  \/ ReconcileStart \/ ReadControl \/ Apply \/ StatusWriteRaises
  \/ \E c \in ModesOfAudio \cup {"invalid", "absent"} : ControlChanges(c)
  \/ ContinuityTick

-----------------------------------------------------------------------------
(* _input_supervisor.  The bus of an input pipeline is read in the main loop. *)

ClearFailed ==
  /\ input.step = "clear"
  /\ failedFlag' = FALSE
  /\ input' = [input EXCEPT !.step = "start"]
  /\ UNCHANGED switchVars

(* PLAYING, refused, or an error on the way. *)
StartInputPipeline ==
  /\ input.step = "start"
  /\ input' \in {[step |-> "watch", pipe |-> "playing"], [step |-> "stop", pipe |-> "dead"]}
  /\ UNCHANGED <<failedFlag, switchVars>>

(* A pipeline ends with a message on its bus. *)
InputEnds(message) ==
  /\ input.pipe = "playing"
  /\ input' = [input EXCEPT !.pipe = message]
  /\ UNCHANGED <<failedFlag, switchVars>>

(* A bug: the end of the stream is not a failure. *)
EndsInputOnError(message) == message = "error"

EndsInput(message) == message \in {"error", "eos"}

OnInputMessage ==
  /\ input.pipe \in {"error", "eos"}
  /\ failedFlag' = (EndsInput(input.pipe) \/ failedFlag)
  /\ input' = [input EXCEPT !.pipe = "dead"]
  /\ UNCHANGED switchVars

WatchInput ==
  /\ input.step = "watch" /\ failedFlag
  /\ input' = [input EXCEPT !.step = "stop"]
  /\ UNCHANGED <<failedFlag, switchVars>>

(* _stop_input_pipeline, and then the wait of source_retry_seconds *)
StopInputPipeline ==
  /\ input.step = "stop"
  /\ input' = [step |-> "clear", pipe |-> "none"]
  /\ UNCHANGED <<failedFlag, switchVars>>

InputNext ==
  \/ ClearFailed \/ StartInputPipeline \/ OnInputMessage \/ WatchInput \/ StopInputPipeline
  \/ \E message \in {"error", "eos"} : InputEnds(message)

ContinuityNext == SwitchNext \/ InputNext \/ EngineRestarts

ContinuitySpec == ContinuityInit /\ [][ContinuityNext]_continuityVars

-----------------------------------------------------------------------------
(* The live input is given only when frames have come for the stable window without a gap
   longer than the input timeout and a round of the loop: an input that flaps does not
   reach the viewers. *)
LiveIsStable ==
  [][(Apply \/ StatusWriteRaises) /\ onAir'.video = "LIVE" =>
       recent.gapless # Never /\ recent.gapless >= StableWindow]_continuityVars

(* Viewers see a frozen input no longer than the input timeout and three ticks: the end of the
   round that saw the last frame, the wait for the next, and that one's length.  That holds as
   long as the reconcile timer runs: after a status write that raised nothing hides the input. *)
FrozenIsHidden ==
  reconcile # TimerGone /\ onAir.video = "LIVE" =>
    recent.frame # Never /\ recent.frame <= InputTimeout + HandoffDelay + 3

(* Live audio is heard only on a LIVE command that this process has read and that no later
   one has replaced: a lost or damaged control file, or a restart, never unmutes. *)
NeverUnmutes == [][(Apply \/ StatusWriteRaises) /\ onAir'.audio = "LIVE" => heardMode = "LIVE"]_continuityVars

(* An input pipeline that fails is replaced by another, whenever its failure is noticed. *)
InputIsRebuilt == (input.pipe \in {"error", "eos", "dead"}) ~> (input.step = "start")

(* What viewers are promised (continuity.py, state.py): no flapping, no frozen input while
   the reconcile timer runs, and no audio that was not asked for. *)
ContinuityPromise == []FrozenIsHidden /\ LiveIsStable /\ NeverUnmutes
=============================================================================
