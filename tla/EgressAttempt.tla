------------------------------- MODULE EgressAttempt -------------------------------
(***************************************************************************)
(* One publish attempt of the egress gateway: the GStreamer pipeline from    *)
(* the internal RTSP source to the RTMP sink, and the poll that decides      *)
(* whether the destination takes the stream.                                *)
(*                                                                         *)
(* Source pads appear in a streaming thread, bus messages and polls in the   *)
(* main loop.  The stream itself and the sink's counters are external: a     *)
(* poll may find any counters, also fewer than before, and a stream may go   *)
(* on for ever: a counter is kept by whether it is above zero and by its     *)
(* distance from the marker.  Time is measured in ticks; a poll comes one or *)
(* two ticks after the last one.                                            *)
(***************************************************************************)
EXTENDS Integers, FiniteSets, FiniteSetsExt

CONSTANTS
  ConnectTimeout,  \* connect_timeout_seconds; 0 is none
  Stability,       \* connect_stability_seconds
  StallTimeout,    \* output_stall_timeout_seconds; 0 is none
  ReportEvery,     \* status_heartbeat_seconds; 0 is never
  SinkFactory,     \* rtmpsink or rtmp2sink
  MaxStep          \* bound on how far a counter is from the marker

ASSUME AttemptAssumption ==
  /\ {ConnectTimeout, Stability, StallTimeout, ReportEvery, MaxStep} \subseteq Nat
  /\ SinkFactory \in {"rtmpsink", "rtmp2sink"}

VARIABLES
  pipe,        \* none, built, playing, null
  attached,    \* _track_attached
  blocked,     \* tracks whose queue is blocked
  muxed,       \* tracks that have sent data into the FLV muxer
  looping,     \* the main loop runs
  age,         \* since _attempt_started, until it is connected
  readyFor,    \* since _first_rendered_at, or None
  stallFor,    \* since _last_rendered_at
  reportFor,   \* since _last_progress_at
  marker,      \* _last_progress_marker: whether its counters are above zero
  polling,     \* the poll timer exists, once the loop runs
  connected,   \* connected_once
  outcome,     \* reason_code of result
  proven,      \* history: how long every poll has found the sink ready
  lead,        \* history: how far the highest counters seen are above the marker
  fresh        \* history: the last poll saw a counter higher than ever before

attemptVars == <<pipe, attached, blocked, muxed, looping, age, readyFor, stallFor, reportFor, marker,
                 polling, connected, outcome, proven, lead, fresh>>

Tracks == {"video", "audio"}
None == -1
Counters == 1 .. 2

(* classify_error by the source of the message: what the code can tell from it. *)
UpstreamErrors == {"UPSTREAM_UNAVAILABLE"}
SinkErrors == {"AUTH_FAILED", "PUBLISH_CONFLICT", "TLS_FAILED", "DNS_FAILED", "TIMEOUT", "UNREACHABLE",
               "EGRESS_PIPELINE_FAILED"}
TerminalReasonCodes == {"AUTH_FAILED", "PUBLISH_CONFLICT", "PUBLISH_REJECTED", "LOCAL_PIPELINE_FAILED"}

AttemptInit ==
  /\ pipe = "none" /\ attached = {} /\ blocked = {} /\ muxed = {} /\ looping = FALSE
  /\ age = 0 /\ readyFor = None /\ stallFor = 0 /\ reportFor = 0
  /\ marker = [i \in Counters |-> FALSE] /\ polling = TRUE /\ connected = FALSE /\ outcome = "none"
  /\ proven = None /\ lead = [i \in Counters |-> 0] /\ fresh = FALSE

timers == <<age, readyFor, stallFor, reportFor, marker, polling, connected, proven, lead, fresh>>

-----------------------------------------------------------------------------
(* run: _build with _prepare_track for both tracks, the poll and PLAYING. *)

Build ==
  /\ pipe = "none"
  /\ \/ pipe' = "playing" /\ blocked' = Tracks /\ UNCHANGED outcome
     \/ pipe' = "null" /\ outcome' = "LOCAL_PIPELINE_FAILED" /\ UNCHANGED blocked
     \/ pipe' = "null" /\ outcome' = "EGRESS_PIPELINE_FAILED" /\ UNCHANGED blocked
  /\ UNCHANGED <<attached, muxed, looping, timers>>

(* loop.run begins anew: a quit before it is lost. *)
LoopRun ==
  /\ pipe = "playing" /\ ~looping
  /\ age = 0
  /\ looping' = TRUE
  /\ UNCHANGED <<pipe, attached, blocked, muxed, outcome, timers>>

Quit(reason) ==
  /\ outcome' = reason
  /\ looping' = FALSE
  /\ pipe' = IF looping THEN "null" ELSE pipe

(* A bug: the first track opens the way. *)
AttachTrackAny(kind) == IF attached \cup {kind} # {} THEN {} ELSE blocked

(* _attach_track clears the blocks when both tracks are there. *)
AttachTrack(kind) == IF attached \cup {kind} = Tracks THEN {} ELSE blocked

OnSourcePad(kind) ==
  /\ pipe = "playing" /\ kind \notin attached
  /\ attached' = attached \cup {kind}
  /\ blocked' = AttachTrack(kind)
  /\ UNCHANGED <<pipe, muxed, looping, outcome, timers>>

OnSourcePadFails(kind) ==
  /\ pipe = "playing" /\ kind \notin attached
  /\ Quit("LOCAL_PIPELINE_FAILED")
  /\ UNCHANGED <<attached, blocked, muxed, timers>>

(* Data of a track that is linked and not blocked reaches the muxer. *)
Flow(kind) ==
  /\ pipe = "playing" /\ kind \in attached \ blocked /\ kind \notin muxed
  /\ muxed' = muxed \cup {kind}
  /\ UNCHANGED <<pipe, attached, blocked, looping, outcome, timers>>

-----------------------------------------------------------------------------
(* sink_progress *)

(* A counter as a poll finds it: below the marker it may be anything that is left. *)
Reading(above) ==
  {r \in [step : -MaxStep .. MaxStep, some : BOOLEAN] : r.step >= 0 => r.some = (above \/ r.step > 0)}

(* rtmp2sink: bytes out and acked, and buffers at its pad; rtmpsink: rendered buffers.
   Without stats the counters are zero. *)
SinkProgress ==
  LET Pairs == {<<out, acked>> : out \in {r \in Reading(marker[1]) : marker[1] \/ r.step >= 0},
                                 acked \in {r \in Reading(marker[2]) : marker[2] \/ r.step >= 0}} IN
  IF SinkFactory = "rtmp2sink"
    THEN {[ready |-> muxed # {} /\ m[1].some, marker |-> m] : m \in Pairs}
    ELSE {[ready |-> m[1].some, marker |-> m] : m \in {m \in Pairs : m[2].step = 0}}

(* A bug: any change counts. *)
ProgressMarkerAdvancedAny(cur) == \E i \in Counters : cur[i].step # 0

ProgressMarkerAdvanced(cur) ==
  (\A i \in Counters : cur[i].step >= 0) /\ (\E i \in Counters : cur[i].step > 0)

Older(n, d, cap) == IF n = None THEN None ELSE Min({n + d, cap})

(* A bug: one poll without progress does not end the window. *)
SinceReadyKept(ready, d) ==
  IF readyFor # None THEN Older(readyFor, d, Stability) ELSE IF ready THEN 0 ELSE None

SinceReady(ready, d) ==
  IF ~ready THEN None ELSE IF readyFor = None THEN 0 ELSE Older(readyFor, d, Stability)

(* _poll_sink, d ticks after the last.  A callback that raises ends the timer, and neither the
   counters nor the stop event are looked at any more. *)
Poll(p, d) ==
  LET newAge == IF connected THEN age ELSE Older(age, d, ConnectTimeout)
      advanced == ProgressMarkerAdvanced(p.marker)
      since == SinceReady(p.ready, d)
      promote == ~connected /\ p.ready /\ since # None /\ since >= Stability
      stalled == IF advanced THEN 0 ELSE Older(stallFor, d, StallTimeout)
      due == connected /\ advanced /\ ReportEvery > 0 /\ Older(reportFor, d, ReportEvery) >= ReportEvery
      high == [i \in Counters |-> Max({lead[i], p.marker[i].step})]
  IN
  /\ looping /\ polling
  /\ age' = newAge
  /\ IF ~connected /\ ConnectTimeout > 0 /\ newAge >= ConnectTimeout
       THEN Quit("TIMEOUT")
            /\ UNCHANGED <<readyFor, stallFor, reportFor, marker, polling, connected, proven, lead, fresh>>
       ELSE /\ marker' = IF advanced THEN [i \in Counters |-> p.marker[i].some] ELSE marker
            /\ lead' = IF advanced THEN [i \in Counters |-> Min({high[i] - p.marker[i].step, MaxStep})] ELSE high
            /\ fresh' = (high # lead)
            /\ stallFor' = stalled
            /\ readyFor' = IF connected THEN readyFor ELSE since
            /\ proven' = IF connected THEN proven
                         ELSE IF ~p.ready THEN None ELSE IF proven = None THEN 0 ELSE Older(proven, d, Stability)
            /\ connected' = (connected \/ promote)
            /\ reportFor' = IF promote \/ due THEN 0 ELSE Older(reportFor, d, ReportEvery)
            /\ polling' \in (IF promote \/ due THEN BOOLEAN ELSE {TRUE})
            /\ IF connected' /\ polling' /\ StallTimeout > 0 /\ stalled >= StallTimeout
                 THEN Quit("TIMEOUT")
                 ELSE UNCHANGED <<pipe, looping, outcome>>
  /\ UNCHANGED <<attached, blocked, muxed>>

PollStopped ==
  /\ looping /\ polling
  /\ Quit("STOPPED")
  /\ UNCHANGED <<attached, blocked, muxed, timers>>

(* classify_error: a WRITE error of the sink before the first connection is a rejection. *)
ClassifyError == UpstreamErrors \cup SinkErrors \cup (IF connected THEN {} ELSE {"PUBLISH_REJECTED"})

OnBusMessage(reason) ==
  /\ looping
  /\ Quit(reason)
  /\ UNCHANGED <<attached, blocked, muxed, timers>>

AttemptNext ==
  \/ Build \/ LoopRun
  \/ \E kind \in Tracks : OnSourcePad(kind) \/ OnSourcePadFails(kind) \/ Flow(kind)
  \/ \E p \in SinkProgress, d \in 1 .. 2 : Poll(p, d)
  \/ PollStopped
  \/ \E reason \in ClassifyError \cup {"UPSTREAM_EOS"} : OnBusMessage(reason)

AttemptSpec == AttemptInit /\ [][AttemptNext]_attemptVars

(* The build returns, the loop is entered and the timer fires. *)
AttemptProgress == Build \/ LoopRun \/ \E p \in SinkProgress, d \in 1 .. 2 : Poll(p, d)

-----------------------------------------------------------------------------
(* While the attempt runs, nothing reaches the muxer before both tracks are attached:
   the destination never gets a stream header with audio or video alone. *)
HeaderHasBothTracks == pipe = "playing" /\ muxed # {} => attached = Tracks

(* The gateway is told CONNECTED only after the sink was ready at every poll of a
   stability window, however the counters came and went. *)
ConnectedIsProven == connected => proven # None /\ proven >= Stability

(* A healthy stream goes on; an attempt that brings nothing new ends.  It connects within its
   connect timeout, and from then on each poll that saw a counter higher than ever before is
   followed by another such poll or by the end: counters that move back and forth do not keep it
   alive.  Only an attempt whose timer a raising callback has ended is not watched. *)
AttemptEnds ==
  /\ ConnectTimeout > 0 => (pipe = "playing" ~> (connected \/ pipe = "null"))
  /\ StallTimeout > 0 => (connected ~> (fresh \/ pipe = "null" \/ ~polling))

(* What one publishing attempt promises (egress.py, GStreamer process): a whole stream
   header and a CONNECTED that was observed. *)
AttemptPromise == HeaderHasBothTracks /\ ConnectedIsProven
=============================================================================
