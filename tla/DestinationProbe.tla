------------------------------ MODULE DestinationProbe ------------------------------
(***************************************************************************)
(* destination_probe.py: one probe of a destination host.  The name is      *)
(* resolved by a child process, the addresses are tried in turn, and an SRT *)
(* address is tried by a verifier child whose standard error a reader       *)
(* thread watches.  One handshake budget and one cleanup budget cover all   *)
(* addresses.  Time passes only while the probe waits, and never beyond the *)
(* end of the wait: timeouts are delivered promptly.                        *)
(***************************************************************************)
EXTENDS Integers, Sequences

CONSTANTS ProbeTimeout, CleanupTime, TermGrace, ResolverCleanup

ASSUME ProbeAssumption ==
  /\ ProbeTimeout \in Nat \ {0} /\ CleanupTime \in Nat /\ TermGrace \in Nat /\ ResolverCleanup \in Nat

VARIABLES probe,      \* the calling thread: phase, protocol, addresses left, verdict
          elapsed,    \* monotonic time since the probe began
          until,      \* when the current wait ends
          resolver,   \* the resolver child: "none", "runs", "gone"
          running,    \* verifier children alive
          child,      \* what the latest one does on signals, and whether a helper keeps its pipe
          reader,     \* the stderr thread: "none", "reads", "ended"
          event,      \* the one-slot queue
          stopReader  \* the stop event

probeVars == <<probe, elapsed, until, resolver, running, child, reader, event, stopReader>>

HandshakeDeadline == ProbeTimeout
CleanupDeadline == ProbeTimeout + CleanupTime

NoChild == [term |-> FALSE, kill |-> FALSE, helper |-> FALSE]

ProbeInit ==
  /\ \E k \in {"rtmp", "srt"} : probe = [phase |-> "begin", kind |-> k, left |-> <<>>, peer |-> "none",
                                         verdict |-> "none", connectedAt |-> 0, dirty |-> FALSE]
  /\ elapsed = 0 /\ until = 0
  /\ resolver = "none" /\ running = 0 /\ child = NoChild
  /\ reader = "none" /\ event = "none" /\ stopReader = FALSE

Goes(phase) == probe' = [probe EXCEPT !.phase = phase]

(* An exception of the body: the cleanup runs first when a child exists. *)
Raises == [probe EXCEPT !.phase = "error"]

ProbeTick ==
  /\ probe.phase \in {"resolve", "dnsreap", "spawn", "wait", "term", "reap", "join", "rtmp"}
  /\ elapsed < until
  /\ elapsed' = elapsed + 1
  /\ UNCHANGED <<probe, until, resolver, running, child, reader, event, stopReader>>
-----------------------------------------------------------------------------
(* _resolve: the child answers, or the budget ends; on every path it is reaped. *)
StartResolver ==
  /\ probe.phase = "begin"
  /\ Goes("resolve") /\ resolver' = "runs" /\ until' = HandshakeDeadline
  /\ UNCHANGED <<elapsed, running, child, reader, event, stopReader>>

Answers == UNION { [1..n -> {"public", "private"}] : n \in 1..2 }

(* Every answer must be allowed, or none is used. *)
Allowed(addresses) == \A i \in DOMAIN addresses : addresses[i] = "public"

Resolved(addresses) ==
  /\ probe.phase = "resolve"
  /\ resolver' = "gone"
  /\ probe' = IF Allowed(addresses) THEN [probe EXCEPT !.phase = "next", !.left = addresses] ELSE Raises
  /\ UNCHANGED <<elapsed, until, running, child, reader, event, stopReader>>

(* A timeout, or an error of the pipe: kill, and wait a bounded time for the reaping. *)
ResolverFails ==
  /\ probe.phase = "resolve"
  /\ Goes("dnsreap") /\ until' = elapsed + ResolverCleanup
  /\ UNCHANGED <<elapsed, resolver, running, child, reader, event, stopReader>>

ResolverReaped ==
  /\ probe.phase = "dnsreap"
  /\ resolver' = "gone" /\ probe' = Raises
  /\ UNCHANGED <<elapsed, until, running, child, reader, event, stopReader>>

ResolverStuck ==
  /\ probe.phase = "dnsreap" /\ elapsed = until
  /\ probe' = Raises
  /\ UNCHANGED <<elapsed, until, resolver, running, child, reader, event, stopReader>>
-----------------------------------------------------------------------------
(* The next address, if there is one and the handshake budget is not spent. *)
BudgetLeft == elapsed < HandshakeDeadline

TryNext ==
  /\ probe.phase = "next"
  /\ probe' = IF probe.left = <<>> \/ ~BudgetLeft THEN Raises
              ELSE [probe EXCEPT !.phase = IF probe.kind = "srt" THEN "spawn" ELSE "rtmp",
                                 !.peer = Head(probe.left), !.left = Tail(@), !.verdict = "none"]
  /\ until' = HandshakeDeadline
  /\ event' = "none" /\ stopReader' = FALSE
  /\ UNCHANGED <<elapsed, resolver, running, child, reader>>

(* _probe_rtmp: the handshake is done in time, or this address failed; the socket is closed. *)
InTimeAny(at) == TRUE
InTime(at) == at < HandshakeDeadline

RtmpConnected ==
  /\ probe.phase = "rtmp"
  /\ probe' = IF InTime(elapsed) THEN [probe EXCEPT !.phase = "ok", !.connectedAt = elapsed] ELSE Raises
  /\ UNCHANGED <<elapsed, until, resolver, running, child, reader, event, stopReader>>

RtmpFails ==
  /\ probe.phase = "rtmp"
  /\ probe' = IF BudgetLeft THEN [probe EXCEPT !.phase = "next"] ELSE Raises
  /\ UNCHANGED <<elapsed, until, resolver, running, child, reader, event, stopReader>>
-----------------------------------------------------------------------------
(* The verifier starts, with its reader; it may ignore signals and leave a helper behind. *)
Popen(c) ==
  /\ probe.phase = "spawn"
  /\ running' = running + 1 /\ child' = c
  /\ reader' = "reads"
  /\ Goes("wait")
  /\ UNCHANGED <<elapsed, until, resolver, event, stopReader>>

PopenFails ==
  /\ probe.phase = "spawn"
  /\ probe' = Raises
  /\ UNCHANGED <<elapsed, until, resolver, running, child, reader, event, stopReader>>

(* The child ends by itself. *)
ChildExits ==
  /\ running > 0 /\ probe.phase \in {"wait", "term", "reap", "join"}
  /\ running' = running - 1
  /\ UNCHANGED <<probe, elapsed, until, resolver, child, reader, event, stopReader>>

(* The reader: a stop request first; then data, left in the pipe perhaps by a child that
   is gone, or the end of the pipe, which a child may close and run on, but not while a
   helper holds it. *)
ReaderStops ==
  /\ reader = "reads" /\ stopReader
  /\ reader' = "ended"
  /\ UNCHANGED <<probe, elapsed, until, resolver, running, child, event, stopReader>>

ReaderEmits(e) ==
  /\ reader = "reads" /\ ~stopReader
  /\ e = "eof" => ~child.helper
  /\ reader' = "ended"
  /\ event' = IF event = "none" THEN e ELSE event
  /\ UNCHANGED <<probe, elapsed, until, resolver, running, child, stopReader>>

(* events.get: what the event means for this address. *)
Judged(e) ==
  CASE e = "connected" /\ InTime(elapsed) -> "connected"
    [] e = "eof"                          -> "next"
    [] OTHER                              -> "error"

EventArrives ==
  /\ probe.phase = "wait" /\ event # "none"
  /\ probe' = [probe EXCEPT !.phase = "cleanup", !.verdict = Judged(event), !.connectedAt = elapsed]
  /\ UNCHANGED <<elapsed, until, resolver, running, child, reader, event, stopReader>>

EventTimeout ==
  /\ probe.phase = "wait" /\ elapsed = until /\ event = "none"
  /\ probe' = [probe EXCEPT !.phase = "cleanup", !.verdict = "error"]
  /\ UNCHANGED <<elapsed, until, resolver, running, child, reader, event, stopReader>>
-----------------------------------------------------------------------------
(* _cleanup_srt_process: stop the reader, terminate, wait, kill, wait, join; one deadline. *)
Least(a, b) == IF a < b THEN a ELSE b

ReapUntilFresh == elapsed + CleanupTime
ReapUntil == CleanupDeadline

CleanupStarts ==
  /\ probe.phase = "cleanup"
  /\ stopReader' = TRUE
  /\ probe' = [probe EXCEPT !.phase = IF running > 0 THEN "term" ELSE "join", !.dirty = FALSE]
  /\ until' = IF running > 0 THEN Least(ReapUntil, elapsed + TermGrace) ELSE ReapUntil
  /\ UNCHANGED <<elapsed, resolver, running, child, reader, event>>

(* The child obeys the signal it was sent. *)
ChildObeys ==
  /\ running > 0
  /\ \/ probe.phase = "term" /\ child.term
     \/ probe.phase = "reap" /\ child.kill
  /\ running' = running - 1
  /\ UNCHANGED <<probe, elapsed, until, resolver, child, reader, event, stopReader>>

TermEnds ==
  /\ probe.phase = "term" /\ (running = 0 \/ elapsed = until)
  /\ Goes(IF running > 0 THEN "reap" ELSE "join")
  /\ until' = ReapUntil
  /\ UNCHANGED <<elapsed, resolver, running, child, reader, event, stopReader>>

ReapEnds ==
  /\ probe.phase = "reap" /\ (running = 0 \/ elapsed >= until)
  /\ probe' = [probe EXCEPT !.phase = "join", !.dirty = running > 0]
  /\ until' = ReapUntil
  /\ UNCHANGED <<elapsed, resolver, running, child, reader, event, stopReader>>

(* cleanup_failed: the child or the reader is still there. *)
CleanupFailedNever == FALSE
CleanupFailed == probe.dirty \/ reader = "reads" \/ running > 0

JoinEnds ==
  /\ probe.phase = "join" /\ (reader # "reads" \/ elapsed >= until)
  /\ probe' = IF CleanupFailed \/ probe.verdict = "error" THEN Raises
              ELSE [probe EXCEPT !.phase = IF probe.verdict = "connected" THEN "ok" ELSE "next"]
  /\ UNCHANGED <<elapsed, until, resolver, running, child, reader, event, stopReader>>

ProbeNext ==
  \/ ProbeTick \/ StartResolver \/ (\E a \in Answers : Resolved(a)) \/ ResolverFails \/ ResolverReaped \/ ResolverStuck
  \/ TryNext \/ RtmpConnected \/ RtmpFails
  \/ (\E t, k, h \in BOOLEAN : Popen([term |-> t, kill |-> k, helper |-> h])) \/ PopenFails
  \/ ChildExits \/ ReaderStops \/ (\E e \in {"connected", "overflow", "eof", "error"} : ReaderEmits(e))
  \/ EventArrives \/ EventTimeout \/ CleanupStarts \/ ChildObeys \/ TermEnds \/ ReapEnds \/ JoinEnds

ProbeSpec == ProbeInit /\ [][ProbeNext]_probeVars
-----------------------------------------------------------------------------
(***************************************************************************)
(* No verifier outlives its address: a new address is tried, and success is *)
(* reported, only when the earlier child is reaped and its reader ended,    *)
(* even when children ignore signals or helpers keep the pipe open.         *)
(***************************************************************************)
VerifierIsReaped ==
  /\ running <= 1
  /\ probe.phase \in {"next", "spawn", "ok"} => running = 0 /\ reader # "reads"

(***************************************************************************)
(* A passed probe completed the handshake within its budget with an address *)
(* from an answer in which every address was allowed.                       *)
(***************************************************************************)
PassedInTime == probe.phase = "ok" => probe.connectedAt < HandshakeDeadline /\ probe.peer = "public"

(***************************************************************************)
(* The probe ends within the handshake budget and one cleanup budget,       *)
(* however many addresses and signals it goes through: no step of the       *)
(* cleanup gets a budget of its own.                                        *)
(***************************************************************************)
EndsInBudget ==
  probe.phase \notin {"resolve", "dnsreap", "error"} => elapsed <= CleanupDeadline /\ until <= CleanupDeadline

(***************************************************************************)
(* What a probe promises its caller (destination_probe.py): nothing is left *)
(* running, a pass was earned, and the answer comes in time.                *)
(***************************************************************************)
ProbePromise == VerifierIsReaped /\ PassedInTime /\ EndsInBudget
=============================================================================
