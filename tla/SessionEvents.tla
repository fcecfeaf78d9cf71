------------------------------- MODULE SessionEvents -------------------------------
(***************************************************************************)
(* The event log of one Session with its writers and a reader.              *)
(*                                                                         *)
(* Operators send audio commands, users add events, heartbeats report the   *)
(* egress and the relay client, and a client pages through the log with a   *)
(* cursor.  Each store method is one transaction; a heartbeat is several,    *)
(* with the Node's own record written last: it may die in between, and it   *)
(* goes on after a transaction that the Session's store refused.            *)
(* Requests may be repeated at any later time.                              *)
(***************************************************************************)
EXTENDS Naturals, Sequences, SequencesExt, FiniteSets

CONSTANTS
  Keys,       \* idempotency keys
  Retention,  \* SESSION_EVENT_LIMIT
  PageLimits, \* limits that readers ask for
  MaxSeq      \* bound on sequence numbers

ASSUME EventsAssumption == Retention \in Nat \ {0} /\ MaxSeq \in Nat /\ PageLimits \subseteq Nat \ {0}

VARIABLES
  phase,      \* the status, as far as the writers tell: active, stopping, over
  log,        \* events: sequence numbers
  nextSeq,    \* next_event_seq; 0 in records of releases without it
  told,       \* what the events say to one who reads them all
  shown,      \* egress_connected and relay_client_connected of the Session
  audio,      \* media_control.audio
  accepted,   \* history: audio commands that took effect
  node,       \* egress and relay_client of the Node's record, and ever connected
  hb,         \* the heartbeat in progress
  torn,       \* history: kinds whose last report died or failed half way
  cursor      \* next_after_sequence of a client that reads on

eventVars == <<phase, log, nextSeq, told, shown, audio, accepted, node, hb, torn, cursor>>

Modes == {"LIVE", "MUTED"}
EgressStatuses == {"UNKNOWN", "STARTING", "CONNECTED", "RECONNECTING", "AUTH_FAILED", "FAILED", "STOPPED"}

(* What read_egress_status delivers: connected only with CONNECTED. *)
EgressObservations == {[status |-> s, connected |-> FALSE] : s \in EgressStatuses}
                        \cup {[status |-> "CONNECTED", connected |-> TRUE]}
Idle == [step |-> "idle"]

DefaultMediaControl == [desired |-> "LIVE", actual |-> "LIVE", version |-> 0, key |-> "none"]

EventsInit ==
  /\ phase = "active"
  /\ \/ log = <<>> /\ nextSeq = 1
     \/ log = <<1>> /\ nextSeq \in {0, 2}
  /\ told = [egress |-> FALSE, relay |-> FALSE] /\ shown = told
  /\ audio = DefaultMediaControl /\ accepted = {}
  /\ node = [egress |-> [status |-> "UNKNOWN", connected |-> FALSE], egressEver |-> FALSE,
             relay |-> FALSE, relayEver |-> FALSE]
  /\ hb = Idle /\ torn = {} /\ cursor = 0

-----------------------------------------------------------------------------
(* The log *)

NextEventSequence ==
  IF nextSeq > 0 THEN nextSeq ELSE IF log = <<>> THEN 1 ELSE Last(log) + 1

(* A bug: a full log is emptied. *)
RetainedNone(s) == IF Len(s) > Retention THEN <<Last(s)>> ELSE s

Retained(s) == IF Len(s) > Retention THEN SubSeq(s, Len(s) - Retention + 1, Len(s)) ELSE s

Heard(t, type) ==
  CASE type \in {"egress.connected", "egress.recovered"} -> [t EXCEPT !.egress = TRUE]
    [] type \in {"egress.starting", "egress.disconnected", "egress.reconnecting",
                 "egress.auth_failed", "egress.failed", "egress.stopped"} -> [t EXCEPT !.egress = FALSE]
    [] type \in {"relay.client.connected", "relay.client.reconnected"} -> [t EXCEPT !.relay = TRUE]
    [] type = "relay.client.disconnected" -> [t EXCEPT !.relay = FALSE]
    [] OTHER -> t

AppendEvent(type) ==
  /\ NextEventSequence <= MaxSeq
  /\ log' = Retained(Append(log, NextEventSequence))
  /\ nextSeq' = NextEventSequence + 1
  /\ told' = Heard(told, type)

(* validate_user_event_type; a bug would let the reserved ones pass. *)
UserTypeAny(type) == TRUE

UserTypeAllowed(type) == type \notin {"egress.connected", "relay.client.disconnected"}

AddSessionEvent(type) ==
  /\ UserTypeAllowed(type)
  /\ AppendEvent(type)
  /\ UNCHANGED <<phase, shown, audio, accepted, node, hb, torn, cursor>>

SessionMoves ==
  /\ \/ phase = "active" /\ phase' = "stopping"
     \/ phase = "stopping" /\ phase' = "over"
  /\ UNCHANGED <<log, nextSeq, told, shown, audio, accepted, node, hb, torn, cursor>>

-----------------------------------------------------------------------------
(* set_audio_desired *)

Command == [key : Keys, mode : Modes, expected : 0 .. MaxSeq]

Replayed(c) == audio.key = c.key /\ audio.desired = c.mode

(* A bug: the version is compared only when the mode changes. *)
VersionMatchesLoose(c) == c.expected = audio.version \/ c.mode = audio.desired

VersionMatches(c) == c.expected = audio.version

SetAudioDesired(c) ==
  /\ phase # "over"
  /\ audio.key # c.key
  /\ VersionMatches(c)
  /\ audio' = [desired |-> c.mode, version |-> audio.version + 1, key |-> c.key,
               actual |-> IF audio.actual # c.mode THEN "APPLYING" ELSE audio.actual]
  /\ accepted' = accepted \cup {c}
  /\ AppendEvent("media_control.audio.requested")
  /\ UNCHANGED <<phase, shown, node, hb, torn, cursor>>

-----------------------------------------------------------------------------
(* A heartbeat, under node_state_lock *)

(* A bug: a status without an event of its own ends nothing. *)
EgressEventTypesMapped(prev, cur, ever) ==
  CASE cur = prev -> <<>>
    [] cur.connected -> <<IF ever THEN "egress.recovered" ELSE "egress.connected">>
    [] cur.status \in {"RECONNECTING", "FAILED", "STOPPED"} -> <<"egress.failed">>
    [] OTHER -> <<>>

EgressEventTypes(prev, cur, ever) ==
  LET mapping == [RECONNECTING |-> <<"egress.reconnecting">>, AUTH_FAILED |-> <<"egress.auth_failed">>,
                  FAILED |-> <<"egress.failed">>, STOPPED |-> <<"egress.stopped">>] IN
  CASE cur = prev -> <<>>
    [] cur # prev /\ cur.status = "STARTING" -> <<"egress.starting">>
    [] cur # prev /\ cur.connected /\ cur.status = "CONNECTED" ->
         <<IF ever THEN "egress.recovered" ELSE "egress.connected">>
    [] OTHER ->
         (IF prev.connected /\ cur.status # "STOPPED" THEN <<"egress.disconnected">> ELSE <<>>)
           \o (IF cur.status \in DOMAIN mapping THEN mapping[cur.status] ELSE <<>>)

RelayEventTypes(prev, cur, ever) ==
  CASE cur /\ ~prev -> <<IF ever THEN "relay.client.reconnected" ELSE "relay.client.connected">>
    [] ~cur /\ prev -> <<"relay.client.disconnected">>
    [] OTHER -> <<>>

(* The Node's record changes in memory; with no egress event the Session is not called. *)
ReceiveHeartbeat(egress, relay) ==
  LET types == EgressEventTypes(node.egress, egress, node.egressEver) IN
  /\ hb = Idle
  /\ hb' = [step |-> IF types = <<>> THEN "relay" ELSE "egress",
            egress |-> egress, relay |-> relay, todo |-> types, sent |-> {}, failed |-> {}]
  /\ UNCHANGED <<phase, log, nextSeq, told, shown, audio, accepted, node, torn, cursor>>

(* _apply_egress_to_session reads the status before its appends. *)
EgressCheck ==
  /\ hb.step = "egress"
  /\ hb' = [hb EXCEPT !.step = IF phase = "active" THEN "append" ELSE "relay"]
  /\ UNCHANGED <<phase, log, nextSeq, told, shown, audio, accepted, node, torn, cursor>>

EgressAppend ==
  /\ hb.step = "append"
  /\ AppendEvent(Head(hb.todo))
  /\ hb' = [hb EXCEPT !.todo = Tail(@), !.sent = {"egress"},
                      !.step = IF Len(hb.todo) = 1 THEN "update" ELSE "append"]
  /\ UNCHANGED <<phase, shown, audio, accepted, node, torn, cursor>>

EgressUpdate ==
  /\ hb.step = "update"
  /\ shown' = [shown EXCEPT !.egress = hb.egress.connected]
  /\ hb' = [hb EXCEPT !.step = "relay"]
  /\ UNCHANGED <<phase, log, nextSeq, told, audio, accepted, node, torn, cursor>>

(* The store raises: the error is noted in the Node's record, and the heartbeat goes on
   with what it has.  A call that raises after its write is one of the steps above, and
   then this one. *)
EgressFails ==
  /\ hb.step \in {"egress", "append", "update"}
  /\ hb' = [hb EXCEPT !.step = "relay", !.failed = {"egress"}]
  /\ UNCHANGED <<phase, log, nextSeq, told, shown, audio, accepted, node, torn, cursor>>

(* apply_relay_client_observation, one transaction; it may raise, before or after its
   write, and is passed over then. *)
RelayApply ==
  LET types == RelayEventTypes(node.relay, hb.relay, node.relayEver) IN
  /\ hb.step = "relay"
  /\ \/ /\ types # <<>> /\ phase = "active"
        /\ AppendEvent(Head(types))
        /\ shown' = [shown EXCEPT !.relay = hb.relay]
        /\ \E failed \in {{}, {"relay"}} :
             hb' = [hb EXCEPT !.step = "commit", !.sent = @ \cup {"relay"}, !.failed = @ \cup failed]
     \/ /\ types = <<>> \/ phase # "active"
        /\ hb' = [hb EXCEPT !.step = "commit"]
        /\ UNCHANGED <<log, nextSeq, told, shown>>
     \/ /\ types # <<>>
        /\ hb' = [hb EXCEPT !.step = "commit", !.failed = @ \cup {"relay"}]
        /\ UNCHANGED <<log, nextSeq, told, shown>>
  /\ UNCHANGED <<phase, audio, accepted, node, torn, cursor>>

HeartbeatCommit ==
  /\ hb.step = "commit"
  /\ node' = [egress |-> hb.egress, egressEver |-> node.egressEver \/ hb.egress.connected,
              relay |-> hb.relay, relayEver |-> node.relayEver \/ hb.relay]
  /\ torn' = (torn \ hb.sent) \cup hb.failed
  /\ hb' = Idle
  /\ UNCHANGED <<phase, log, nextSeq, told, shown, audio, accepted, cursor>>

HeartbeatDies ==
  /\ hb # Idle
  /\ torn' = torn \cup hb.sent
  /\ hb' = Idle
  /\ UNCHANGED <<phase, log, nextSeq, told, shown, audio, accepted, node, cursor>>

-----------------------------------------------------------------------------
(* _event_page with after_sequence = c *)

Remaining(c) ==
  LET kept == {i \in DOMAIN log : log[i] > c}
      At(n) == CHOOSE i \in kept : Cardinality({j \in kept : j <= i}) = n
  IN [n \in 1 .. Cardinality(kept) |-> log[At(n)]]

(* Two bugs: a loss is reported one too late; a page begins at its end. *)
RetentionGapLate(c) == log # <<>> /\ c + 1 < log[1] - 1

RetentionGap(c) == log # <<>> /\ c < log[1] - 1

PageOf(c, limit) ==
  LET r == Remaining(c) IN IF Len(r) <= limit THEN r ELSE SubSeq(r, 1, limit)

HasMore(c, limit) == Len(Remaining(c)) > Len(PageOf(c, limit))

ListSessionEvents(limit) ==
  /\ PageOf(cursor, limit) # <<>>
  /\ cursor' = Last(PageOf(cursor, limit))
  /\ UNCHANGED <<phase, log, nextSeq, told, shown, audio, accepted, node, hb, torn>>

-----------------------------------------------------------------------------
UserTypes == {"custom", "egress.connected", "relay.client.disconnected"}

Common == SessionMoves \/ \E type \in UserTypes : AddSessionEvent(type)

OperatorNext ==
  \/ Common
  \/ \E c \in Command : SetAudioDesired(c)
  \/ \E limit \in PageLimits : ListSessionEvents(limit)

HeartbeatNext ==
  \/ Common
  \/ \E egress \in EgressObservations, relay \in BOOLEAN : ReceiveHeartbeat(egress, relay)
  \/ EgressCheck \/ EgressAppend \/ EgressUpdate \/ EgressFails \/ RelayApply \/ HeartbeatCommit \/ HeartbeatDies

EventsNext == OperatorNext \/ HeartbeatNext

EventsSpec == EventsInit /\ [][EventsNext]_eventVars

-----------------------------------------------------------------------------
(* The log holds the latest events without a hole, whoever writes: sequence numbers are
   given once and the newest Retention of them are kept. *)
LogIsRecent ==
  /\ nextSeq = 0 => log # <<>>
  /\ Len(log) <= Retention
  /\ \A i \in 1 .. Len(log) : log[i] = NextEventSequence - Len(log) + i - 1
  /\ Len(log) < Retention => NextEventSequence = Len(log) + 1

(* An event after the cursor c was dropped before c was moved over it. *)
Lost(c) == c + 1 < NextEventSequence /\ c + 1 \notin ToSet(log)

(* Whatever cursor a client has kept, retention_gap is reported exactly when the event
   after it is gone. *)
GapIsTold == \A c \in 0 .. MaxSeq : RetentionGap(c) <=> Lost(c)

(* A client that follows the cursor is told of a gap exactly when the event after its
   cursor is gone, the page starts right after the cursor otherwise, and without
   has_more it has reached the newest event. *)
PagesTellLoss ==
  /\ GapIsTold
  /\ \A limit \in PageLimits :
       LET page == PageOf(cursor, limit) IN
       /\ page # <<>> /\ ~Lost(cursor) => page[1] = cursor + 1
       /\ ~HasMore(cursor, limit) /\ log # <<>> => Last(log) \in ToSet(page) \cup {cursor}

(* A retry of an audio command, however late, never takes effect a second time: an
   operator's newer command is not undone. *)
CommandActsOnce ==
  [][\A c \in Command : SetAudioDesired(c) => c \notin accepted]_eventVars

(* While the Session is active, the log and the Session say of egress and of relay what
   the Node's record says, except from a heartbeat that died after part of its events, or
   whose call the store refused (the Node's record then has the error), to the next change
   that is reported; a user cannot make them say anything else. *)
ToldIsTrue ==
  hb = Idle /\ phase = "active" =>
    /\ "egress" \in torn \/ {told.egress, shown.egress} = {node.egress.connected}
    /\ "relay" \in torn \/ {told.relay, shown.relay} = {node.relay}

(* What the event log and the audio command promise (session_store.py): a reader of pages
   misses nothing unknowingly, log, Session and Node agree, and a retried audio command
   takes effect once. *)
EventLogPromise == []LogIsRecent /\ []PagesTellLoss /\ []ToldIsTrue /\ CommandActsOnce
=============================================================================
