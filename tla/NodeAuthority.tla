------------------------------ MODULE NodeAuthority ------------------------------
(***************************************************************************)
(* Node bootstrap, heartbeats and the reaper's look at missing heartbeats. *)
(* Bootstrap writes three files in turn: sessions.json (bind_node), the    *)
(* token fuse bootstrap_tokens.json, and nodes.json, the authority for     *)
(* Nodes and consumed tokens.  A heartbeat writes sessions.json and then   *)
(* nodes.json.  Bootstraps, heartbeats and stops hold one lock, so one of  *)
(* them runs at a time; it may die between two writes.  Sessions end       *)
(* meanwhile, and the reaper works from a snapshot.                        *)
(*                                                                         *)
(* An attempt is what an agent keeps for one bootstrap: the token and its  *)
(* boot (boot id, request id and access token).  A boot runs on a server,  *)
(* and the server was created for a Session.  Node ids are numbers.  Times *)
(* are ages, counted in ticks up to the heartbeat grace.  The active       *)
(* statuses of a Session count as one.                                     *)
(***************************************************************************)
EXTENDS Naturals, FiniteSets

CONSTANTS
  Tokens,      \* NODE_BOOTSTRAP_TOKENS
  Boots,
  Sessions,
  SessionOf,   \* the Session whose server runs each boot
  Grace,       \* heartbeat grace, in ticks
  MaxCrashes,
  RequireAssignment  \* a server without an active Session is refused

ASSUME GraceAssumption == Grace \in Nat \ {0}
ASSUME SessionOfAssumption == SessionOf \in [Boots -> Sessions]
ASSUME AssignmentAssumption == RequireAssignment \in BOOLEAN
ASSUME SessionsAssumption == "none" \notin Sessions

VARIABLES
  sess,      \* the Session records
  nodes,     \* nodes.json: Node records by id
  nextSeq,   \* nodes.json: next_node_seq
  tokens,    \* nodes.json: the attempt that consumed each token
  fuse,      \* bootstrap_tokens.json: consumed tokens
  txn,       \* the request that holds the node lock
  answered,  \* the Node id each attempt was told
  running,   \* attempts whose agent runs
  look,      \* the Session the reaper is about to fail, and whether it is as the snapshot
  crashes

vars == <<sess, nodes, nextSeq, tokens, fuse, txn, answered, running, look, crashes>>

Attempts == [token: Tokens, boot: Boots]

NoNode == 0
NoBoot == "none"
NoSession == "none"
Never == Grace + 1      \* no heartbeat yet

Unused == [by |-> "nobody"]
Burned == [by |-> "fuse"]   \* no attempt can prove that it was its own

NoLook == [session |-> NoSession, current |-> FALSE]

NewSession == [active |-> TRUE, node |-> NoNode, boot |-> NoBoot, beat |-> Never, reg |-> 0]

Idle == [kind |-> "none"]

Init ==
  /\ sess = [s \in Sessions |-> NewSession]
  /\ nodes = << >>
  /\ nextSeq = 1
  /\ tokens = [t \in Tokens |-> Unused]
  /\ fuse = {}
  /\ txn = Idle
  /\ answered = [a \in Attempts |-> NoNode]
  /\ running = {}
  /\ look = NoLook
  /\ crashes = 0

-----------------------------------------------------------------------------
(* Bootstrap *)

(* _read_authority merges the fuse into what nodes.json says. *)
Consumed(t) == tokens[t] # Unused \/ t \in fuse

MergedTokens == [t \in Tokens |-> IF tokens[t] = Unused /\ t \in fuse THEN Burned ELSE tokens[t]]

(* A write of the Session changes a field that the reaper compares. *)
Outdate(s) == look' = IF look.session = s THEN [look EXCEPT !.current = FALSE] ELSE look

(* The agent has the answer and runs. *)
Tell(a, n) == answered' = [answered EXCEPT ![a] = n] /\ running' = running \cup {a}

(* The Node a consumed token was exchanged for. *)
NodeOf(t) == CHOOSE n \in DOMAIN nodes : nodes[n].attempt.token = t

(* A bug: the token alone is proof of the attempt. *)
SameToken(a) == tokens[a.token] \notin {Unused, Burned}

(* Request id, server, boot and access token are those of the token record. *)
SameAttempt(a) == tokens[a.token] = a

(* The same attempt again is told its Node; every other use of the token is
   refused. *)
BootstrapReplay(a) ==
  /\ txn = Idle
  /\ Consumed(a.token)
  /\ SameAttempt(a)
  /\ Tell(a, NodeOf(a.token))
  /\ UNCHANGED <<sess, nodes, nextSeq, tokens, fuse, txn, look, crashes>>

(* A bug: the heartbeat of the Node bound before is kept. *)
BoundRecordKeepsBeat(r, n, b) == [r EXCEPT !.node = n, !.boot = b, !.reg = 0]

BoundRecord(r, n, b) == [r EXCEPT !.node = n, !.boot = b, !.reg = 0, !.beat = Never]

(* _resolve_assigned_session: an active Session has the server. *)
Assigned(a) == sess[SessionOf[a.boot]].active

(* bind_node.  A server whose Session has ended is refused, unless assignment is
   not required. *)
BootstrapBind(a) ==
  LET s == SessionOf[a.boot] IN
  /\ txn = Idle
  /\ ~Consumed(a.token)
  /\ \/ /\ Assigned(a)
        /\ sess' = [sess EXCEPT ![s] = BoundRecord(@, nextSeq, a.boot)]
        /\ Outdate(s)
        /\ txn' = [kind |-> "bootstrap", attempt |-> a, step |-> "fuse", assigned |-> TRUE]
     \/ /\ ~Assigned(a)
        /\ ~RequireAssignment
        /\ UNCHANGED <<sess, look>>
        /\ txn' = [kind |-> "bootstrap", attempt |-> a, step |-> "fuse", assigned |-> FALSE]
  /\ UNCHANGED <<nodes, nextSeq, tokens, fuse, answered, running, crashes>>

(* A bug: the fuse is not written. *)
WriteFuseSkipped ==
  /\ txn.kind = "bootstrap" /\ txn.step = "fuse"
  /\ txn' = [txn EXCEPT !.step = "commit"]
  /\ UNCHANGED <<sess, nodes, nextSeq, tokens, fuse, answered, running, look, crashes>>

(* _write_legacy_token_fuse *)
WriteFuse ==
  /\ txn.kind = "bootstrap" /\ txn.step = "fuse"
  /\ fuse' = fuse \cup {txn.attempt.token}
  /\ txn' = [txn EXCEPT !.step = "commit"]
  /\ UNCHANGED <<sess, nodes, nextSeq, tokens, answered, running, look, crashes>>

(* A bug: next_node_seq is not advanced by the commit. *)
SeqKept == nextSeq

(* _issue_node_id *)
SeqAfterIssue == nextSeq + 1

NodeRecord(a, assigned) ==
  [attempt |-> a, session |-> IF assigned THEN SessionOf[a.boot] ELSE NoSession,
   beat |-> Never, desired |-> "RUNNING"]

(* Node, token and sequence are one file. *)
CommitAuthority ==
  LET a == txn.attempt IN
  /\ txn.kind = "bootstrap" /\ txn.step = "commit"
  /\ nodes' = [n \in DOMAIN nodes \cup {nextSeq} |->
                 IF n = nextSeq THEN NodeRecord(a, txn.assigned) ELSE nodes[n]]
  /\ nextSeq' = SeqAfterIssue
  /\ tokens' = [MergedTokens EXCEPT ![a.token] = a]
  /\ txn' = [txn EXCEPT !.step = "answer"]
  /\ UNCHANGED <<sess, fuse, answered, running, look, crashes>>

(* The response arrives or is lost; the egress delivery may refuse it. *)
BootstrapAnswer ==
  /\ txn.kind = "bootstrap" /\ txn.step = "answer"
  /\ \/ Tell(txn.attempt, NodeOf(txn.attempt.token))
     \/ UNCHANGED <<answered, running>>
  /\ txn' = Idle
  /\ UNCHANGED <<sess, nodes, nextSeq, tokens, fuse, look, crashes>>

-----------------------------------------------------------------------------
(* Heartbeats *)

(* A bug: a Session that has ended still accepts heartbeats. *)
SessionKnows(s, n, b) == sess[s].node = n /\ sess[s].boot = b

(* record_node_heartbeat accepts the Node the Session is bound to. *)
SessionAccepts(s, n, b) == sess[s].active /\ sess[s].node = n /\ sess[s].boot = b

(* The Session is written first.  The access token proves that the agent is the
   Node's. *)
HeartbeatRecord(a) ==
  LET n == answered[a]  s == nodes[n].session IN
  /\ txn = Idle
  /\ a \in running
  /\ nodes[n].attempt = a
  /\ \/ /\ s = NoSession
        /\ UNCHANGED <<sess, look>>
     \/ /\ s # NoSession
        /\ SessionAccepts(s, n, a.boot)
        /\ sess' = [sess EXCEPT ![s].beat = 0]
        /\ Outdate(s)
  /\ txn' = [kind |-> "heartbeat", attempt |-> a]
  /\ UNCHANGED <<nodes, nextSeq, tokens, fuse, answered, running, crashes>>

(* A Session that does not accept the heartbeat ends the request; the agent takes
   the 409 as an order to stop. *)
HeartbeatRefused(a) ==
  LET n == answered[a] IN
  /\ txn = Idle
  /\ a \in running
  /\ nodes[n].session # NoSession
  /\ ~SessionAccepts(nodes[n].session, n, a.boot)
  /\ running' = running \ {a}
  /\ UNCHANGED <<sess, nodes, nextSeq, tokens, fuse, txn, answered, look, crashes>>

(* The merged token records go out with every write of nodes.json.  The answer
   carries desired_state; an agent that is told STOPPED stops. *)
HeartbeatCommit ==
  LET a == txn.attempt  n == answered[a] IN
  /\ txn.kind = "heartbeat"
  /\ nodes' = [nodes EXCEPT ![n].beat = 0]
  /\ tokens' = MergedTokens
  /\ running' = IF nodes[n].desired = "STOPPED" THEN running \ {a} ELSE running
  /\ txn' = Idle
  /\ UNCHANGED <<sess, nextSeq, fuse, answered, look, crashes>>

StopNode(n) ==
  /\ txn = Idle
  /\ nodes' = [nodes EXCEPT ![n].desired = "STOPPED"]
  /\ tokens' = MergedTokens
  /\ UNCHANGED <<sess, nextSeq, fuse, txn, answered, running, look, crashes>>

(* The Control API dies with the lock held; what it wrote stays. *)
Crash ==
  /\ txn # Idle
  /\ crashes < MaxCrashes
  /\ crashes' = crashes + 1
  /\ txn' = Idle
  /\ UNCHANGED <<sess, nodes, nextSeq, tokens, fuse, answered, running, look>>

-----------------------------------------------------------------------------
(* The reaper *)

(* A bug: the Node record counts whatever Session it belongs to. *)
NodeBeatOfAnySession(s) == IF sess[s].node \in DOMAIN nodes THEN nodes[sess[s].node].beat ELSE Never

(* The heartbeat in nodes.json, for a Session that has none of its own. *)
NodeBeat(s) ==
  IF sess[s].node \in DOMAIN nodes /\ nodes[sess[s].node].session = s
    THEN nodes[sess[s].node].beat ELSE Never

(* _heartbeat_baseline: the Session's heartbeat, else the Node's, else the
   registration. *)
Baseline(s) ==
  IF sess[s].beat # Never THEN sess[s].beat
  ELSE IF NodeBeat(s) # Never THEN NodeBeat(s)
  ELSE sess[s].reg

MissingHeartbeat(s) ==
  /\ look = NoLook
  /\ sess[s].active
  /\ sess[s].node # NoNode
  /\ Baseline(s) = Grace
  /\ look' = [session |-> s, current |-> TRUE]
  /\ UNCHANGED <<sess, nodes, nextSeq, tokens, fuse, txn, answered, running, crashes>>

(* A bug: only the status is compared. *)
StillMissingByStatus == sess[look.session].active

(* transition_if_current: the status is active, and Node, boot, registration and
   heartbeat are those of the snapshot. *)
StillMissing == sess[look.session].active /\ look.current

FailMissingHeartbeat ==
  /\ look # NoLook
  /\ sess' = IF StillMissing THEN [sess EXCEPT ![look.session].active = FALSE] ELSE sess
  /\ look' = NoLook
  /\ UNCHANGED <<nodes, nextSeq, tokens, fuse, txn, answered, running, crashes>>

-----------------------------------------------------------------------------
(* Everything else that ends a Session. *)
SessionEnds(s) ==
  /\ sess[s].active
  /\ sess' = [sess EXCEPT ![s].active = FALSE]
  /\ UNCHANGED <<nodes, nextSeq, tokens, fuse, txn, answered, running, look, crashes>>

AgentDies(a) ==
  /\ a \in running
  /\ running' = running \ {a}
  /\ UNCHANGED <<sess, nodes, nextSeq, tokens, fuse, txn, answered, look, crashes>>

Older(age) == IF age < Grace THEN age + 1 ELSE age

(* Time passes, also while a heartbeat is on its way or lost. *)
Tick ==
  /\ sess' = [s \in Sessions |-> [sess[s] EXCEPT !.beat = Older(@), !.reg = Older(@)]]
  /\ nodes' = [n \in DOMAIN nodes |-> [nodes[n] EXCEPT !.beat = Older(@)]]
  /\ UNCHANGED <<nextSeq, tokens, fuse, txn, answered, running, look, crashes>>

Next ==
  \/ \E a \in Attempts : BootstrapReplay(a) \/ BootstrapBind(a) \/ HeartbeatRecord(a)
                         \/ HeartbeatRefused(a) \/ AgentDies(a)
  \/ WriteFuse \/ CommitAuthority \/ BootstrapAnswer \/ HeartbeatCommit
  \/ \E n \in DOMAIN nodes : StopNode(n)
  \/ \E s \in Sessions : MissingHeartbeat(s) \/ SessionEnds(s)
  \/ FailMissingHeartbeat
  \/ Crash
  \/ Tick

Spec == Init /\ [][Next]_vars

(* A request that holds the lock ends, time passes, every sweep of the reaper
   looks at every active Session, and an agent sends heartbeats until it is told
   to stop, one of which gets the lock.  No heartbeat need be accepted. *)
FairSpec ==
  /\ Spec
  /\ WF_vars(WriteFuse) /\ WF_vars(CommitAuthority) /\ WF_vars(BootstrapAnswer)
  /\ WF_vars(HeartbeatCommit)
  /\ WF_vars(Tick)
  /\ \A a \in Attempts : SF_vars(HeartbeatRefused(a))
  /\ \A s \in Sessions : SF_vars(MissingHeartbeat(s))
  /\ WF_vars(FailMissingHeartbeat)

-----------------------------------------------------------------------------
Ages == 0 .. Grace + 1

SessionType == [active: BOOLEAN, node: Nat, boot: Boots \cup {NoBoot}, beat: Ages, reg: 0 .. Grace]
NodeType == [attempt: Attempts, session: Sessions \cup {NoSession}, beat: Ages,
             desired: {"RUNNING", "STOPPED"}]

TxnType ==
  \/ txn = Idle
  \/ txn \in [kind: {"bootstrap"}, attempt: Attempts, step: {"fuse", "commit", "answer"},
              assigned: BOOLEAN]
  \/ txn \in [kind: {"heartbeat"}, attempt: Attempts]

(* Types, and the sequence check that _validate_nodes makes on every read and
   write. *)
TypeOK ==
  /\ sess \in [Sessions -> SessionType]
  /\ nextSeq \in Nat \ {0}
  /\ DOMAIN nodes = 1 .. (nextSeq - 1)
  /\ \A n \in DOMAIN nodes : nodes[n] \in NodeType
  /\ tokens \in [Tokens -> Attempts \cup {Unused, Burned}]
  /\ fuse \subseteq Tokens
  /\ TxnType
  /\ answered \in [Attempts -> Nat]
  /\ running \subseteq Attempts
  /\ look \in [session: Sessions \cup {NoSession}, current: BOOLEAN]
  /\ crashes \in Nat

(* A token the authority calls consumed is in the fuse as well: the build that
   reads only the fuse refuses it after a rollback, wherever the Control API
   died. *)
RollbackRefusesConsumed == \A t \in Tokens : tokens[t] # Unused => t \in fuse

(* A token is exchanged once, by one attempt, for one Node, and the attempt
   finds that Node whenever it asks again: crashes leave neither a second
   Node of the attempt nor another attempt's Node under its id. *)
OneNodePerToken ==
  /\ \A m, n \in DOMAIN nodes :
       nodes[m].attempt.token = nodes[n].attempt.token => m = n
  /\ \A a \in Attempts : answered[a] # NoNode =>
       /\ answered[a] \in DOMAIN nodes
       /\ nodes[answered[a]].attempt = a
       /\ tokens[a.token] = a

(* A heartbeat that a Session has on record came from a committed Node that is
   bound to it, also when a Node id was handed out twice because the first
   bootstrap died before its commit. *)
HeartbeatIsOwn ==
  \A s \in Sessions : sess[s].beat # Never =>
    /\ sess[s].node \in DOMAIN nodes
    /\ nodes[sess[s].node].session = s
    /\ nodes[sess[s].node].attempt.boot = sess[s].boot

(* Node and token records name each other, and a running agent knows its Node. *)
TokenInv ==
  /\ \A t \in Tokens : tokens[t] \in Attempts =>
       tokens[t].token = t /\ \E n \in DOMAIN nodes : nodes[n].attempt = tokens[t]
  /\ \A n \in DOMAIN nodes : tokens[nodes[n].attempt.token] = nodes[n].attempt
  /\ \A a \in running : answered[a] # NoNode

(* What a request that holds the lock has found and written. *)
BootstrapInv ==
  txn.kind = "bootstrap" =>
    /\ tokens[txn.attempt.token] = IF txn.step = "answer" THEN txn.attempt ELSE Unused
    /\ txn.step # "fuse" => txn.attempt.token \in fuse

HeartbeatInv ==
  txn.kind = "heartbeat" =>
    LET n == answered[txn.attempt] IN
    /\ n # NoNode
    /\ nodes[n].session # NoSession => sess[nodes[n].session].beat # Never

(* While the snapshot is current, the heartbeat it missed is still missing. *)
LookInv ==
  look.current =>
    /\ look.session \in Sessions
    /\ sess[look.session].active => Baseline(look.session) = Grace

(* The files of bootstrap and heartbeat agree wherever the Control API died: well typed,
   one Node per token, every consumed token in the fuse, every heartbeat on record the
   bound Node's own.  The other parts make it inductive. *)
Inv ==
  /\ TypeOK /\ RollbackRefusesConsumed /\ OneNodePerToken /\ HeartbeatIsOwn
  /\ TokenInv /\ BootstrapInv /\ HeartbeatInv /\ LookInv

(* The reaper fails a Session for a missing heartbeat only when the heartbeat
   is missing at that moment, not merely in its snapshot: a heartbeat or a new
   binding that came between keeps the Session alive. *)
ReaperSparesServed ==
  [][\A s \in Sessions :
       FailMissingHeartbeat /\ sess[s].active /\ ~sess'[s].active
         => Baseline(s) = Grace]_vars

(* A Session bound to a Node hears from that Node again, or ends.  A binding
   whose bootstrap died has an id that the next Node gets, and the heartbeats
   of that Node must not keep the Session alive. *)
BoundIsHeardOrEnds ==
  \A s \in Sessions :
    sess[s].active /\ sess[s].node # NoNode
      ~> ~sess[s].active \/ sess[s].beat = 0

(* An agent whose Session has ended, or is bound to another Node by now, stops:
   no relay goes on sending behind a Session that is over, whoever ended it and
   whatever crashed. *)
AgentLeavesLostSession ==
  \A a \in Attempts, s \in Sessions :
    a \in running /\ nodes[answered[a]].session = s
        /\ (~sess[s].active \/ sess[s].node # answered[a])
      ~> a \notin running
=============================================================================
