--------------------------- MODULE NodeAuthorityProofs ---------------------------
(***************************************************************************)
(* Bootstrap tokens, heartbeats and the reaper's look, for any number of    *)
(* tokens, boots, Sessions and crashes and every heartbeat grace.           *)
(***************************************************************************)
EXTENDS NodeAuthority, TLAPS

(* A consumed token, an unused one and one that only the fuse knows are told apart. *)
LEMMA TokenRecords ==
  /\ Unused # Burned
  /\ Unused \notin Attempts
  /\ Burned \notin Attempts
<1>1. DOMAIN Unused = {"by"} /\ DOMAIN Burned = {"by"} /\ Unused.by # Burned.by
  BY DEF Unused, Burned
<1>2. \A a \in Attempts : DOMAIN a = {"token", "boot"}
  BY DEF Attempts
<1> QED
  BY <1>1, <1>2

(* The age of the last heartbeat never passes the grace, and no age becomes Never. *)
LEMMA OlderAge ==
  ASSUME NEW x \in Ages
  PROVE  /\ Older(x) \in Ages
         /\ Older(x) = Never <=> x = Never
         /\ x = Grace => Older(x) = Grace
         /\ x \in 0 .. Grace => Older(x) \in 0 .. Grace
  BY GraceAssumption DEF Older, Ages, Never

(* The merge of the fuse changes unused tokens only, and only into burned ones. *)
LEMMA MergeKeeps ==
  ASSUME TypeOK
  PROVE  /\ MergedTokens \in [Tokens -> Attempts \cup {Unused, Burned}]
         /\ \A t \in Tokens : tokens[t] # Unused => MergedTokens[t] = tokens[t]
         /\ \A t \in Tokens : MergedTokens[t] # tokens[t] => t \in fuse /\ MergedTokens[t] = Burned
  BY DEF TypeOK, MergedTokens

(* Writes of single fields keep the records well typed. *)
LEMMA SessionWrites ==
  ASSUME NEW r \in SessionType
  PROVE  /\ \A n \in Nat, b \in Boots : BoundRecord(r, n, b) \in SessionType
         /\ [r EXCEPT !.beat = 0] \in SessionType
         /\ [r EXCEPT !.active = FALSE] \in SessionType
         /\ [r EXCEPT !.beat = Older(@), !.reg = Older(@)] \in SessionType
<1>1. 0 \in Ages /\ Never \in Ages /\ 0 \in 0 .. Grace
  BY GraceAssumption DEF Ages, Never
<1>2. r.reg \in Ages
  BY GraceAssumption DEF SessionType, Ages
<1>3. Older(r.beat) \in Ages /\ Older(r.reg) \in 0 .. Grace
  BY <1>2, OlderAge DEF SessionType
<1> QED
  BY <1>1, <1>3 DEF SessionType, BoundRecord

LEMMA NodeWrites ==
  ASSUME NEW r \in NodeType
  PROVE  /\ [r EXCEPT !.beat = 0] \in NodeType
         /\ [r EXCEPT !.desired = "STOPPED"] \in NodeType
         /\ [r EXCEPT !.beat = Older(@)] \in NodeType
<1>1. 0 \in Ages /\ Older(r.beat) \in Ages
  BY GraceAssumption, OlderAge DEF NodeType, Ages
<1> QED
  BY <1>1 DEF NodeType

(* Every action starts from a request that is idle or well typed. *)
LEMMA TxnKinds ==
  ASSUME TypeOK
  PROVE  /\ txn = Idle => txn.kind = "none"
         /\ txn.kind = "bootstrap" =>
              txn \in [kind: {"bootstrap"}, attempt: Attempts, step: {"fuse", "commit", "answer"},
                       assigned: BOOLEAN]
         /\ txn.kind = "heartbeat" => txn \in [kind: {"heartbeat"}, attempt: Attempts]
  BY DEF TypeOK, TxnType, Idle

(* A Node has been committed for a consumed token, and NodeOf finds it. *)
LEMMA NodeOfFinds ==
  ASSUME TypeOK, TokenInv, OneNodePerToken, NEW a \in Attempts, tokens[a.token] = a
  PROVE  /\ NodeOf(a.token) \in DOMAIN nodes
         /\ nodes[NodeOf(a.token)].attempt = a
         /\ NodeOf(a.token) # NoNode
         /\ NodeOf(a.token) \in Nat
<1>1. a.token \in Tokens
  BY DEF Attempts
<1>2. \E n \in DOMAIN nodes : nodes[n].attempt = a
  BY <1>1 DEF TokenInv
<1>3. \E n \in DOMAIN nodes : nodes[n].attempt.token = a.token
  BY <1>2
<1>4. NodeOf(a.token) \in DOMAIN nodes /\ nodes[NodeOf(a.token)].attempt.token = a.token
  BY <1>3 DEF NodeOf
<1>5. nodes[NodeOf(a.token)].attempt = a
  BY <1>4 DEF TokenInv
<1>6. NodeOf(a.token) # NoNode /\ NodeOf(a.token) \in Nat
  BY <1>4 DEF TypeOK, NoNode
<1> QED
  BY <1>4, <1>5, <1>6

-----------------------------------------------------------------------------
(* Initially no token is used and no Session is bound. *)
LEMMA InitInv == Init => Inv
<1> SUFFICES ASSUME Init PROVE Inv
  OBVIOUS
<1>1. NewSession \in SessionType
  BY GraceAssumption DEF NewSession, SessionType, NoNode, Ages, Never
<1>2. DOMAIN nodes = {} /\ 1 .. (nextSeq - 1) = {}
  BY DEF Init
<1>3. TypeOK
  BY <1>1, <1>2 DEF Init, TypeOK, TxnType, NoLook, NoNode
<1>4. RollbackRefusesConsumed /\ OneNodePerToken
  BY <1>2 DEF Init, RollbackRefusesConsumed, OneNodePerToken
<1>5. HeartbeatIsOwn
  BY DEF Init, HeartbeatIsOwn, NewSession
<1>6. TokenInv
  BY <1>2, TokenRecords DEF Init, TokenInv
<1>7. BootstrapInv /\ HeartbeatInv /\ LookInv
  BY DEF Init, BootstrapInv, HeartbeatInv, LookInv, Idle, NoLook
<1> QED
  BY <1>3, <1>4, <1>5, <1>6, <1>7 DEF Inv

-----------------------------------------------------------------------------
(* Every step keeps the types. *)
LEMMA TypeStep == Inv /\ [Next]_vars => TypeOK'
<1> SUFFICES ASSUME Inv, [Next]_vars PROVE TypeOK'
  OBVIOUS
<1>a. TypeOK /\ TokenInv /\ OneNodePerToken /\ HeartbeatInv
  BY DEF Inv
<1>b. 0 \in Ages /\ Never \in Ages /\ 0 \in 0 .. Grace
  BY GraceAssumption DEF Ages, Never
<1>1. ASSUME NEW a \in Attempts, BootstrapReplay(a) PROVE TypeOK'
  BY <1>1, <1>a, NodeOfFinds DEF BootstrapReplay, SameAttempt, Tell, TypeOK, TxnType
<1>2. ASSUME NEW a \in Attempts, BootstrapBind(a) PROVE TypeOK'
  <2>1. SessionOf[a.boot] \in Sessions /\ a.boot \in Boots
    BY SessionOfAssumption DEF Attempts
  <2>2. BoundRecord(sess[SessionOf[a.boot]], nextSeq, a.boot) \in SessionType
    BY <1>a, <2>1, SessionWrites DEF TypeOK
  <2>3. sess' \in [Sessions -> SessionType]
    BY <1>2, <1>a, <2>1, <2>2 DEF BootstrapBind, TypeOK
  <2>4. TxnType'
    <3>1. PICK assigned \in BOOLEAN :
            txn' = [kind |-> "bootstrap", attempt |-> a, step |-> "fuse", assigned |-> assigned]
      BY <1>2 DEF BootstrapBind
    <3> QED
      BY <3>1 DEF TxnType
  <2>5. look' \in [session: Sessions \cup {NoSession}, current: BOOLEAN]
    BY <1>2, <1>a DEF BootstrapBind, Outdate, TypeOK
  <2> QED
    BY <1>2, <1>a, <2>3, <2>4, <2>5 DEF BootstrapBind, TypeOK
<1>3. ASSUME NEW a \in Attempts, HeartbeatRecord(a) PROVE TypeOK'
  <2>1. answered[a] \in DOMAIN nodes
    BY <1>3, <1>a DEF HeartbeatRecord, TokenInv, OneNodePerToken
  <2>2. nodes[answered[a]].session \in Sessions \cup {NoSession}
    BY <1>a, <2>1 DEF TypeOK, NodeType
  <2>3. sess' \in [Sessions -> SessionType]
    <3> DEFINE s == nodes[answered[a]].session
    <3>1. CASE s = NoSession
      BY <1>3, <1>a, <3>1 DEF HeartbeatRecord, TypeOK
    <3>2. CASE s # NoSession
      <4>1. s \in Sessions /\ [sess[s] EXCEPT !.beat = 0] \in SessionType
        BY <1>a, <2>2, <3>2, SessionWrites DEF TypeOK
      <4>2. sess' = [sess EXCEPT ![s] = [sess[s] EXCEPT !.beat = 0]]
        BY <1>3, <3>2 DEF HeartbeatRecord
      <4> HIDE DEF s
      <4> QED
        BY <1>a, <4>1, <4>2 DEF TypeOK
    <3> QED
      BY <3>1, <3>2
  <2>4. TxnType'
    BY <1>3 DEF HeartbeatRecord, TxnType
  <2>5. look' \in [session: Sessions \cup {NoSession}, current: BOOLEAN]
    BY <1>3, <1>a DEF HeartbeatRecord, Outdate, TypeOK
  <2> QED
    BY <1>3, <1>a, <2>3, <2>4, <2>5 DEF HeartbeatRecord, TypeOK
<1>4. ASSUME NEW a \in Attempts, HeartbeatRefused(a) \/ AgentDies(a) PROVE TypeOK'
  BY <1>4, <1>a DEF HeartbeatRefused, AgentDies, TypeOK, TxnType
<1>5. ASSUME WriteFuse PROVE TypeOK'
  <2>1. TxnType' /\ txn.attempt.token \in Tokens
    BY <1>5, <1>a, TxnKinds DEF WriteFuse, TxnType, Attempts
  <2> QED
    BY <1>5, <1>a, <2>1 DEF WriteFuse, TypeOK
<1>6. ASSUME CommitAuthority PROVE TypeOK'
  <2>1. TxnType' /\ txn.attempt \in Attempts /\ txn.attempt.token \in Tokens
          /\ txn.attempt.boot \in Boots /\ txn.assigned \in BOOLEAN
    BY <1>6, <1>a, TxnKinds DEF CommitAuthority, TxnType, Attempts
  <2>2. NodeRecord(txn.attempt, txn.assigned) \in NodeType
    BY <2>1, <1>b, SessionOfAssumption DEF NodeRecord, NodeType
  <2>3. nextSeq' \in Nat \ {0} /\ DOMAIN nodes' = 1 .. (nextSeq' - 1)
    BY <1>6, <1>a DEF CommitAuthority, TypeOK, SeqAfterIssue
  <2>4. \A n \in DOMAIN nodes' : nodes'[n] \in NodeType
    BY <1>6, <1>a, <2>2 DEF CommitAuthority, TypeOK
  <2>5. tokens' \in [Tokens -> Attempts \cup {Unused, Burned}]
    BY <1>6, <1>a, <2>1, MergeKeeps DEF CommitAuthority
  <2> QED
    BY <1>6, <1>a, <2>1, <2>3, <2>4, <2>5 DEF CommitAuthority, TypeOK
<1>7. ASSUME BootstrapAnswer PROVE TypeOK'
  <2>1. txn.attempt \in Attempts /\ tokens[txn.attempt.token] = txn.attempt
    BY <1>7, <1>a, TxnKinds DEF BootstrapAnswer, Inv, BootstrapInv
  <2>2. NodeOf(txn.attempt.token) \in Nat
    BY <1>a, <2>1, NodeOfFinds
  <2> QED
    BY <1>7, <1>a, <2>1, <2>2 DEF BootstrapAnswer, Tell, TypeOK, TxnType
<1>8. ASSUME HeartbeatCommit PROVE TypeOK'
  <2>1. txn.attempt \in Attempts
    BY <1>8, <1>a, TxnKinds DEF HeartbeatCommit
  <2>2. \A n \in DOMAIN nodes' : nodes'[n] \in NodeType
    BY <1>8, <1>a, NodeWrites DEF HeartbeatCommit, TypeOK
  <2>3. DOMAIN nodes' = DOMAIN nodes
    BY <1>8 DEF HeartbeatCommit
  <2> QED
    BY <1>8, <1>a, <2>1, <2>2, <2>3, MergeKeeps DEF HeartbeatCommit, TypeOK, TxnType
<1>9. ASSUME NEW n \in DOMAIN nodes, StopNode(n) PROVE TypeOK'
  <2>1. \A m \in DOMAIN nodes' : nodes'[m] \in NodeType
    BY <1>9, <1>a, NodeWrites DEF StopNode, TypeOK
  <2>2. DOMAIN nodes' = DOMAIN nodes
    BY <1>9 DEF StopNode
  <2> QED
    BY <1>9, <1>a, <2>1, <2>2, MergeKeeps DEF StopNode, TypeOK, TxnType
<1>10. ASSUME NEW s \in Sessions, MissingHeartbeat(s) PROVE TypeOK'
  BY <1>10, <1>a DEF MissingHeartbeat, TypeOK, TxnType
<1>11. ASSUME NEW s \in Sessions, SessionEnds(s) PROVE TypeOK'
  <2>1. sess' = [sess EXCEPT ![s] = [sess[s] EXCEPT !.active = FALSE]]
    BY <1>11 DEF SessionEnds
  <2>2. sess' \in [Sessions -> SessionType]
    BY <1>a, <2>1, SessionWrites DEF TypeOK
  <2> QED
    BY <1>11, <1>a, <2>2 DEF SessionEnds, TypeOK, TxnType
<1>12. ASSUME FailMissingHeartbeat PROVE TypeOK'
  <2>1. sess' \in [Sessions -> SessionType]
    <3>1. CASE sess' = sess
      BY <1>a, <3>1 DEF TypeOK
    <3>2. CASE StillMissing
      <4>1. look.session \in Sessions
        BY <1>a, <3>2 DEF Inv, LookInv, StillMissing
      <4>2. sess' = [sess EXCEPT ![look.session] = [sess[look.session] EXCEPT !.active = FALSE]]
        BY <1>12, <3>2 DEF FailMissingHeartbeat
      <4> QED
        BY <1>a, <4>1, <4>2, SessionWrites DEF TypeOK
    <3> QED
      BY <1>12, <3>1, <3>2 DEF FailMissingHeartbeat
  <2> QED
    BY <1>12, <1>a, <2>1 DEF FailMissingHeartbeat, NoLook, TypeOK, TxnType
<1>13. ASSUME Crash PROVE TypeOK'
  BY <1>13, <1>a DEF Crash, TypeOK, TxnType
<1>14. ASSUME Tick PROVE TypeOK'
  <2>1. sess' \in [Sessions -> SessionType]
    BY <1>14, <1>a, SessionWrites DEF Tick, TypeOK
  <2>2. DOMAIN nodes' = DOMAIN nodes /\ \A n \in DOMAIN nodes' : nodes'[n] \in NodeType
    BY <1>14, <1>a, NodeWrites DEF Tick, TypeOK
  <2> QED
    BY <1>14, <1>a, <2>1, <2>2 DEF Tick, TypeOK, TxnType
<1>15. CASE UNCHANGED vars
  BY <1>15, <1>a DEF vars, TypeOK, TxnType
<1> QED
  BY <1>1, <1>2, <1>3, <1>4, <1>5, <1>6, <1>7, <1>8, <1>9, <1>10, <1>11, <1>12, <1>13, <1>14, <1>15 DEF Next

-----------------------------------------------------------------------------
(* What a step does to the token records: it merges the fuse, or it commits the token of
   the bootstrap that holds the lock. *)
LEMMA TokenMoves ==
  ASSUME Inv, [Next]_vars
  PROVE  \/ tokens' = tokens
         \/ tokens' = MergedTokens /\ txn.kind # "bootstrap"
         \/ CommitAuthority
<1>1. ASSUME NEW a \in Attempts, BootstrapReplay(a) \/ BootstrapBind(a) \/ HeartbeatRecord(a)
                                    \/ HeartbeatRefused(a) \/ AgentDies(a)
      PROVE  tokens' = tokens
  BY <1>1 DEF BootstrapReplay, BootstrapBind, HeartbeatRecord, HeartbeatRefused, AgentDies
<1>2. ASSUME WriteFuse \/ BootstrapAnswer \/ Crash \/ Tick \/ FailMissingHeartbeat PROVE tokens' = tokens
  BY <1>2 DEF WriteFuse, BootstrapAnswer, Crash, Tick, FailMissingHeartbeat
<1>3. ASSUME NEW s \in Sessions, MissingHeartbeat(s) \/ SessionEnds(s) PROVE tokens' = tokens
  BY <1>3 DEF MissingHeartbeat, SessionEnds
<1>4. ASSUME HeartbeatCommit PROVE tokens' = MergedTokens /\ txn.kind # "bootstrap"
  BY <1>4 DEF HeartbeatCommit
<1>5. ASSUME NEW n \in DOMAIN nodes, StopNode(n) PROVE tokens' = MergedTokens /\ txn.kind # "bootstrap"
  BY <1>5 DEF StopNode, Idle
<1> QED
  BY <1>1, <1>2, <1>3, <1>4, <1>5 DEF Next, vars

(* What a step does to the Node records: their attempt and Session stay, and only the
   commit of a bootstrap adds one. *)
LEMMA NodeMoves ==
  ASSUME Inv, [Next]_vars
  PROVE  \/ CommitAuthority
         \/ /\ nextSeq' = nextSeq
            /\ DOMAIN nodes' = DOMAIN nodes
            /\ \A n \in DOMAIN nodes : /\ nodes'[n].attempt = nodes[n].attempt
                                       /\ nodes'[n].session = nodes[n].session
<1>a. \A n \in DOMAIN nodes : nodes[n] \in NodeType
  BY DEF Inv, TypeOK
<1>1. ASSUME NEW a \in Attempts, BootstrapReplay(a) \/ BootstrapBind(a) \/ HeartbeatRecord(a)
                                    \/ HeartbeatRefused(a) \/ AgentDies(a)
      PROVE  nodes' = nodes /\ nextSeq' = nextSeq
  BY <1>1 DEF BootstrapReplay, BootstrapBind, HeartbeatRecord, HeartbeatRefused, AgentDies
<1>2. ASSUME WriteFuse \/ BootstrapAnswer \/ Crash \/ FailMissingHeartbeat
      PROVE  nodes' = nodes /\ nextSeq' = nextSeq
  BY <1>2 DEF WriteFuse, BootstrapAnswer, Crash, FailMissingHeartbeat
<1>3. ASSUME NEW s \in Sessions, MissingHeartbeat(s) \/ SessionEnds(s) PROVE nodes' = nodes /\ nextSeq' = nextSeq
  BY <1>3 DEF MissingHeartbeat, SessionEnds
<1> DEFINE Kept == /\ nextSeq' = nextSeq
                   /\ DOMAIN nodes' = DOMAIN nodes
                   /\ \A n \in DOMAIN nodes : /\ nodes'[n].attempt = nodes[n].attempt
                                              /\ nodes'[n].session = nodes[n].session
<1>4. ASSUME HeartbeatCommit PROVE Kept
  BY <1>4, <1>a DEF HeartbeatCommit, NodeType
<1>5. ASSUME NEW n \in DOMAIN nodes, StopNode(n) PROVE Kept
  BY <1>5, <1>a DEF StopNode, NodeType
<1>6. ASSUME Tick PROVE Kept
  BY <1>6, <1>a DEF Tick, NodeType
<1>7. nodes' = nodes /\ nextSeq' = nextSeq => Kept
  OBVIOUS
<1> HIDE DEF Kept
<1>8. Kept \/ CommitAuthority
  BY <1>1, <1>2, <1>3, <1>4, <1>5, <1>6, <1>7 DEF Next, vars
<1> QED
  BY <1>8 DEF Kept

(* What CommitAuthority writes. *)
LEMMA CommitWrites ==
  ASSUME Inv, CommitAuthority
  PROVE  /\ txn.attempt \in Attempts /\ txn.attempt.token \in Tokens
         /\ tokens[txn.attempt.token] = Unused /\ txn.attempt.token \in fuse
         /\ nextSeq \notin DOMAIN nodes /\ nextSeq \in Nat /\ nextSeq # NoNode
         /\ DOMAIN nodes' = DOMAIN nodes \cup {nextSeq}
         /\ nodes'[nextSeq] = NodeRecord(txn.attempt, txn.assigned)
         /\ nodes'[nextSeq].attempt = txn.attempt
         /\ \A n \in DOMAIN nodes : nodes'[n] = nodes[n]
         /\ tokens'[txn.attempt.token] = txn.attempt
         /\ \A t \in Tokens \ {txn.attempt.token} : tokens'[t] = MergedTokens[t]
<1>a. TypeOK /\ BootstrapInv
  BY DEF Inv
<1>1. txn.kind = "bootstrap" /\ txn.step = "commit" /\ txn.attempt \in Attempts
        /\ txn.attempt.token \in Tokens
  BY <1>a, TxnKinds DEF CommitAuthority, Attempts
<1>2. tokens[txn.attempt.token] = Unused /\ txn.attempt.token \in fuse
  BY <1>a, <1>1 DEF BootstrapInv
<1>3. nextSeq \notin DOMAIN nodes /\ nextSeq \in Nat /\ nextSeq # NoNode
  BY <1>a DEF TypeOK, NoNode
<1>4. /\ DOMAIN nodes' = DOMAIN nodes \cup {nextSeq}
      /\ nodes'[nextSeq] = NodeRecord(txn.attempt, txn.assigned)
      /\ \A n \in DOMAIN nodes : nodes'[n] = nodes[n]
  BY <1>3 DEF CommitAuthority
<1>5. /\ tokens'[txn.attempt.token] = txn.attempt
      /\ \A t \in Tokens \ {txn.attempt.token} : tokens'[t] = MergedTokens[t]
  BY <1>a, <1>1, MergeKeeps DEF CommitAuthority
<1> QED
  BY <1>1, <1>2, <1>3, <1>4, <1>5 DEF NodeRecord

(* A token record is not changed once an attempt owns it. *)
LEMMA OwnedTokenStays ==
  ASSUME Inv, [Next]_vars, NEW t \in Tokens, tokens[t] \in Attempts
  PROVE  tokens'[t] = tokens[t]
<1>1. tokens[t] # Unused
  BY TokenRecords
<1>2. MergedTokens[t] = tokens[t]
  BY <1>1, MergeKeeps DEF Inv
<1>3. CASE CommitAuthority
  BY <1>1, <1>2, <1>3, CommitWrites
<1> QED
  BY <1>2, <1>3, TokenMoves

(* An agent is told the Node of its own attempt, and nothing else is ever told. *)
LEMMA AgentMoves ==
  ASSUME Inv, [Next]_vars
  PROVE  \/ answered' = answered /\ running' \subseteq running
         \/ \E a \in Attempts : /\ tokens[a.token] = a
                                 /\ Tell(a, NodeOf(a.token))
                                 /\ tokens' = tokens /\ nodes' = nodes
<1>a. TypeOK /\ BootstrapInv
  BY DEF Inv
<1>1. ASSUME NEW a \in Attempts, BootstrapReplay(a)
      PROVE  tokens[a.token] = a /\ Tell(a, NodeOf(a.token)) /\ tokens' = tokens /\ nodes' = nodes
  BY <1>1 DEF BootstrapReplay, SameAttempt
<1>2. ASSUME BootstrapAnswer
      PROVE  \/ answered' = answered /\ running' = running
             \/ /\ txn.attempt \in Attempts /\ tokens[txn.attempt.token] = txn.attempt
                /\ Tell(txn.attempt, NodeOf(txn.attempt.token)) /\ tokens' = tokens /\ nodes' = nodes
  BY <1>2, <1>a, TxnKinds DEF BootstrapAnswer, BootstrapInv
<1> DEFINE Same == answered' = answered /\ running' \subseteq running
<1>3. ASSUME NEW a \in Attempts, BootstrapBind(a) \/ HeartbeatRecord(a) \/ HeartbeatRefused(a) \/ AgentDies(a)
      PROVE  Same
  BY <1>3 DEF BootstrapBind, HeartbeatRecord, HeartbeatRefused, AgentDies
<1>4. ASSUME WriteFuse \/ CommitAuthority \/ HeartbeatCommit \/ Crash \/ Tick \/ FailMissingHeartbeat PROVE Same
  BY <1>4 DEF WriteFuse, CommitAuthority, HeartbeatCommit, Crash, Tick, FailMissingHeartbeat
<1>5. ASSUME NEW s \in Sessions, MissingHeartbeat(s) \/ SessionEnds(s) PROVE Same
  BY <1>5 DEF MissingHeartbeat, SessionEnds
<1>6. ASSUME NEW n \in DOMAIN nodes, StopNode(n) PROVE Same
  BY <1>6 DEF StopNode
<1> QED
  BY <1>1, <1>2, <1>3, <1>4, <1>5, <1>6 DEF Next, vars

(* The fuse never forgets. *)
LEMMA FuseGrows == ASSUME [Next]_vars PROVE fuse \subseteq fuse'
  BY DEF Next, vars, BootstrapReplay, BootstrapBind, HeartbeatRecord, HeartbeatRefused, AgentDies, WriteFuse,
         CommitAuthority, BootstrapAnswer, HeartbeatCommit, StopNode, MissingHeartbeat, SessionEnds,
         FailMissingHeartbeat, Crash, Tick

-----------------------------------------------------------------------------
(* The fuse is written before the authority. *)
LEMMA RollbackStep == Inv /\ [Next]_vars => RollbackRefusesConsumed'
<1> SUFFICES ASSUME Inv, [Next]_vars, NEW t \in Tokens, tokens'[t] # Unused PROVE t \in fuse'
  BY DEF RollbackRefusesConsumed
<1>1. tokens[t] # Unused => t \in fuse
  BY DEF Inv, RollbackRefusesConsumed
<1>2. MergedTokens[t] # Unused => t \in fuse
  BY <1>1, MergeKeeps DEF Inv
<1>3. CASE CommitAuthority
  BY <1>2, <1>3, CommitWrites, FuseGrows
<1> QED
  BY <1>1, <1>2, <1>3, TokenMoves, FuseGrows

(* Node and token records go on naming each other. *)
LEMMA TokenStep == Inv /\ [Next]_vars => TokenInv'
<1> SUFFICES ASSUME Inv, [Next]_vars PROVE TokenInv'
  OBVIOUS
<1>a. TypeOK /\ TokenInv /\ OneNodePerToken
  BY DEF Inv
<1>1. ASSUME NEW t \in Tokens, tokens'[t] \in Attempts
      PROVE  tokens'[t].token = t /\ \E n \in DOMAIN nodes' : nodes'[n].attempt = tokens'[t]
  <2>1. CASE CommitAuthority /\ t = txn.attempt.token
    BY <2>1, CommitWrites
  <2>2. CASE ~(CommitAuthority /\ t = txn.attempt.token)
    <3>1. tokens'[t] = tokens[t] \/ tokens'[t] = MergedTokens[t]
      BY <2>2, TokenMoves, CommitWrites
    <3>2. tokens'[t] = tokens[t]
      BY <3>1, <1>1, <1>a, MergeKeeps, TokenRecords
    <3>3. tokens[t].token = t /\ \E n \in DOMAIN nodes : nodes[n].attempt = tokens[t]
      BY <3>2, <1>1, <1>a DEF TokenInv
    <3> QED
      BY <3>2, <3>3, NodeMoves, CommitWrites
  <2> QED
    BY <2>1, <2>2
<1>2. ASSUME NEW n \in DOMAIN nodes' PROVE tokens'[nodes'[n].attempt.token] = nodes'[n].attempt
  <2>1. CASE n \in DOMAIN nodes
    <3>1. nodes'[n].attempt = nodes[n].attempt
      BY <2>1, NodeMoves, CommitWrites
    <3>2. nodes[n].attempt \in Attempts /\ nodes[n].attempt.token \in Tokens
            /\ tokens[nodes[n].attempt.token] = nodes[n].attempt
      BY <1>a, <2>1 DEF TypeOK, NodeType, TokenInv, Attempts
    <3> QED
      BY <3>1, <3>2, OwnedTokenStays
  <2>2. CASE n \notin DOMAIN nodes
    BY <1>2, <2>2, NodeMoves, CommitWrites
  <2> QED
    BY <2>1, <2>2
<1>3. ASSUME NEW a \in running' PROVE answered'[a] # NoNode
  BY <1>3, <1>a, AgentMoves, NodeOfFinds DEF TokenInv, Tell, TypeOK
<1> QED
  BY <1>1, <1>2, <1>3 DEF TokenInv

(* A commit is for a token that no Node has, and an agent is told its own Node. *)
LEMMA OneNodeStep == Inv /\ [Next]_vars => OneNodePerToken'
<1> SUFFICES ASSUME Inv, [Next]_vars PROVE OneNodePerToken'
  OBVIOUS
<1>a. TypeOK /\ TokenInv /\ OneNodePerToken
  BY DEF Inv
<1>1. ASSUME NEW m \in DOMAIN nodes', NEW n \in DOMAIN nodes',
             nodes'[m].attempt.token = nodes'[n].attempt.token
      PROVE  m = n
  <2>1. CASE m \in DOMAIN nodes /\ n \in DOMAIN nodes
    BY <1>1, <1>a, <2>1, NodeMoves, CommitWrites DEF OneNodePerToken
  <2>2. CASE CommitAuthority
    <3>1. \A k \in DOMAIN nodes : nodes[k].attempt.token # txn.attempt.token
      <4>1. \A k \in DOMAIN nodes : tokens[nodes[k].attempt.token] \in Attempts
        BY <1>a DEF TokenInv, TypeOK, NodeType
      <4> QED
        BY <4>1, <2>2, CommitWrites, TokenRecords
    <3> QED
      BY <1>1, <2>1, <2>2, <3>1, CommitWrites
  <2> QED
    BY <2>1, <2>2, NodeMoves
<1>2. ASSUME NEW a \in Attempts, answered'[a] # NoNode
      PROVE  answered'[a] \in DOMAIN nodes' /\ nodes'[answered'[a]].attempt = a /\ tokens'[a.token] = a
  <2>1. answered'[a] \in DOMAIN nodes /\ nodes[answered'[a]].attempt = a /\ tokens[a.token] = a
    <3>1. CASE answered'[a] = answered[a]
      BY <1>2, <1>a, <3>1 DEF OneNodePerToken
    <3>2. CASE answered'[a] # answered[a]
      <4>1. PICK b \in Attempts : tokens[b.token] = b /\ Tell(b, NodeOf(b.token))
        BY <3>2, AgentMoves
      <4>2. a = b /\ answered'[a] = NodeOf(a.token)
        BY <3>2, <4>1, <1>a DEF Tell, TypeOK
      <4> QED
        BY <4>1, <4>2, <1>a, NodeOfFinds
    <3> QED
      BY <3>1, <3>2
  <2>2. a.token \in Tokens
    BY DEF Attempts
  <2>3. tokens'[a.token] = a
    BY <2>1, <2>2, OwnedTokenStays
  <2> QED
    BY <2>1, <2>3, NodeMoves, CommitWrites
<1> QED
  BY <1>1, <1>2 DEF OneNodePerToken

(* A request keeps what it found: the lock excludes every other write of tokens. *)
LEMMA BootstrapStep == Inv /\ [Next]_vars => BootstrapInv'
<1> SUFFICES ASSUME Inv, [Next]_vars PROVE BootstrapInv'
  OBVIOUS
<1>a. TypeOK /\ BootstrapInv
  BY DEF Inv
<1>1. ASSUME NEW a \in Attempts, BootstrapBind(a) PROVE BootstrapInv'
  BY <1>1 DEF BootstrapBind, BootstrapInv, Consumed
<1>2. ASSUME WriteFuse PROVE BootstrapInv'
  <2>1. txn' = [txn EXCEPT !.step = "commit"] /\ txn.kind = "bootstrap" /\ txn.step = "fuse"
          /\ tokens' = tokens /\ fuse' = fuse \cup {txn.attempt.token}
    BY <1>2 DEF WriteFuse
  <2>2. txn'.attempt = txn.attempt /\ txn'.step = "commit"
    BY <2>1, <1>a, TxnKinds
  <2> QED
    BY <1>a, <2>1, <2>2 DEF BootstrapInv
<1>3. ASSUME CommitAuthority PROVE BootstrapInv'
  <2>1. txn'.attempt = txn.attempt /\ txn'.step = "answer" /\ fuse' = fuse
    BY <1>3, <1>a, TxnKinds DEF CommitAuthority
  <2> QED
    BY <1>3, <2>1, CommitWrites DEF BootstrapInv
<1>4. ASSUME txn' = txn PROVE BootstrapInv'
  <2>1. txn.kind = "bootstrap" => tokens' = tokens
    <3>1. CASE CommitAuthority
      BY <3>1, <1>4, <1>a, TxnKinds DEF CommitAuthority
    <3> QED
      BY <3>1, TokenMoves
  <2> QED
    BY <1>4, <1>a, <2>1, FuseGrows DEF BootstrapInv
<1>5. ASSUME txn'.kind # "bootstrap" PROVE BootstrapInv'
  BY <1>5 DEF BootstrapInv
<1>6. ASSUME NEW a \in Attempts, BootstrapReplay(a) \/ HeartbeatRefused(a) \/ AgentDies(a) \/ HeartbeatRecord(a)
      PROVE  txn' = txn \/ txn'.kind # "bootstrap"
  BY <1>6 DEF BootstrapReplay, HeartbeatRefused, AgentDies, HeartbeatRecord
<1>7. ASSUME BootstrapAnswer \/ HeartbeatCommit \/ Crash \/ FailMissingHeartbeat \/ Tick
      PROVE  txn' = txn \/ txn'.kind # "bootstrap"
  <2>1. txn' = txn \/ txn' = Idle
    BY <1>7 DEF BootstrapAnswer, HeartbeatCommit, Crash, FailMissingHeartbeat, Tick
  <2> QED
    BY <2>1 DEF Idle
<1>8. ASSUME NEW s \in Sessions, MissingHeartbeat(s) \/ SessionEnds(s) PROVE txn' = txn
  BY <1>8 DEF MissingHeartbeat, SessionEnds
<1>9. ASSUME NEW n \in DOMAIN nodes, StopNode(n) PROVE txn' = txn
  BY <1>9 DEF StopNode
<1> QED
  BY <1>1, <1>2, <1>3, <1>4, <1>5, <1>6, <1>7, <1>8, <1>9 DEF Next, vars

-----------------------------------------------------------------------------
(* What a step does to the binding and the heartbeat of a Session: a binding drops the
   heartbeat, only the bound Node's heartbeat sets one, and no other step creates one or
   makes one disappear. *)
LEMMA SessionMoves ==
  ASSUME Inv, [Next]_vars, NEW s \in Sessions
  PROVE  \/ sess'[s].beat = Never /\ txn = Idle
         \/ \E a \in Attempts : /\ HeartbeatRecord(a)
                                 /\ nodes[answered[a]].session = s
                                 /\ SessionAccepts(s, answered[a], a.boot)
                                 /\ sess'[s] = [sess[s] EXCEPT !.beat = 0]
         \/ /\ sess'[s].node = sess[s].node
            /\ sess'[s].boot = sess[s].boot
            /\ sess'[s].beat = Never <=> sess[s].beat = Never
<1>a. TypeOK /\ sess[s] \in SessionType
  BY DEF Inv, TypeOK
<1> DEFINE Same == /\ sess'[s].node = sess[s].node
                   /\ sess'[s].boot = sess[s].boot
                   /\ sess'[s].beat = Never <=> sess[s].beat = Never
<1>1. ASSUME NEW a \in Attempts, BootstrapReplay(a) \/ HeartbeatRefused(a) \/ AgentDies(a) PROVE sess' = sess
  BY <1>1 DEF BootstrapReplay, HeartbeatRefused, AgentDies
<1>2. ASSUME NEW a \in Attempts, BootstrapBind(a) PROVE Same \/ (sess'[s].beat = Never /\ txn = Idle)
  <2>1. CASE sess' = sess
    BY <2>1
  <2>2. CASE sess' = [sess EXCEPT ![SessionOf[a.boot]] = BoundRecord(@, nextSeq, a.boot)]
    <3>1. CASE s = SessionOf[a.boot]
      BY <1>2, <2>2, <3>1, <1>a DEF TypeOK, BootstrapBind, BoundRecord, SessionType
    <3>2. CASE s # SessionOf[a.boot]
      BY <2>2, <3>2, <1>a DEF TypeOK
    <3> QED
      BY <3>1, <3>2
  <2> QED
    BY <1>2, <2>1, <2>2 DEF BootstrapBind
<1>3. ASSUME NEW a \in Attempts, HeartbeatRecord(a)
      PROVE  Same \/ (/\ nodes[answered[a]].session = s
                      /\ SessionAccepts(s, answered[a], a.boot)
                      /\ sess'[s] = [sess[s] EXCEPT !.beat = 0])
  BY <1>3, <1>a DEF HeartbeatRecord, TypeOK
<1>4. ASSUME WriteFuse \/ CommitAuthority \/ BootstrapAnswer \/ HeartbeatCommit \/ Crash PROVE sess' = sess
  BY <1>4 DEF WriteFuse, CommitAuthority, BootstrapAnswer, HeartbeatCommit, Crash
<1>5. ASSUME NEW n \in DOMAIN nodes, StopNode(n) PROVE sess' = sess
  BY <1>5 DEF StopNode
<1>6. ASSUME NEW r \in Sessions, MissingHeartbeat(r) PROVE sess' = sess
  BY <1>6 DEF MissingHeartbeat
<1>7. ASSUME NEW r \in Sessions, sess' = [sess EXCEPT ![r].active = FALSE] PROVE Same
  BY <1>7, <1>a DEF TypeOK, SessionType
<1>8. ASSUME NEW r \in Sessions, SessionEnds(r) PROVE Same
  BY <1>8, <1>7 DEF SessionEnds
<1>9. ASSUME FailMissingHeartbeat PROVE Same
  <2>1. StillMissing => look.session \in Sessions
    BY DEF Inv, LookInv, StillMissing
  <2> QED
    BY <1>9, <1>7, <2>1 DEF FailMissingHeartbeat
<1>10. ASSUME Tick PROVE Same
  <2>1. sess[s].beat \in Ages
    BY <1>a DEF SessionType
  <2>2. sess'[s] = [sess[s] EXCEPT !.beat = Older(@), !.reg = Older(@)]
    BY <1>10 DEF Tick
  <2>3. /\ sess'[s].node = sess[s].node /\ sess'[s].boot = sess[s].boot
        /\ sess'[s].beat = Older(sess[s].beat)
    BY <2>2, <1>a DEF SessionType
  <2> QED
    BY <2>1, <2>3, OlderAge
<1>11. sess' = sess => Same
  OBVIOUS
<1> HIDE DEF Same
<1>12. \/ Same
       \/ sess'[s].beat = Never /\ txn = Idle
       \/ \E a \in Attempts : /\ HeartbeatRecord(a)
                               /\ nodes[answered[a]].session = s
                               /\ SessionAccepts(s, answered[a], a.boot)
                               /\ sess'[s] = [sess[s] EXCEPT !.beat = 0]
  BY <1>1, <1>2, <1>3, <1>4, <1>5, <1>6, <1>8, <1>9, <1>10, <1>11 DEF Next, vars
<1> QED
  BY <1>12 DEF Same

(* A Node id that was bound and never committed carries no heartbeat. *)
LEMMA HeartbeatOwnStep == Inv /\ [Next]_vars => HeartbeatIsOwn'
<1> SUFFICES ASSUME Inv, [Next]_vars, NEW s \in Sessions, sess'[s].beat # Never
             PROVE  /\ sess'[s].node \in DOMAIN nodes'
                    /\ nodes'[sess'[s].node].session = s
                    /\ nodes'[sess'[s].node].attempt.boot = sess'[s].boot
  BY DEF HeartbeatIsOwn
<1>a. TypeOK /\ HeartbeatIsOwn /\ TokenInv /\ OneNodePerToken /\ sess[s] \in SessionType
  BY DEF Inv, TypeOK
<1>1. /\ sess'[s].node = sess[s].node /\ sess'[s].boot = sess[s].boot
      /\ sess[s].node \in DOMAIN nodes
      /\ nodes[sess[s].node].session = s
      /\ nodes[sess[s].node].attempt.boot = sess[s].boot
  <2>1. CASE \E a \in Attempts : /\ HeartbeatRecord(a)
                                 /\ nodes[answered[a]].session = s
                                 /\ SessionAccepts(s, answered[a], a.boot)
                                 /\ sess'[s] = [sess[s] EXCEPT !.beat = 0]
    <3>1. PICK a \in Attempts : /\ HeartbeatRecord(a)
                                /\ nodes[answered[a]].session = s
                                /\ SessionAccepts(s, answered[a], a.boot)
                                /\ sess'[s] = [sess[s] EXCEPT !.beat = 0]
      BY <2>1
    <3>2. answered[a] \in DOMAIN nodes /\ nodes[answered[a]].attempt = a
      BY <3>1, <1>a DEF HeartbeatRecord, TokenInv, OneNodePerToken
    <3>3. sess[s].node = answered[a] /\ sess[s].boot = a.boot
      BY <3>1 DEF SessionAccepts
    <3>4. sess'[s].node = sess[s].node /\ sess'[s].boot = sess[s].boot
      BY <3>1, <1>a DEF SessionType
    <3> QED
      BY <3>1, <3>2, <3>3, <3>4
  <2>2. CASE sess'[s].node = sess[s].node /\ sess'[s].boot = sess[s].boot /\ sess[s].beat # Never
    BY <2>2, <1>a DEF HeartbeatIsOwn
  <2> QED
    BY <2>1, <2>2, SessionMoves
<1> QED
  BY <1>1, NodeMoves, CommitWrites

(* Between the two writes of a heartbeat the Session keeps the first. *)
LEMMA HeartbeatStep == Inv /\ [Next]_vars => HeartbeatInv'
<1> SUFFICES ASSUME Inv, [Next]_vars, txn'.kind = "heartbeat" PROVE HeartbeatInv'
  BY DEF HeartbeatInv
<1>a. TypeOK /\ HeartbeatInv /\ TokenInv /\ OneNodePerToken
  BY DEF Inv
<1>1. ASSUME NEW a \in Attempts, HeartbeatRecord(a) PROVE HeartbeatInv'
  <2>1. answered[a] # NoNode /\ answered[a] \in DOMAIN nodes
    BY <1>1, <1>a DEF HeartbeatRecord, TokenInv, OneNodePerToken
  <2>2. txn'.attempt = a /\ answered' = answered /\ nodes' = nodes
    BY <1>1 DEF HeartbeatRecord
  <2>3. ASSUME nodes[answered[a]].session # NoSession PROVE sess'[nodes[answered[a]].session].beat # Never
    <3> DEFINE s == nodes[answered[a]].session
    <3>1. s \in Sessions
      BY <2>1, <2>3, <1>a DEF TypeOK, NodeType
    <3>2. sess[s] \in SessionType
      BY <3>1, <1>a DEF TypeOK
    <3>3. sess'[s] = [sess[s] EXCEPT !.beat = 0]
      BY <1>1, <2>3, <3>1, <1>a DEF HeartbeatRecord, TypeOK
    <3>4. sess'[s].beat = 0
      BY <3>2, <3>3 DEF SessionType
    <3> QED
      BY <3>4, GraceAssumption DEF Never
  <2> QED
    BY <2>1, <2>2, <2>3 DEF HeartbeatInv
<1>2. ASSUME txn' = txn PROVE HeartbeatInv'
  <2> DEFINE n == answered[txn.attempt]
  <2>1. txn.kind = "heartbeat" /\ txn.attempt \in Attempts
    BY <1>2, <1>a, TxnKinds
  <2>2. n # NoNode /\ n \in DOMAIN nodes
    BY <2>1, <1>a DEF HeartbeatInv, OneNodePerToken
  <2>3. answered'[txn.attempt] = n
    <3>1. CASE answered' = answered
      BY <3>1
    <3>2. CASE \E a \in Attempts : tokens[a.token] = a /\ Tell(a, NodeOf(a.token))
      <4>1. PICK a \in Attempts : tokens[a.token] = a /\ Tell(a, NodeOf(a.token))
        BY <3>2
      <4>2. CASE a = txn.attempt
        <5>1. NodeOf(a.token) \in DOMAIN nodes /\ nodes[NodeOf(a.token)].attempt = a
          BY <4>1, <1>a, NodeOfFinds
        <5>2. nodes[n].attempt = a
          BY <2>1, <2>2, <4>2, <1>a DEF OneNodePerToken
        <5>3. NodeOf(a.token) = n
          BY <5>1, <5>2, <2>2, <1>a DEF OneNodePerToken
        <5> QED
          BY <4>1, <4>2, <5>3, <1>a DEF Tell, TypeOK
      <4>3. CASE a # txn.attempt
        BY <4>1, <4>3, <2>1, <1>a DEF Tell, TypeOK
      <4> QED
        BY <4>2, <4>3
    <3> QED
      BY <3>1, <3>2, AgentMoves
  <2>4. n \in DOMAIN nodes' /\ nodes'[n].session = nodes[n].session
    BY <2>2, NodeMoves, CommitWrites
  <2>5. ASSUME nodes[n].session # NoSession PROVE sess'[nodes[n].session].beat # Never
    <3>1. nodes[n].session \in Sessions
      BY <2>2, <2>5, <1>a DEF TypeOK, NodeType
    <3>2. sess[nodes[n].session].beat # Never
      BY <2>1, <2>5, <1>a DEF HeartbeatInv
    <3>3. txn # Idle
      BY <2>1, <1>a, TxnKinds
    <3>4. \A a \in Attempts : ~HeartbeatRecord(a)
      BY <3>3 DEF HeartbeatRecord
    <3> QED
      BY <3>1, <3>2, <3>3, <3>4, SessionMoves
  <2> QED
    BY <1>2, <2>2, <2>3, <2>4, <2>5 DEF HeartbeatInv
<1>3. \A a \in Attempts : BootstrapReplay(a) \/ HeartbeatRefused(a) \/ AgentDies(a) => txn' = txn
  BY DEF BootstrapReplay, HeartbeatRefused, AgentDies
<1>4. \A a \in Attempts : ~BootstrapBind(a)
  BY DEF BootstrapBind
<1>5. ~WriteFuse /\ ~CommitAuthority
  BY <1>a, TxnKinds DEF WriteFuse, CommitAuthority
<1>6. ~BootstrapAnswer /\ ~HeartbeatCommit /\ ~Crash
  BY DEF BootstrapAnswer, HeartbeatCommit, Crash, Idle
<1>7. FailMissingHeartbeat \/ Tick => txn' = txn
  BY DEF FailMissingHeartbeat, Tick
<1>8. \A s \in Sessions : MissingHeartbeat(s) \/ SessionEnds(s) => txn' = txn
  BY DEF MissingHeartbeat, SessionEnds
<1>9. \A n \in DOMAIN nodes : StopNode(n) => txn' = txn
  BY DEF StopNode
<1> QED
  BY <1>1, <1>2, <1>3, <1>4, <1>5, <1>6, <1>7, <1>8, <1>9 DEF Next, vars

-----------------------------------------------------------------------------
(* The missed heartbeat of a Session that no step has written stays missed: a Node that
   is committed has none yet, one that reports is the Node of a Session with a heartbeat
   of its own, and time passes no grace twice. *)
LEMMA BaselineStays ==
  ASSUME Inv, [Next]_vars, NEW r \in Sessions, Baseline(r) = Grace,
         sess'[r] = sess[r] \/ Tick
  PROVE  Baseline(r)' = Grace
<1>a. TypeOK /\ sess[r] \in SessionType
  BY DEF Inv, TypeOK
<1>b. ASSUME sess'[r] = sess[r], NodeBeat(r)' = NodeBeat(r) \/ sess[r].beat # Never
      PROVE  Baseline(r)' = Grace
  <2>1. Never' = Never
    BY DEF Never
  <2>2. CASE sess[r].beat # Never
    BY <1>b, <2>1, <2>2 DEF Baseline
  <2>3. CASE sess[r].beat = Never /\ NodeBeat(r)' = NodeBeat(r)
    BY <1>b, <2>1, <2>3 DEF Baseline
  <2> QED
    BY <1>b, <2>2, <2>3
<1>1. ASSUME nodes' = nodes, sess'[r] = sess[r] PROVE Baseline(r)' = Grace
  BY <1>b, <1>1 DEF NodeBeat, Never
<1>2. ASSUME CommitAuthority PROVE Baseline(r)' = Grace
  <2>1. sess' = sess
    BY <1>2 DEF CommitAuthority
  <2>2. CASE sess[r].node = nextSeq
    <3>1. NodeBeat(r) = Never
      BY <2>2, <1>2, CommitWrites DEF NodeBeat
    <3>2. nodes'[nextSeq].beat = Never
      BY <1>2, CommitWrites DEF NodeRecord
    <3>3. NodeBeat(r)' = Never
      BY <2>1, <2>2, <3>2 DEF NodeBeat, Never
    <3> QED
      BY <1>b, <2>1, <3>1, <3>3
  <2>3. CASE sess[r].node # nextSeq
    <3>1. sess[r].node \in DOMAIN nodes' <=> sess[r].node \in DOMAIN nodes
      BY <2>3, <1>2, CommitWrites
    <3>2. sess[r].node \in DOMAIN nodes => nodes'[sess[r].node] = nodes[sess[r].node]
      BY <1>2, CommitWrites
    <3>3. NodeBeat(r)' = NodeBeat(r)
      BY <2>1, <3>1, <3>2 DEF NodeBeat, Never
    <3> QED
      BY <1>b, <2>1, <3>3
  <2> QED
    BY <2>2, <2>3
<1>3. ASSUME HeartbeatCommit PROVE Baseline(r)' = Grace
  <2> DEFINE n == answered[txn.attempt]
  <2>1. sess' = sess /\ nodes' = [nodes EXCEPT ![n].beat = 0] /\ txn.kind = "heartbeat"
    BY <1>3 DEF HeartbeatCommit
  <2>2. DOMAIN nodes' = DOMAIN nodes
    BY <2>1
  <2>3. nodes[n].session # NoSession => sess[nodes[n].session].beat # Never
    BY <2>1 DEF Inv, HeartbeatInv
  <2>4. CASE sess[r].node = n /\ nodes[n].session = r
    <3>1. sess[r].beat # Never
      BY <2>3, <2>4, SessionsAssumption DEF NoSession
    <3> QED
      BY <1>b, <2>1, <3>1
  <2>5. CASE sess[r].node = n /\ nodes[n].session # r
    <3>1. n \in DOMAIN nodes => nodes'[n].session # r
      BY <2>1, <2>5, <1>a DEF TypeOK, NodeType
    <3>2. NodeBeat(r)' = Never /\ NodeBeat(r) = Never
      BY <2>1, <2>2, <2>5, <3>1 DEF NodeBeat, Never
    <3> QED
      BY <1>b, <2>1, <3>2
  <2>6. CASE sess[r].node # n
    <3>1. sess[r].node \in DOMAIN nodes => nodes'[sess[r].node] = nodes[sess[r].node]
      BY <2>1, <2>6
    <3>2. NodeBeat(r)' = NodeBeat(r)
      <4>1. sess' = sess
        BY <2>1
      <4> QED
        BY <4>1, <2>2, <3>1 DEF NodeBeat, Never
    <3> QED
      BY <1>b, <2>1, <3>2
  <2> QED
    BY <2>4, <2>5, <2>6
<1>4. ASSUME NEW n \in DOMAIN nodes, StopNode(n) PROVE Baseline(r)' = Grace
  <2>1. sess' = sess /\ DOMAIN nodes' = DOMAIN nodes
    BY <1>4 DEF StopNode
  <2>2. \A m \in DOMAIN nodes : nodes'[m].beat = nodes[m].beat /\ nodes'[m].session = nodes[m].session
    BY <1>4, <1>a DEF StopNode, TypeOK, NodeType
  <2>3. NodeBeat(r)' = NodeBeat(r)
    BY <2>1, <2>2 DEF NodeBeat, Never
  <2> QED
    BY <1>b, <2>1, <2>3
<1>5. ASSUME Tick PROVE Baseline(r)' = Grace
  <2>1. /\ sess'[r].node = sess[r].node
        /\ sess'[r].beat = Older(sess[r].beat)
        /\ sess'[r].reg = Older(sess[r].reg)
    <3>1. sess'[r] = [sess[r] EXCEPT !.beat = Older(@), !.reg = Older(@)]
      BY <1>5 DEF Tick
    <3> QED
      BY <3>1, <1>a DEF SessionType
  <2>2. sess[r].beat \in Ages /\ sess[r].reg \in Ages
    BY <1>a, GraceAssumption DEF SessionType, Ages
  <2>3. DOMAIN nodes' = DOMAIN nodes
    BY <1>5 DEF Tick
  <2>4. \A m \in DOMAIN nodes : /\ nodes'[m].beat = Older(nodes[m].beat)
                                /\ nodes'[m].session = nodes[m].session
                                /\ nodes[m].beat \in Ages
    BY <1>5, <1>a DEF Tick, TypeOK, NodeType
  <2>5. Never \in Ages /\ Older(Never) = Never
    BY GraceAssumption DEF Never, Ages, Older
  <2>6. NodeBeat(r) \in Ages /\ NodeBeat(r)' = Older(NodeBeat(r))
    BY <2>1, <2>3, <2>4, <2>5 DEF NodeBeat, Never
  <2>7. Never' = Never
    BY DEF Never
  <2> QED
    BY <2>1, <2>2, <2>6, <2>7, OlderAge DEF Baseline
<1>6. ASSUME NEW a \in Attempts, BootstrapReplay(a) \/ BootstrapBind(a) \/ HeartbeatRecord(a)
                                    \/ HeartbeatRefused(a) \/ AgentDies(a)
      PROVE  nodes' = nodes
  BY <1>6 DEF BootstrapReplay, BootstrapBind, HeartbeatRecord, HeartbeatRefused, AgentDies
<1>7. ASSUME WriteFuse \/ BootstrapAnswer \/ Crash \/ FailMissingHeartbeat PROVE nodes' = nodes
  BY <1>7 DEF WriteFuse, BootstrapAnswer, Crash, FailMissingHeartbeat
<1>8. ASSUME NEW s \in Sessions, MissingHeartbeat(s) \/ SessionEnds(s) PROVE nodes' = nodes
  BY <1>8 DEF MissingHeartbeat, SessionEnds
<1> HIDE DEF Baseline
<1> QED
  BY <1>1, <1>2, <1>3, <1>4, <1>5, <1>6, <1>7, <1>8 DEF Next, vars

(* A snapshot that is still current was outdated by no write of its Session. *)
LEMMA CurrentLook ==
  ASSUME Inv, [Next]_vars, look'.current
  PROVE  \/ \E s \in Sessions : MissingHeartbeat(s)
         \/ /\ look' = look
            /\ sess'[look.session] = sess[look.session] \/ Tick \/ ~sess'[look.session].active
<1>a. TypeOK
  BY DEF Inv
<1>b. look' = look => look.session \in Sessions
  BY DEF Inv, LookInv
<1>1. ASSUME NEW s \in Sessions, Outdate(s) PROVE look' = look /\ look.session # s
  BY <1>1, <1>a DEF Outdate, TypeOK
<1>2. ASSUME NEW a \in Attempts, BootstrapBind(a)
      PROVE  look' = look /\ sess'[look.session] = sess[look.session]
  <2>1. SessionOf[a.boot] \in Sessions
    BY SessionOfAssumption DEF Attempts
  <2> QED
    BY <1>2, <1>1, <2>1, <1>a, <1>b DEF BootstrapBind, TypeOK
<1>3. ASSUME NEW a \in Attempts, HeartbeatRecord(a)
      PROVE  look' = look /\ sess'[look.session] = sess[look.session]
  <2>1. nodes[answered[a]].session \in Sessions \cup {NoSession}
    BY <1>3, <1>a DEF HeartbeatRecord, TypeOK, NodeType, Inv, TokenInv, OneNodePerToken
  <2>2. CASE nodes[answered[a]].session = NoSession
    BY <2>2, <1>3 DEF HeartbeatRecord
  <2>3. CASE nodes[answered[a]].session # NoSession
    BY <2>1, <2>3, <1>3, <1>1, <1>a, <1>b DEF HeartbeatRecord, TypeOK
  <2> QED
    BY <2>2, <2>3
<1>4. ~FailMissingHeartbeat
  BY DEF FailMissingHeartbeat, NoLook
<1>5. ASSUME NEW s \in Sessions, SessionEnds(s)
      PROVE  look' = look /\ (sess'[look.session] = sess[look.session] \/ ~sess'[look.session].active)
  BY <1>5, <1>a DEF SessionEnds, TypeOK, SessionType
<1>6. Tick => look' = look
  BY DEF Tick
<1>7. ASSUME NEW a \in Attempts, BootstrapReplay(a) \/ HeartbeatRefused(a) \/ AgentDies(a)
      PROVE  look' = look /\ sess' = sess
  BY <1>7 DEF BootstrapReplay, HeartbeatRefused, AgentDies
<1>8. ASSUME WriteFuse \/ CommitAuthority \/ BootstrapAnswer \/ HeartbeatCommit \/ Crash
      PROVE  look' = look /\ sess' = sess
  BY <1>8 DEF WriteFuse, CommitAuthority, BootstrapAnswer, HeartbeatCommit, Crash
<1>9. ASSUME NEW n \in DOMAIN nodes, StopNode(n) PROVE look' = look /\ sess' = sess
  BY <1>9 DEF StopNode
<1> QED
  BY <1>2, <1>3, <1>4, <1>5, <1>6, <1>7, <1>8, <1>9 DEF Next, vars

LEMMA LookStep == Inv /\ [Next]_vars => LookInv'
<1> SUFFICES ASSUME Inv, [Next]_vars, look'.current
             PROVE  /\ look'.session \in Sessions
                    /\ sess'[look'.session].active => Baseline(look.session)' = Grace
  BY DEF LookInv
<1>1. ASSUME NEW s \in Sessions, MissingHeartbeat(s)
      PROVE  look'.session = s /\ Baseline(look.session)' = Grace
  BY <1>1 DEF MissingHeartbeat, Baseline, NodeBeat, Never
<1>2. ASSUME look' = look, sess'[look.session] = sess[look.session] \/ Tick, sess'[look.session].active
      PROVE  look.session \in Sessions /\ Baseline(look.session)' = Grace
  <2>1. look.session \in Sessions
    BY <1>2 DEF Inv, LookInv
  <2>2. sess[look.session].active
    <3>1. sess[look.session] \in SessionType
      BY <2>1 DEF Inv, TypeOK
    <3>2. Tick => sess'[look.session] = [sess[look.session] EXCEPT !.beat = Older(@), !.reg = Older(@)]
      BY <2>1 DEF Tick
    <3> QED
      BY <1>2, <3>1, <3>2 DEF SessionType
  <2>3. Baseline(look.session) = Grace
    BY <1>2, <2>2 DEF Inv, LookInv
  <2>4. \A r \in Sessions : Baseline(r) = Grace /\ (sess'[r] = sess[r] \/ Tick) => Baseline(r)' = Grace
    BY BaselineStays
  <2>5. Baseline(look.session)' = Grace
    BY <1>2, <2>1, <2>3, <2>4 DEF Baseline, NodeBeat
  <2> QED
    BY <2>1, <2>5
<1>3. look' = look => look.session \in Sessions
  BY DEF Inv, LookInv
<1> QED
  BY <1>1, <1>2, <1>3, CurrentLook

-----------------------------------------------------------------------------
LEMMA InvStep == Inv /\ [Next]_vars => Inv'
  BY TypeStep, RollbackStep, OneNodeStep, HeartbeatOwnStep, TokenStep, BootstrapStep, HeartbeatStep,
     LookStep DEF Inv

(* Wherever the Control API dies between the writes of sessions.json, the fuse and
   nodes.json, a token has one Node, an attempt finds its own, and a heartbeat on record
   is the bound Node's. *)
THEOREM AuthorityHolds == Spec => []Inv
<1>1. Init => Inv
  BY InitInv
<1>2. Inv /\ [Next]_vars => Inv'
  BY InvStep
<1> QED
  BY <1>1, <1>2, PTL DEF Spec

(* A rollback to the build that reads only the fuse accepts no token a second time. *)
THEOREM RollbackHolds == Spec => []RollbackRefusesConsumed
<1>1. Inv => RollbackRefusesConsumed
  BY DEF Inv
<1> QED
  BY <1>1, AuthorityHolds, PTL

(* transition_if_current fails a Session only while its heartbeat is really missing. *)
THEOREM ReaperHolds == Spec => ReaperSparesServed
<1> DEFINE Spares == \A s \in Sessions : FailMissingHeartbeat /\ sess[s].active /\ ~sess'[s].active
                       => Baseline(s) = Grace
<1>1. Inv => Spares
  <2> SUFFICES ASSUME Inv, NEW s \in Sessions, FailMissingHeartbeat, sess[s].active, ~sess'[s].active
               PROVE  Baseline(s) = Grace
    OBVIOUS
  <2>1. StillMissing /\ sess' = [sess EXCEPT ![look.session].active = FALSE]
    BY DEF FailMissingHeartbeat
  <2>2. look.session = s
    BY <2>1 DEF Inv, TypeOK
  <2> QED
    BY <2>1, <2>2 DEF Inv, LookInv, StillMissing
<1>2. Inv => [Spares]_vars
  BY <1>1
<1> QED
  BY <1>2, AuthorityHolds, PTL DEF ReaperSparesServed
=============================================================================
