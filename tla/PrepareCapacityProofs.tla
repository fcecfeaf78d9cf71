-------------------------- MODULE PrepareCapacityProofs --------------------------
(***************************************************************************)
(* The capacity of a user and the binding of a Session, for any number of  *)
(* requests, Sessions, users and keys and every limit.                     *)
(***************************************************************************)
EXTENDS PrepareCapacity, FiniteSetTheorems, TLAPS

(* Initially nothing is bound and the legacy Sessions fit the limits. *)
LEMMA InitInv == Init => Inv
<1> SUFFICES ASSUME Init PROVE Inv
  OBVIOUS
<1>1. \A u \in Users : LegacyRecord(u) \in Record /\ LegacyRecord(u).key = None
  BY DEF LegacyRecord, Absent, Record, Statuses
<1>2. Absent \in Record /\ Absent.key = None
  BY DEF Absent, Record, Statuses
<1>3. sessions \in [SessionIds -> Record] /\ \A s \in SessionIds : sessions[s].key = None
  BY <1>1, <1>2 DEF Init
<1>4. TypeOK
  BY <1>3, BoundsAssumption DEF Init, TypeOK, Steps, Request
<1>5. LimitInv
  <2>1. \A u \in Users : limit[u] \in Nat /\ granted[u] = limit[u]
    BY LimitsAssumption DEF Init
  <2>2. \A p \in Requests : pc[p] = "idle"
    BY DEF Init
  <2> QED
    BY <2>1, <2>2 DEF LimitInv
<1>6. CapacityRespected
  BY DEF Init, CapacityRespected
<1>7. SlotHeldUntilOver
  BY <1>3 DEF Init, SlotHeldUntilOver
<1>8. BoundInv /\ ClaimIsAsAsked
  BY <1>3 DEF Init, BoundInv, ClaimIsAsAsked
<1> QED
  BY <1>4, <1>5, <1>6, <1>7, <1>8 DEF Inv

(* Every step keeps the types. *)
LEMMA TypeStep == TypeOK /\ [Next]_vars => TypeOK'
<1> SUFFICES ASSUME TypeOK, [Next]_vars PROVE TypeOK'
  OBVIOUS
<1> USE DEF TypeOK
<1>a. NoRequest \in Request
  BY DEF Request
<1>1. ASSUME NEW p \in Requests, NEW u \in Users, NEW s \in SessionIds, NEW k \in Keys,
             NEW c \in Configs, ReceivePrepare(p, u, s, k, c)
      PROVE  TypeOK'
  <2> DEFINE q == [user |-> u, session |-> s, key |-> k, config |-> c]
  <2>1. q \in Request /\ q # NoRequest
    BY NoneAssumption DEF Request, NoRequest
  <2>2. req' = [req EXCEPT ![p] = q] /\ pc' \in [Requests -> Steps]
          /\ \A r \in Requests : pc'[r] # "idle" => r = p \/ pc[r] # "idle"
    BY <1>1 DEF ReceivePrepare, Goto, Steps
  <2> QED
    BY <1>1, <2>1, <2>2 DEF ReceivePrepare
<1>2. ASSUME NEW p \in Requests, ReadEntitlement(p) PROVE TypeOK'
  <2>1. limit[req[p].user] \in Nat \/ req[p] = NoRequest
    BY LimitsAssumption DEF Request
  <2> QED
    BY <1>2, <1>a, <2>1 DEF ReadEntitlement, Answer, Goto, Steps
<1>3. ASSUME NEW p \in Requests, Bind(p) PROVE TypeOK'
  <2>1. req[p] \in Request /\ req[p] # NoRequest
    BY <1>3 DEF Bind
  <2>2. sessions' \in [SessionIds -> Record]
    BY <1>3, <2>1 DEF Bind, Request, Record
  <2> QED
    BY <1>3, <2>2 DEF Bind, Goto, Steps
<1>4. ASSUME NEW p \in Requests, JoinReplay(p) PROVE TypeOK'
  BY <1>4, <1>a DEF JoinReplay, Answer, Goto, Steps
<1>5. ASSUME NEW p \in Requests, Refuse(p) PROVE TypeOK'
  BY <1>5, <1>a DEF Refuse, Answer, Goto, Steps
<1>6. ASSUME NEW p \in Requests, ClaimProvisioning(p) PROVE TypeOK'
  <2>1. req[p].session \in SessionIds
    BY <1>6 DEF ClaimProvisioning, Request
  <2>2. [sessions EXCEPT ![req[p].session].status = "ACTIVE"] \in [SessionIds -> Record]
    BY <2>1 DEF Record, Statuses
  <2>3. sessions' \in [SessionIds -> Record]
    BY <1>6, <2>2 DEF ClaimProvisioning
  <2> QED
    BY <1>6, <1>a, <2>3 DEF ClaimProvisioning, Answer, Goto, Steps
<1>7. ASSUME NEW p \in Requests, Crash(p) PROVE TypeOK'
  BY <1>7, <1>a, BoundsAssumption DEF Crash, Answer, Goto, Steps
<1>8. ASSUME NEW s \in SessionIds, SessionEnds(s) \/ SessionCloses(s) PROVE TypeOK'
  <2>1. sessions' \in [SessionIds -> Record]
    BY <1>8 DEF SessionEnds, SessionCloses, Record, Statuses
  <2> QED
    BY <1>8, <2>1 DEF SessionEnds, SessionCloses
<1>9. ASSUME NEW s \in SessionIds, CleanupClaims(s) \/ CleanupReleases(s) PROVE TypeOK'
  BY <1>9, BoundsAssumption DEF CleanupClaims, CleanupReleases
<1>10. ASSUME NEW u \in Users, NEW n \in Limits, SetEntitlement(u, n) PROVE TypeOK'
  BY <1>10 DEF SetEntitlement
<1>11. CASE UNCHANGED vars
  BY <1>11 DEF vars
<1> QED
  BY <1>1, <1>2, <1>3, <1>4, <1>5, <1>6, <1>7, <1>8, <1>9, <1>10, <1>11 DEF Next, RequestStep

-----------------------------------------------------------------------------
(* A limit that a request has read stays within what was granted. *)
LEMMA LimitStep == TypeOK /\ LimitInv /\ [Next]_vars => LimitInv'
<1> SUFFICES ASSUME TypeOK, LimitInv, [Next]_vars PROVE LimitInv'
  OBVIOUS
<1> USE DEF TypeOK, LimitInv
<1>a. \A u \in Users : limit[u] \in Nat /\ granted[u] \in Nat
  BY LimitsAssumption
<1>b. \A p \in Requests : pc[p] # "idle" => req[p].user \in Users
  BY DEF Request
<1>1. ASSUME NEW p \in Requests, NEW u \in Users, NEW s \in SessionIds, NEW k \in Keys,
             NEW c \in Configs, ReceivePrepare(p, u, s, k, c)
      PROVE  LimitInv'
  BY <1>1 DEF ReceivePrepare, Goto
<1>2. ASSUME NEW p \in Requests, ReadEntitlement(p) PROVE LimitInv'
  BY <1>2, <1>a, <1>b DEF ReadEntitlement, Answer, Goto
<1>3. ASSUME NEW p \in Requests, Bind(p) PROVE LimitInv'
  BY <1>3 DEF Bind, Goto
<1>4. ASSUME NEW p \in Requests, JoinReplay(p) \/ Refuse(p) \/ ClaimProvisioning(p) \/ Crash(p)
      PROVE  LimitInv'
  BY <1>4 DEF JoinReplay, Refuse, ClaimProvisioning, Crash, Answer, Goto
<1>5. ASSUME NEW s \in SessionIds,
             SessionEnds(s) \/ SessionCloses(s) \/ CleanupClaims(s) \/ CleanupReleases(s)
      PROVE  LimitInv'
  BY <1>5 DEF SessionEnds, SessionCloses, CleanupClaims, CleanupReleases
<1>6. ASSUME NEW u \in Users, NEW n \in Limits, SetEntitlement(u, n) PROVE LimitInv'
  <2>1. \A v \in Users : limit'[v] <= granted'[v] /\ granted[v] <= granted'[v] /\ granted'[v] \in Nat
    BY <1>6, <1>a, LimitsAssumption DEF SetEntitlement
  <2>2. ASSUME NEW p \in Requests, pc'[p] = "begin" PROVE lim'[p] <= granted'[req'[p].user]
    BY <1>6, <1>a, <1>b, <2>1, <2>2 DEF SetEntitlement
  <2> QED
    BY <2>1, <2>2
<1>7. CASE UNCHANGED vars
  BY <1>7 DEF vars
<1> QED
  BY <1>1, <1>2, <1>3, <1>4, <1>5, <1>6, <1>7 DEF Next, RequestStep

-----------------------------------------------------------------------------
(* The slot of a bound Session. *)
LEMMA SlotStep == TypeOK /\ SlotHeldUntilOver /\ [Next]_vars => SlotHeldUntilOver'
<1> SUFFICES ASSUME TypeOK, SlotHeldUntilOver, [Next]_vars PROVE SlotHeldUntilOver'
  OBVIOUS
<1> USE DEF TypeOK, SlotHeldUntilOver
<1>b. \A p \in Requests : pc[p] # "idle" => req[p].session \in SessionIds /\ req[p].key \in Keys
  BY DEF Request
<1>1. ASSUME NEW p \in Requests, NEW u \in Users, NEW s \in SessionIds, NEW k \in Keys,
             NEW c \in Configs, ReceivePrepare(p, u, s, k, c)
      PROVE  SlotHeldUntilOver'
  <2>1. pc'[p] = "claim" => sessions[s].key # None
    BY <1>1, NoneAssumption DEF ReceivePrepare, Goto
  <2>2. req'[p].session = s
    BY <1>1 DEF ReceivePrepare
  <2> QED
    BY <1>1, <2>1, <2>2 DEF ReceivePrepare, Goto
<1>2. ASSUME NEW p \in Requests, ReadEntitlement(p) \/ Refuse(p) \/ Crash(p) PROVE SlotHeldUntilOver'
  BY <1>2 DEF ReadEntitlement, Refuse, Crash, Answer, Goto
<1>3. ASSUME NEW p \in Requests, Bind(p) PROVE SlotHeldUntilOver'
  <2> DEFINE t == req[p].session
  <2>1. t \in SessionIds /\ req[p].key # None
    BY <1>3, <1>b, NoneAssumption DEF Bind
  <2>2. sessions'[t].key # None /\ sessions'[t].reserved /\ sessions'[t].status # "OVER"
    BY <1>3, <2>1 DEF Bind, MayBegin
  <2>3. \A s \in SessionIds : s # t => sessions'[s] = sessions[s]
    BY <1>3, <2>1 DEF Bind
  <2>4. \A s \in SessionIds :
          sessions'[s].key # None => sessions'[s].reserved = (sessions'[s].status # "OVER")
    BY <2>2, <2>3
  <2>5. \A q \in Requests : pc'[q] = "claim" => sessions'[req'[q].session].key # None
    BY <1>3, <1>b, <2>2, <2>3 DEF Bind, Goto
  <2> QED
    BY <2>4, <2>5
<1>4. ASSUME NEW p \in Requests, JoinReplay(p) PROVE SlotHeldUntilOver'
  BY <1>4 DEF JoinReplay, Bound, Answer, Goto
<1>5. ASSUME NEW p \in Requests, ClaimProvisioning(p) PROVE SlotHeldUntilOver'
  <2> DEFINE t == req[p].session
  <2>1. t \in SessionIds
    BY <1>5, <1>b DEF ClaimProvisioning
  <2>2. \A s \in SessionIds : /\ sessions'[s].key = sessions[s].key
                              /\ sessions'[s].reserved = sessions[s].reserved
                              /\ (sessions'[s].status = "OVER") = (sessions[s].status = "OVER")
    BY <1>5, <2>1 DEF ClaimProvisioning, Record
  <2>3. \A q \in Requests : pc'[q] = "claim" => pc[q] = "claim" /\ req'[q] = req[q]
    BY <1>5 DEF ClaimProvisioning, Answer, Goto
  <2> QED
    BY <1>b, <2>2, <2>3
<1>6. ASSUME NEW s \in SessionIds, SessionEnds(s) \/ SessionCloses(s) PROVE SlotHeldUntilOver'
  <2>1. sessions'[s].key = sessions[s].key
          /\ sessions'[s].reserved = IF sessions'[s].status = "OVER" THEN FALSE ELSE sessions[s].reserved
    BY <1>6 DEF SessionEnds, SessionCloses, Record
  <2>2. sessions[s].status # "OVER" /\ \A r \in SessionIds : r # s => sessions'[r] = sessions[r]
    BY <1>6 DEF SessionEnds, SessionCloses
  <2>3. sessions[s].key # None => sessions[s].reserved = TRUE
    BY <2>2
  <2>4. sessions'[s].key # None => sessions'[s].reserved = (sessions'[s].status # "OVER")
    BY <2>1, <2>3
  <2>5. \A r \in SessionIds :
          sessions'[r].key # None => sessions'[r].reserved = (sessions'[r].status # "OVER")
    BY <2>2, <2>4
  <2>6. \A q \in Requests : pc'[q] = "claim" => sessions'[req'[q].session].key # None
    BY <1>6, <1>b, <2>1, <2>2 DEF SessionEnds, SessionCloses
  <2> QED
    BY <2>5, <2>6
<1>7. ASSUME NEW s \in SessionIds, CleanupClaims(s) \/ CleanupReleases(s) PROVE SlotHeldUntilOver'
  BY <1>7 DEF CleanupClaims, CleanupReleases
<1>8. ASSUME NEW u \in Users, NEW n \in Limits, SetEntitlement(u, n) PROVE SlotHeldUntilOver'
  BY <1>8 DEF SetEntitlement
<1>9. CASE UNCHANGED vars
  BY <1>9 DEF vars
<1> QED
  BY <1>1, <1>2, <1>3, <1>4, <1>5, <1>6, <1>7, <1>8, <1>9 DEF Next, RequestStep

-----------------------------------------------------------------------------
(* Three kinds of steps write the Sessions. *)
LEMMA SessionWrites ==
  ASSUME [Next]_vars
  PROVE  \/ \E p \in Requests : Bind(p) \/ ClaimProvisioning(p)
         \/ \E t \in SessionIds : SessionEnds(t) \/ SessionCloses(t)
         \/ sessions' = sessions
<1>1. ASSUME NEW p \in Requests, NEW u \in Users, NEW s \in SessionIds, NEW k \in Keys,
             NEW c \in Configs, ReceivePrepare(p, u, s, k, c)
      PROVE  sessions' = sessions
  BY <1>1 DEF ReceivePrepare
<1>2. ASSUME NEW p \in Requests, ReadEntitlement(p) \/ JoinReplay(p) \/ Refuse(p) \/ Crash(p)
      PROVE  sessions' = sessions
  BY <1>2 DEF ReadEntitlement, JoinReplay, Refuse, Crash
<1>3. ASSUME NEW s \in SessionIds, CleanupClaims(s) \/ CleanupReleases(s) PROVE sessions' = sessions
  BY <1>3 DEF CleanupClaims, CleanupReleases
<1>4. ASSUME NEW u \in Users, NEW n \in Limits, SetEntitlement(u, n) PROVE sessions' = sessions
  BY <1>4 DEF SetEntitlement
<1>5. CASE UNCHANGED vars
  BY <1>5 DEF vars
<1> QED
  BY <1>1, <1>2, <1>3, <1>4, <1>5 DEF Next, RequestStep

(* A request moves by its own steps only, and reaches the claim by three. *)
LEMMA RequestMoves ==
  ASSUME TypeOK, [Next]_vars, NEW p \in Requests, pc'[p] = "claim"
  PROVE  \/ pc[p] = "claim" /\ req'[p] = req[p]
         \/ Bind(p) \/ JoinReplay(p)
         \/ \E u \in Users, s \in SessionIds, k \in Keys, c \in Configs : ReceivePrepare(p, u, s, k, c)
<1> USE DEF TypeOK, Goto, Answer
<1>1. ASSUME NEW q \in Requests, NEW u \in Users, NEW s \in SessionIds, NEW k \in Keys,
             NEW c \in Configs, ReceivePrepare(q, u, s, k, c), q # p
      PROVE  pc[p] = "claim" /\ req'[p] = req[p]
  BY <1>1 DEF ReceivePrepare
<1>2. ASSUME NEW q \in Requests, Bind(q) \/ JoinReplay(q), q # p
      PROVE  pc[p] = "claim" /\ req'[p] = req[p]
  BY <1>2 DEF Bind, JoinReplay
<1>3. ASSUME NEW q \in Requests, ReadEntitlement(q) \/ Refuse(q) \/ ClaimProvisioning(q) \/ Crash(q)
      PROVE  pc[p] = "claim" /\ req'[p] = req[p]
  BY <1>3 DEF ReadEntitlement, Refuse, ClaimProvisioning, Crash
<1>4. ASSUME NEW s \in SessionIds,
             SessionEnds(s) \/ SessionCloses(s) \/ CleanupClaims(s) \/ CleanupReleases(s)
      PROVE  pc[p] = "claim" /\ req'[p] = req[p]
  BY <1>4 DEF SessionEnds, SessionCloses, CleanupClaims, CleanupReleases
<1>5. ASSUME NEW u \in Users, NEW n \in Limits, SetEntitlement(u, n)
      PROVE  pc[p] = "claim" /\ req'[p] = req[p]
  BY <1>5 DEF SetEntitlement
<1>6. CASE UNCHANGED vars
  BY <1>6 DEF vars
<1> QED
  BY <1>1, <1>2, <1>3, <1>4, <1>5, <1>6 DEF Next, RequestStep

(* What a Session is bound to stays. *)
LEMMA BindingStays ==
  ASSUME TypeOK, [Next]_vars, NEW s \in SessionIds, sessions[s].key # None
  PROVE  /\ sessions'[s].user = sessions[s].user
         /\ sessions'[s].key = sessions[s].key
         /\ sessions'[s].config = sessions[s].config
<1> DEFINE Kept == /\ sessions'[s].user = sessions[s].user
                   /\ sessions'[s].key = sessions[s].key
                   /\ sessions'[s].config = sessions[s].config
<1>1. ASSUME NEW p \in Requests, Bind(p) PROVE Kept
  <2>1. req[p].session \in SessionIds
    BY <1>1 DEF TypeOK, Bind, Request
  <2>2. s # req[p].session
    BY <1>1 DEF Bind, Bound
  <2> QED
    BY <1>1, <2>1, <2>2 DEF TypeOK, Bind
<1>2. ASSUME NEW p \in Requests, ClaimProvisioning(p) PROVE Kept
  BY <1>2 DEF TypeOK, ClaimProvisioning, Record
<1>3. ASSUME NEW t \in SessionIds, SessionEnds(t) \/ SessionCloses(t) PROVE Kept
  BY <1>3 DEF TypeOK, SessionEnds, SessionCloses, Record
<1>4. ASSUME sessions' = sessions PROVE Kept
  BY <1>4
<1> QED
  BY <1>1, <1>2, <1>3, <1>4, SessionWrites

(* A Session that is bound has an owner. *)
LEMMA BoundStep == TypeOK /\ BoundInv /\ [Next]_vars => BoundInv'
<1> SUFFICES ASSUME TypeOK, BoundInv, [Next]_vars, NEW s \in SessionIds, sessions'[s].key # None
             PROVE  sessions'[s].user # None
  BY DEF BoundInv
<1>1. CASE sessions[s].key # None
  BY <1>1, BindingStays DEF BoundInv
<1>2. CASE sessions[s].key = None
  <2>1. ASSUME NEW p \in Requests, Bind(p) PROVE sessions'[s].user # None
    <3>1. req[p].session \in SessionIds /\ req[p].user \in Users
      BY <2>1 DEF TypeOK, Bind, Request
    <3>2. s = req[p].session
      BY <1>2, <2>1, <3>1 DEF Bind, TypeOK
    <3> QED
      BY <2>1, <3>1, <3>2, NoneAssumption DEF Bind, TypeOK, Record
  <2>2. ASSUME NEW p \in Requests, ClaimProvisioning(p) PROVE FALSE
    BY <1>2, <2>2 DEF TypeOK, ClaimProvisioning, Record
  <2>3. ASSUME NEW t \in SessionIds, SessionEnds(t) \/ SessionCloses(t) PROVE FALSE
    <3>1. sessions'[s].key = sessions[s].key
      BY <2>3 DEF TypeOK, SessionEnds, SessionCloses, Record
    <3> QED
      BY <1>2, <3>1
  <2> QED
    BY <1>2, <2>1, <2>2, <2>3, SessionWrites
<1> QED
  BY <1>1, <1>2

(* A request that goes on to provision finds its own parameters. *)
LEMMA AskStep ==
  TypeOK /\ SlotHeldUntilOver /\ BoundInv /\ ClaimIsAsAsked /\ [Next]_vars => ClaimIsAsAsked'
<1> SUFFICES ASSUME TypeOK, SlotHeldUntilOver, BoundInv, ClaimIsAsAsked, [Next]_vars PROVE ClaimIsAsAsked'
  OBVIOUS
<1> DEFINE As(r, q) == r.user = q.user /\ r.key = q.key /\ r.config = q.config
<1>b. \A p \in Requests : pc[p] # "idle" => req[p] \in [user: Users, session: SessionIds, key: Keys, config: Configs]
  BY DEF TypeOK, Request
<1>1. ASSUME NEW p \in Requests, pc[p] = "claim", req'[p] = req[p]
      PROVE  As(sessions'[req'[p].session], req'[p])
  <2>1. req[p].session \in SessionIds /\ sessions[req[p].session].key # None
    BY <1>1, <1>b DEF SlotHeldUntilOver
  <2>2. As(sessions[req[p].session], req[p])
    BY <1>1 DEF ClaimIsAsAsked
  <2> QED
    BY <1>1, <2>1, <2>2, BindingStays
<1>2. ASSUME NEW p \in Requests, pc'[p] = "claim", ~(pc[p] = "claim" /\ req'[p] = req[p])
      PROVE  As(sessions'[req'[p].session], req'[p])
  <2>2. CASE Bind(p)
    <3>1. req[p].session \in SessionIds
      BY <2>2, <1>b DEF Bind
    <3> QED
      BY <2>2, <3>1 DEF Bind, TypeOK, Record
  <2>3. CASE JoinReplay(p)
    <3>1. ~ReplayAnswered(sessions[req[p].session]) /\ req' = req /\ sessions' = sessions
      BY <1>2, <2>3 DEF JoinReplay, Answer, Goto, TypeOK
    <3>2. req[p].session \in SessionIds
      BY <2>3, <1>b DEF JoinReplay
    <3>3. sessions[req[p].session].user # None
      BY <2>3, <3>2 DEF JoinReplay, Bound, BoundInv
    <3> QED
      BY <2>3, <3>1, <3>3 DEF JoinReplay, MayBegin, Exists
  <2>4. ASSUME NEW u \in Users, NEW s \in SessionIds, NEW k \in Keys, NEW c \in Configs,
               ReceivePrepare(p, u, s, k, c)
        PROVE  As(sessions'[req'[p].session], req'[p])
    <3>1. req'[p] = [user |-> u, session |-> s, key |-> k, config |-> c] /\ sessions' = sessions
      BY <2>4 DEF ReceivePrepare, TypeOK
    <3>2. sessions[s].user = u /\ sessions[s].key = k /\ sessions[s].config = c
      BY <1>2, <2>4 DEF ReceivePrepare, Goto, TypeOK
    <3> QED
      BY <3>1, <3>2
  <2> QED
    BY <1>2, <2>2, <2>3, <2>4, RequestMoves
<1> QED
  BY <1>1, <1>2 DEF ClaimIsAsAsked

-----------------------------------------------------------------------------
(* Only Bind lets a user occupy a Session more. *)
LEMMA OccupiedStep ==
  ASSUME TypeOK, SlotHeldUntilOver, [Next]_vars, ~\E p \in Requests : Bind(p), NEW u \in Users
  PROVE  Occupied(u)' \subseteq Occupied(u)
<1> USE DEF TypeOK, Occupied, TakesSlot
<1>1. ASSUME NEW p \in Requests, ClaimProvisioning(p) PROVE Occupied(u)' \subseteq Occupied(u)
  <2> DEFINE t == req[p].session
  <2>1. t \in SessionIds /\ sessions[t].key # None
    BY <1>1 DEF ClaimProvisioning, Request, SlotHeldUntilOver
  <2>2. sessions[t].status = "STOPPED" => sessions[t].reserved
    BY <2>1 DEF SlotHeldUntilOver
  <2>3. \A s \in SessionIds : /\ sessions'[s].user = sessions[s].user
                              /\ sessions'[s].reserved = sessions[s].reserved
                              /\ s # t \/ sessions[s].status # "STOPPED" => sessions'[s] = sessions[s]
    BY <1>1, <2>1 DEF ClaimProvisioning, Record
  <2> QED
    BY <2>2, <2>3
<1>2. ASSUME NEW s \in SessionIds, SessionEnds(s) \/ SessionCloses(s)
      PROVE  Occupied(u)' \subseteq Occupied(u)
  <2>1. sessions[s].status \in {"ACTIVE", "CLEANUP"} /\ sessions'[s].user = sessions[s].user
    BY <1>2 DEF SessionEnds, SessionCloses, Record
  <2>2. \A r \in SessionIds : r # s => sessions'[r] = sessions[r]
    BY <1>2 DEF SessionEnds, SessionCloses
  <2> QED
    BY <2>1, <2>2
<1>3. ASSUME sessions' = sessions PROVE Occupied(u)' \subseteq Occupied(u)
  BY <1>3
<1>4. ASSUME NEW p \in Requests, NEW v \in Users, NEW s \in SessionIds, NEW k \in Keys,
             NEW c \in Configs, ReceivePrepare(p, v, s, k, c)
      PROVE  sessions' = sessions
  BY <1>4 DEF ReceivePrepare
<1>5. ASSUME NEW p \in Requests, ReadEntitlement(p) \/ JoinReplay(p) \/ Refuse(p) \/ Crash(p)
      PROVE  sessions' = sessions
  BY <1>5 DEF ReadEntitlement, JoinReplay, Refuse, Crash
<1>6. ASSUME NEW s \in SessionIds, CleanupClaims(s) \/ CleanupReleases(s) PROVE sessions' = sessions
  BY <1>6 DEF CleanupClaims, CleanupReleases
<1>7. ASSUME NEW v \in Users, NEW n \in Limits, SetEntitlement(v, n) PROVE sessions' = sessions
  BY <1>7 DEF SetEntitlement
<1>8. CASE UNCHANGED vars
  BY <1>8 DEF vars
<1> QED
  BY <1>1, <1>2, <1>3, <1>4, <1>5, <1>6, <1>7, <1>8 DEF Next, RequestStep

(* Bind is let in by a free slot under the limit it read. *)
LEMMA BindStep ==
  ASSUME TypeOK, LimitInv, CapacityRespected, NEW p \in Requests, Bind(p), NEW u \in Users
  PROVE  Cardinality(Occupied(u)') <= granted[u]
<1> DEFINE v == req[p].user
           t == req[p].session
<1>1. v \in Users /\ t \in SessionIds
  BY DEF TypeOK, Bind, Request
<1>2. \A s \in SessionIds : s # t => sessions'[s] = sessions[s]
  BY <1>1 DEF TypeOK, Bind
<1>3. IsFiniteSet(Occupied(u)) /\ IsFiniteSet(Occupied(u)')
  BY SessionIdsAssumption, FS_Subset DEF Occupied
<1>4. granted[u] \in Nat /\ lim[p] \in Nat
  BY LimitsAssumption DEF TypeOK
<1>5. CASE u = v
  <2> DEFINE others == Occupied(u) \ {t}
  <2>1. Occupied(u)' \subseteq others \cup {t}
    BY <1>2 DEF Occupied
  <2>2. IsFiniteSet(others) /\ Cardinality(others) \in Nat /\ Cardinality(others) < lim[p]
    BY <1>3, <1>5, FS_RemoveElement, FS_CardinalityType DEF Bind, HasRoom
  <2>3. IsFiniteSet(others \cup {t}) /\ Cardinality(others \cup {t}) = Cardinality(others) + 1
    BY <2>2, FS_AddElement
  <2>4. Cardinality(Occupied(u)') <= Cardinality(others \cup {t})
    BY <2>1, <2>3, FS_Subset
  <2>5. lim[p] <= granted[u]
    BY <1>5 DEF Bind, LimitInv
  <2>6. Cardinality(Occupied(u)') \in Nat
    BY <1>3, FS_CardinalityType
  <2> QED
    BY <1>4, <2>2, <2>3, <2>4, <2>5, <2>6
<1>6. CASE u # v
  <2>1. sessions'[t].user = v
    BY <1>1 DEF TypeOK, Bind, Record
  <2>2. Occupied(u)' \subseteq Occupied(u)
    BY <1>2, <1>6, <2>1 DEF Occupied
  <2>3. Cardinality(Occupied(u)') <= Cardinality(Occupied(u))
    BY <1>3, <2>2, FS_Subset
  <2>4. Cardinality(Occupied(u)) \in Nat /\ Cardinality(Occupied(u)') \in Nat
    BY <1>3, FS_CardinalityType
  <2> QED
    BY <1>4, <2>3, <2>4 DEF CapacityRespected
<1> QED
  BY <1>5, <1>6

(* What was granted is never taken back. *)
LEMMA GrantedStep ==
  ASSUME TypeOK, [Next]_vars, NEW u \in Users
  PROVE  granted[u] <= granted'[u] /\ granted'[u] \in Nat
<1>1. granted[u] \in Nat
  BY LimitsAssumption DEF TypeOK
<1>2. ASSUME NEW v \in Users, NEW n \in Limits, SetEntitlement(v, n)
      PROVE  granted[u] <= granted'[u] /\ granted'[u] \in Nat
  BY <1>1, <1>2, LimitsAssumption DEF SetEntitlement, TypeOK
<1>3. ASSUME granted' = granted PROVE granted[u] <= granted'[u] /\ granted'[u] \in Nat
  BY <1>1, <1>3
<1>4. (\E v \in Users, n \in Limits : SetEntitlement(v, n)) \/ granted' = granted
  <2>1. ASSUME NEW p \in Requests, RequestStep(p) \/ Crash(p) PROVE granted' = granted
    BY <2>1 DEF RequestStep, ReadEntitlement, Bind, JoinReplay, Refuse, ClaimProvisioning, Crash
  <2>2. ASSUME NEW p \in Requests, NEW v \in Users, NEW s \in SessionIds, NEW k \in Keys,
               NEW c \in Configs, ReceivePrepare(p, v, s, k, c)
        PROVE  granted' = granted
    BY <2>2 DEF ReceivePrepare
  <2>3. ASSUME NEW s \in SessionIds,
               SessionEnds(s) \/ SessionCloses(s) \/ CleanupClaims(s) \/ CleanupReleases(s)
        PROVE  granted' = granted
    BY <2>3 DEF SessionEnds, SessionCloses, CleanupClaims, CleanupReleases
  <2>4. CASE UNCHANGED vars
    BY <2>4 DEF vars
  <2> QED
    BY <2>1, <2>2, <2>3, <2>4 DEF Next
<1> QED
  BY <1>2, <1>3, <1>4

(* Capacity is kept by every step. *)
LEMMA CapacityStep ==
  TypeOK /\ LimitInv /\ SlotHeldUntilOver /\ CapacityRespected /\ [Next]_vars => CapacityRespected'
<1> SUFFICES ASSUME TypeOK, LimitInv, SlotHeldUntilOver, CapacityRespected, [Next]_vars,
                    NEW u \in Users
             PROVE  Cardinality(Occupied(u)') <= granted'[u]
  BY DEF CapacityRespected
<1>1. granted[u] \in Nat /\ granted'[u] \in Nat /\ granted[u] <= granted'[u]
  BY GrantedStep, LimitsAssumption DEF TypeOK
<1>2. IsFiniteSet(Occupied(u)) /\ IsFiniteSet(Occupied(u)')
  BY SessionIdsAssumption, FS_Subset DEF Occupied
<1>3. Cardinality(Occupied(u)) \in Nat /\ Cardinality(Occupied(u)') \in Nat
  BY <1>2, FS_CardinalityType
<1>4. CASE \E p \in Requests : Bind(p)
  BY <1>1, <1>3, <1>4, BindStep
<1>5. CASE ~\E p \in Requests : Bind(p)
  <2>1. Occupied(u)' \subseteq Occupied(u)
    BY <1>5, OccupiedStep
  <2>2. Cardinality(Occupied(u)') <= Cardinality(Occupied(u))
    BY <1>2, <2>1, FS_Subset
  <2> QED
    BY <1>1, <1>3, <2>2 DEF CapacityRespected
<1> QED
  BY <1>4, <1>5

-----------------------------------------------------------------------------
(* The inductive invariant of the prepare requests. *)
THEOREM PrepareInvHolds == Spec => []Inv
<1>1. Inv /\ [Next]_vars => Inv'
  BY TypeStep, LimitStep, SlotStep, CapacityStep, BoundStep, AskStep DEF Inv
<1> QED
  BY InitInv, <1>1, PTL DEF Spec

(* The slots a user holds never exceed the highest limit the user was granted
   (begin_prepare counts and reserves in one transaction). *)
THEOREM CapacityHolds == Spec => []CapacityRespected
<1>1. Inv => CapacityRespected
  BY DEF Inv
<1> QED
  BY PrepareInvHolds, <1>1, PTL

(* A bound Session holds its slot until it is FINISHED or FAILED, and only a
   bound Session is claimed. *)
THEOREM SlotHolds == Spec => []SlotHeldUntilOver
<1>1. Inv => SlotHeldUntilOver
  BY DEF Inv
<1> QED
  BY PrepareInvHolds, <1>1, PTL

(* A request that goes on to provision finds the Session bound as it asked. *)
THEOREM ClaimAsAskedHolds == Spec => []ClaimIsAsAsked
<1>1. Inv => ClaimIsAsAsked
  BY DEF Inv
<1> QED
  BY PrepareInvHolds, <1>1, PTL
=============================================================================
