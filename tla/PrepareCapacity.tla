----------------------------- MODULE PrepareCapacity -----------------------------
(***************************************************************************)
(* POST /v1/sessions/{id}/prepare up to the claim of the Session: replay   *)
(* by Idempotency-Key, the entitlement limit read from its own store, and  *)
(* begin_prepare, which binds the request and reserves a slot of the       *)
(* user's capacity in one store transaction.  Many requests run at a time, *)
(* over several Sessions and users; any of them may die between two steps. *)
(*                                                                         *)
(* A Session record is reduced to its owner, the bound key and prepare     *)
(* parameters, entitlement_reserved, and its status as the prepare sees    *)
(* it: STOPPED, ACTIVE (any of ACTIVE_STATES), CLEANUP (STOPPING or        *)
(* FAILED_CLEANUP) or OVER (FINISHED or FAILED).  The steps between these  *)
(* are the phases of SessionContract, which SessionLifecycle implements.   *)
(***************************************************************************)
EXTENDS Naturals, FiniteSets

CONSTANTS
  Requests,    \* API threads that serve prepare requests
  SessionIds,
  Users,
  Keys,        \* Idempotency-Key values, those the server makes up included
  Configs,     \* (environment, destination_id, egress_mode)
  Asks,        \* the keys and configurations that each request's clients combine
  Limits,      \* values of max_concurrent_sessions
  None,        \* no user, no key, no configuration
  MaxCrashes,  \* bound on threads that die
  MaxOrphans   \* bound on orphan cleanups of a Session that is not claimed yet

ASSUME NoneAssumption == None \notin Users \cup Keys \cup Configs
ASSUME AsksAssumption == Asks \in [Requests -> SUBSET (Keys \X Configs)]
ASSUME LimitsAssumption == Limits \subseteq Nat
ASSUME SessionIdsAssumption == IsFiniteSet(SessionIds)
ASSUME BoundsAssumption == MaxCrashes \in Nat /\ MaxOrphans \in Nat

VARIABLES
  sessions,   \* sessions.json: the record of every Session id
  leased,     \* Session ids with an active cleanup lease
  limit,      \* entitlements.json: the limit of every user
  pc, req,    \* step and parameters of each request
  lim,        \* the limit a request has read, until begin_prepare is over
  granted,    \* history: the highest limit each user ever had
  crashes, orphans

vars == <<sessions, leased, limit, pc, req, lim, granted, crashes, orphans>>

Statuses == {"STOPPED", "ACTIVE", "CLEANUP", "OVER"}

Record ==
  [user: Users \cup {None}, status: Statuses, reserved: BOOLEAN,
   key: Keys \cup {None}, config: Configs \cup {None}]

Absent ==
  [user |-> None, status |-> "STOPPED", reserved |-> FALSE, key |-> None, config |-> None]

Exists(s) == sessions[s].user # None

(* A Session of a release that had neither keys nor reservations. *)
LegacyRecord(u) == [Absent EXCEPT !.user = u, !.status = "ACTIVE"]

NoRequest == [user |-> None, session |-> None, key |-> None, config |-> None]

Request == [user: Users, session: SessionIds, key: Keys, config: Configs] \cup {NoRequest}

Steps == {"idle", "validate", "begin", "claim"}

-----------------------------------------------------------------------------
(* Capacity: what begin_prepare counts for a user. *)

(* A bug: a Session counts only once it is provisioned. *)
TakesSlotWhenActive(r) == r.status \in {"ACTIVE", "CLEANUP"}

TakesSlot(r) == r.reserved \/ r.status \in {"ACTIVE", "CLEANUP"}

Occupied(u) == {s \in SessionIds : sessions[s].user = u /\ TakesSlot(sessions[s])}

Init ==
  /\ limit \in [Users -> Limits]
  /\ sessions \in [SessionIds -> {Absent} \cup {LegacyRecord(u) : u \in Users}]
  /\ \A u \in Users : Cardinality(Occupied(u)) <= limit[u]
  /\ leased = {}
  /\ pc = [p \in Requests |-> "idle"]
  /\ req = [p \in Requests |-> NoRequest]
  /\ lim = [p \in Requests |-> 0]
  /\ granted = limit
  /\ crashes = 0 /\ orphans = 0

-----------------------------------------------------------------------------
(* prepare_session *)

Goto(p, step) == pc' = [pc EXCEPT ![p] = step]

(* The request is answered, with a Session or with an error. *)
Answer(p) ==
  /\ Goto(p, "idle")
  /\ req' = [req EXCEPT ![p] = NoRequest]
  /\ lim' = [lim EXCEPT ![p] = 0]

(* A bug: every exact replay is answered, also one of a Session that was bound
   and never claimed. *)
ReplayAnsweredAlways(r) == TRUE

(* A committed response is replayed; a STOPPED Session was bound by a request
   that did not get to the claim, and the replay goes on from there. *)
ReplayAnswered(r) == r.status # "STOPPED"

(* get_prepare_replay.  Another user's Session, a key with other parameters
   and a committed replay are answered at once and change nothing. *)
ReceivePrepare(p, u, s, k, c) ==
  LET r == sessions[s] IN
  /\ pc[p] = "idle"
  /\ req' = [req EXCEPT ![p] = [user |-> u, session |-> s, key |-> k, config |-> c]]
  /\ \/ ~Exists(s) /\ Goto(p, "validate")
     \/ r.user = u /\ r.key # k /\ Goto(p, "validate")
     \/ r.user = u /\ r.key = k /\ r.config = c /\ ~ReplayAnswered(r) /\ Goto(p, "claim")
  /\ UNCHANGED <<sessions, leased, limit, lim, granted, crashes, orphans>>

(* The destination is validated, then the limit is read: from here on the
   request works with the limit as it was. *)
ReadEntitlement(p) ==
  /\ pc[p] = "validate"
  /\ \/ Goto(p, "begin") /\ lim' = [lim EXCEPT ![p] = limit[req[p].user]] /\ UNCHANGED req
     \/ Answer(p)
  /\ UNCHANGED <<sessions, leased, limit, granted, crashes, orphans>>

(* A bug: the binding of another request is overwritten. *)
BoundNever(r) == FALSE

Bound(r) == r.key # None

(* The checks of begin_prepare that come before the binding is looked at. *)
MayBegin(p) ==
  LET q == req[p] IN
  /\ lim[p] >= 1
  /\ q.session \notin leased
  /\ Exists(q.session) => sessions[q.session].user = q.user
  /\ sessions[q.session].status # "OVER"

HasRoom(p) == Cardinality(Occupied(req[p].user) \ {req[p].session}) < lim[p]

(* begin_prepare binds the request and reserves the slot ... *)
Bind(p) ==
  LET q == req[p] IN
  /\ pc[p] = "begin"
  /\ MayBegin(p)
  /\ ~Bound(sessions[q.session])
  /\ HasRoom(p)
  /\ sessions' = [sessions EXCEPT ![q.session].user = q.user,
                                  ![q.session].key = q.key,
                                  ![q.session].config = q.config,
                                  ![q.session].reserved = TRUE]
  /\ Goto(p, "claim")
  /\ lim' = [lim EXCEPT ![p] = 0]
  /\ UNCHANGED <<leased, limit, req, granted, crashes, orphans>>

(* ... or finds that an equal request has done so in the meantime ... *)
JoinReplay(p) ==
  LET q == req[p]  r == sessions[q.session] IN
  /\ pc[p] = "begin"
  /\ MayBegin(p)
  /\ Bound(r) /\ r.key = q.key /\ r.config = q.config
  /\ \/ ReplayAnswered(r) /\ Answer(p)
     \/ ~ReplayAnswered(r) /\ Goto(p, "claim") /\ lim' = [lim EXCEPT ![p] = 0] /\ UNCHANGED req
  /\ UNCHANGED <<sessions, leased, limit, granted, crashes, orphans>>

(* ... or refuses. *)
Refuse(p) ==
  LET q == req[p]  r == sessions[q.session] IN
  /\ pc[p] = "begin"
  /\ \/ ~MayBegin(p)
     \/ Bound(r) /\ (r.key # q.key \/ r.config # q.config)
     \/ ~Bound(r) /\ ~HasRoom(p)
  /\ Answer(p)
  /\ UNCHANGED <<sessions, leased, limit, granted, crashes, orphans>>

(* ProvisioningWorkflow.prepare: claim_provisioning moves a STOPPED Session on
   unless a cleanup lease is active; otherwise the call returns or raises. *)
ClaimProvisioning(p) ==
  LET s == req[p].session IN
  /\ pc[p] = "claim"
  /\ sessions' = IF sessions[s].status = "STOPPED" /\ s \notin leased
                   THEN [sessions EXCEPT ![s].status = "ACTIVE"] ELSE sessions
  /\ Answer(p)
  /\ UNCHANGED <<leased, limit, granted, crashes, orphans>>

(* The thread dies; what it wrote stays. *)
Crash(p) ==
  /\ pc[p] # "idle"
  /\ crashes < MaxCrashes /\ crashes' = crashes + 1
  /\ Answer(p)
  /\ UNCHANGED <<sessions, leased, limit, granted, orphans>>

-----------------------------------------------------------------------------
(* The rest of the Session's life, and the entitlement authority. *)

(* A bug: the slot is given back when the Session is asked to stop. *)
SessionEndsEarlyRelease(s) ==
  /\ sessions[s].status = "ACTIVE"
  /\ sessions' = [sessions EXCEPT ![s].status = "CLEANUP", ![s].reserved = FALSE]
  /\ UNCHANGED <<leased, limit, pc, req, lim, granted, crashes, orphans>>

SessionEnds(s) ==
  /\ sessions[s].status = "ACTIVE"
  /\ sessions' = [sessions EXCEPT ![s].status = "CLEANUP"]
  /\ UNCHANGED <<leased, limit, pc, req, lim, granted, crashes, orphans>>

(* FINISHED or FAILED: transition() gives the slot back. *)
SessionCloses(s) ==
  /\ sessions[s].status = "CLEANUP"
  /\ sessions' = [sessions EXCEPT ![s].status = "OVER", ![s].reserved = FALSE]
  /\ UNCHANGED <<leased, limit, pc, req, lim, granted, crashes, orphans>>

(* claim_session_cleanup; claim_orphan_cleanup, which leaves no trace for a
   Session that is over and meets a STOPPED or an unknown one only while the
   provider still has resources with its tag. *)
CleanupClaims(s) ==
  /\ s \notin leased
  /\ \/ sessions[s].status \in {"CLEANUP", "OVER"} /\ UNCHANGED orphans
     \/ sessions[s].status = "STOPPED" /\ orphans < MaxOrphans /\ orphans' = orphans + 1
  /\ leased' = leased \cup {s}
  /\ UNCHANGED <<sessions, limit, pc, req, lim, granted, crashes>>

CleanupReleases(s) ==
  /\ s \in leased
  /\ leased' = leased \ {s}
  /\ UNCHANGED <<sessions, limit, pc, req, lim, granted, crashes, orphans>>

(* EntitlementStore.set *)
SetEntitlement(u, n) ==
  /\ limit' = [limit EXCEPT ![u] = n]
  /\ granted' = [granted EXCEPT ![u] = IF n > @ THEN n ELSE @]
  /\ UNCHANGED <<sessions, leased, pc, req, lim, crashes, orphans>>

RequestStep(p) ==
  ReadEntitlement(p) \/ Bind(p) \/ JoinReplay(p) \/ Refuse(p) \/ ClaimProvisioning(p)

Next ==
  \/ \E p \in Requests :
       \/ \E u \in Users, s \in SessionIds, k \in Keys, c \in Configs :
            <<k, c>> \in Asks[p] /\ ReceivePrepare(p, u, s, k, c)
       \/ RequestStep(p)
       \/ Crash(p)
  \/ \E s \in SessionIds :
       SessionEnds(s) \/ SessionCloses(s) \/ CleanupClaims(s) \/ CleanupReleases(s)
  \/ \E u \in Users, n \in Limits : SetEntitlement(u, n)

Spec == Init /\ [][Next]_vars

(* The client repeats the request it made, with its key, until it gets the
   Session; GET /v1/sessions/{id} tells it a key the server made up. *)
Retry(s) ==
  \E p \in Requests :
    /\ Bound(sessions[s])
    /\ <<sessions[s].key, sessions[s].config>> \in Asks[p]
    /\ ReceivePrepare(p, sessions[s].user, s, sessions[s].key, sessions[s].config)

FairSpec ==
  /\ Spec
  /\ \A p \in Requests : WF_vars(RequestStep(p))
  /\ \A s \in SessionIds : SF_vars(Retry(s)) /\ WF_vars(CleanupReleases(s))

-----------------------------------------------------------------------------
(* Types; a request in the middle of its work has parameters. *)
TypeOK ==
  /\ sessions \in [SessionIds -> Record]
  /\ leased \subseteq SessionIds
  /\ limit \in [Users -> Limits]
  /\ granted \in [Users -> Limits]
  /\ pc \in [Requests -> Steps]
  /\ req \in [Requests -> Request]
  /\ lim \in [Requests -> Nat]
  /\ \A p \in Requests : pc[p] # "idle" => req[p] # NoRequest
  /\ crashes \in 0 .. MaxCrashes
  /\ orphans \in 0 .. MaxOrphans

(* Whatever limit a request works with was the user's at some time. *)
LimitInv ==
  /\ \A u \in Users : limit[u] <= granted[u]
  /\ \A p \in Requests : pc[p] = "begin" => lim[p] <= granted[req[p].user]

(* The slots a user holds never exceed the highest limit the user was granted,
   however many prepares run at a time: no two of them are let in by the same
   free slot, and Sessions that are being cleaned up keep theirs. *)
CapacityRespected ==
  \A u \in Users : Cardinality(Occupied(u)) <= granted[u]

(* A Session that was bound holds its reserved slot until it is over, and a
   request gets to the claim only on a Session that is bound: nothing billable
   is created outside the capacity. *)
SlotHeldUntilOver ==
  /\ \A s \in SessionIds :
       sessions[s].key # None => sessions[s].reserved = (sessions[s].status # "OVER")
  /\ \A p \in Requests : pc[p] = "claim" => sessions[req[p].session].key # None

(* "Once bound, neither a concurrent request nor a later Idempotency-Key can
   mutate the Session's transport target" (begin_prepare): a request that goes
   on to provision, having bound the Session or joined it as a replay, finds it
   bound to the user, the key and the target it asked for itself, whatever
   other requests for the Session read and wrote between its steps. *)
ClaimIsAsAsked ==
  \A p \in Requests : pc[p] = "claim" =>
    LET r == sessions[req[p].session] IN
    r.user = req[p].user /\ r.key = req[p].key /\ r.config = req[p].config

(* A Session that was bound has an owner. *)
BoundInv == \A s \in SessionIds : sessions[s].key # None => sessions[s].user # None

(* The inductive invariant. *)
Inv == TypeOK /\ LimitInv /\ CapacityRespected /\ SlotHeldUntilOver /\ BoundInv /\ ClaimIsAsAsked

(* "STOPPED is the recoverable crash boundary between binding and provisioning
   claim" (prepare_session): when the client repeats its request, a Session
   that was bound is provisioned, whatever dies on the way. *)
BoundGetsClaimed ==
  \A s \in SessionIds :
    sessions[s].key # None /\ sessions[s].status = "STOPPED" ~> sessions[s].status # "STOPPED"
=============================================================================
