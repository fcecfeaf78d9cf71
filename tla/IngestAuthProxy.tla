------------------------------ MODULE IngestAuthProxy ------------------------------
(***************************************************************************)
(* Who may publish to a Session: the credential store with its rotation,    *)
(* the authorization by the Control API, and the node's proxy, which keeps  *)
(* a positive cache for the time the Control API does not answer.           *)
(*                                                                         *)
(* Requests of the media server run concurrently, each in the steps that    *)
(* take a lock of their own: the session check, the store's verify, the     *)
(* answer, and what the proxy does with it.  Reads of the relay use none of *)
(* the cache; they are limited by the readers that the proxy observes, and  *)
(* have variables of their own.  The two scopes of the store do not meet,   *)
(* so there is one.  Times are what is left of them, in ticks; the clocks   *)
(* of node and Control API agree.                                           *)
(***************************************************************************)
EXTENDS Naturals, FiniteSets, FiniteSetsExt

CONSTANTS
  Secrets,     \* credentials, each issued once
  Requests,    \* requests the proxy works on at a time
  Ttl,         \* ttl_seconds of a credential
  Deadline,    \* absolute_deadline_at of the Session
  CpAge,       \* IRLIGHT_INGEST_AUTH_CACHE_MAX_AGE_SECONDS
  NodeAge,     \* cache_max_age_seconds
  UpTimeout,   \* upstream_timeout_seconds
  CacheMax,    \* cache_max_entries
  MaxReaders   \* relay_max_readers

ASSUME ProxyAssumption ==
  /\ {Ttl, Deadline, CpAge, NodeAge, UpTimeout, CacheMax} \subseteq Nat
  /\ MaxReaders \in Nat \ {0}
  /\ IsFiniteSet(Requests)

VARIABLES
  accepting,   \* the Session is in ACCEPTING_INGEST_STATES
  deadline,    \* what is left until its deadline
  creds,       \* ingest_credentials.json
  issuing,     \* an issue between its look at the Session and its write
  cache,       \* PositiveAuthCache: a partial function on the secrets
  req,         \* publish requests in the proxy
  seen,        \* history: time since the store last accepted a secret
  out,         \* history: dead secrets denied with no grant under way
  readers,     \* readers of the relay path
  reading      \* relay reads that have passed the limit

proxyVars == <<accepting, deadline, creds, issuing, cache, req, seen, out>>
relayVars == <<readers, reading>>

Less(a, b) == IF a < b THEN a ELSE b
Dec(n) == IF n = 0 THEN 0 ELSE n - 1

Stale == UpTimeout + Less(CpAge, NodeAge)

Unissued == [state |-> "none", left |-> 0]
Idle == [step |-> "idle"]
NoIssue == [step |-> "none"]
EmptyCache == [k \in {} |-> 0]

ProxyInit ==
  /\ accepting = TRUE
  /\ deadline = Deadline
  /\ creds = [k \in Secrets |-> Unissued]
  /\ issuing = NoIssue
  /\ cache = EmptyCache
  /\ req = [r \in Requests |-> Idle]
  /\ seen = [k \in Secrets |-> Stale]
  /\ out = {}

RelayInit == readers = 0 /\ reading = {}

-----------------------------------------------------------------------------
(* The credential store *)

(* issue_ingest_credential reads status and deadline and pins the clock. *)
BeginIssue ==
  /\ issuing = NoIssue
  /\ accepting
  /\ deadline > 0
  /\ issuing' = [step |-> "write", left |-> Less(Ttl, deadline)]
  /\ UNCHANGED <<accepting, deadline, creds, cache, req, seen, out>>

(* IngestCredentialStore.issue revokes what is active in the scope. *)
Rotate(c) ==
  [k \in Secrets |-> IF c[k].state = "active" THEN [c[k] EXCEPT !.state = "revoked"] ELSE c[k]]

Issue(k) ==
  /\ issuing.step = "write"
  /\ creds[k].state = "none"
  /\ creds' = [Rotate(creds) EXCEPT ![k] = [state |-> "active", left |-> issuing.left]]
  /\ issuing' = NoIssue
  /\ UNCHANGED <<accepting, deadline, cache, req, seen, out>>

Revoke(k) ==
  /\ creds[k].state = "active"
  /\ creds' = [creds EXCEPT ![k].state = "revoked"]
  /\ UNCHANGED <<accepting, deadline, issuing, cache, req, seen, out>>

(* The Session leaves the accepting states; its credentials are revoked later. *)
SessionStops ==
  /\ accepting
  /\ accepting' = FALSE
  /\ UNCHANGED <<deadline, creds, issuing, cache, req, seen, out>>

RevokeSession ==
  /\ ~accepting
  /\ \E k \in Secrets : creds[k].state = "active"
  /\ creds' = [k \in Secrets |-> IF creds[k].state = "active"
                                   THEN [creds[k] EXCEPT !.state = "revoked"] ELSE creds[k]]
  /\ UNCHANGED <<accepting, deadline, issuing, cache, req, seen, out>>

(* verify *)
Valid(k) == creds[k].state = "active" /\ creds[k].left > 0

-----------------------------------------------------------------------------
(* PositiveAuthCache: what is left of an entry, and the keys used after it (OrderedDict). *)

EvictKey(c, k) == [j \in DOMAIN c \ {k} |-> [c[j] EXCEPT !.after = @ \ {k}]]

MoveToEnd(c, k, left) ==
  [j \in DOMAIN c \cup {k} |-> IF j = k THEN [left |-> left, after |-> {}]
                                ELSE [c[j] EXCEPT !.after = @ \cup {k}]]

Live(c) == {k \in DOMAIN c : c[k].left > 0}

(* _prune: the expired go, and of the rest the oldest. *)
KeysKept(c) ==
  IF Cardinality(Live(c)) <= CacheMax THEN {Live(c)}
  ELSE {K \in kSubset(CacheMax, Live(c)) : \A k \in K, j \in Live(c) \ K : k \in c[j].after}

Prune(c) == {[j \in K |-> [c[j] EXCEPT !.after = @ \cap K]] : K \in KeysKept(c)}

(* A bug: the node's own bound only. *)
StoreOwnAge(c, k, until) ==
  IF NodeAge = 0 THEN {c} ELSE Prune(MoveToEnd(c, k, NodeAge))

Store(c, k, until) ==
  LET e == Less(until, NodeAge) IN
  IF e = 0 THEN {c} ELSE Prune(MoveToEnd(c, k, e))

-----------------------------------------------------------------------------
(* A publish request.  The steps up to Answer are the Control API's. *)

Ask(r, k) ==
  /\ req[r] = Idle
  /\ req' = [req EXCEPT ![r] = [step |-> "asked", secret |-> k, age |-> 0]]
  /\ UNCHANGED <<accepting, deadline, creds, issuing, cache, seen, out>>

Denied(q) == [q EXCEPT !.step = "denied"]

(* The guard may block; the Session must accept. *)
CheckSession(r) ==
  /\ req[r].step = "asked"
  /\ \/ accepting /\ req' = [req EXCEPT ![r].step = "checked"]
     \/ req' = [req EXCEPT ![r] = Denied(req[r])]
  /\ UNCHANGED <<accepting, deadline, creds, issuing, cache, seen, out>>

Verify(r) ==
  LET q == req[r] IN
  /\ q.step = "checked"
  /\ IF Valid(q.secret)
       THEN /\ req' = [req EXCEPT ![r].step = "verified"]
            /\ seen' = [seen EXCEPT ![q.secret] = 0]
       ELSE /\ req' = [req EXCEPT ![r] = Denied(q)]
            /\ UNCHANGED seen
  /\ UNCHANGED <<accepting, deadline, creds, issuing, cache, out>>

(* _cache_valid_until *)
Answer(r) ==
  LET q == req[r] IN
  /\ q.step = "verified"
  /\ req' = [req EXCEPT ![r] = [step |-> "granted", secret |-> q.secret, age |-> q.age,
                                until |-> Less(creds[q.secret].left, CpAge)]]
  /\ UNCHANGED <<accepting, deadline, creds, issuing, cache, seen, out>>

(* A transport failure, a 5xx or the timeout. *)
NoAnswer(r) ==
  /\ req[r].step \in {"asked", "checked", "verified", "denied", "granted"}
  /\ req' = [req EXCEPT ![r] = [step |-> "lost", secret |-> req[r].secret]]
  /\ UNCHANGED <<accepting, deadline, creds, issuing, cache, seen, out>>

(* Nobody else is about to be told that the secret is good. *)
AloneWith(r, k) ==
  \A s \in Requests \ {r} : req[s].step \in {"verified", "granted"} => req[s].secret # k

Dead(k) == creds[k].state = "revoked" \/ (creds[k].state = "active" /\ creds[k].left = 0)

(* A bug: a denial leaves the cache as it is. *)
EvictOnDenialNot(c, k) == c

EvictOnDenial(c, k) == EvictKey(c, k)

ReceiveDenial(r) ==
  LET k == req[r].secret IN
  /\ req[r].step = "denied"
  /\ cache' = EvictOnDenial(cache, k)
  /\ out' = IF Dead(k) /\ AloneWith(r, k) THEN out \cup {k} ELSE out
  /\ req' = [req EXCEPT ![r] = Idle]
  /\ UNCHANGED <<accepting, deadline, creds, issuing, seen>>

ReceiveGrant(r) ==
  LET q == req[r] IN
  /\ q.step = "granted"
  /\ cache' \in Store(cache, q.secret, q.until)
  /\ req' = [req EXCEPT ![r] = Idle]
  /\ UNCHANGED <<accepting, deadline, creds, issuing, seen, out>>

(* _fallback with allowed *)
FallbackGrant(r) ==
  LET k == req[r].secret IN
  /\ req[r].step = "lost"
  /\ \E c \in Prune(cache) : k \in DOMAIN c /\ cache' = MoveToEnd(c, k, c[k].left)
  /\ req' = [req EXCEPT ![r] = Idle]
  /\ UNCHANGED <<accepting, deadline, creds, issuing, seen, out>>

FallbackRefuse(r) ==
  /\ req[r].step = "lost"
  /\ \E c \in Prune(cache) : req[r].secret \notin DOMAIN c /\ cache' = c
  /\ req' = [req EXCEPT ![r] = Idle]
  /\ UNCHANGED <<accepting, deadline, creds, issuing, seen, out>>

(* The node agent restarts; the cache is in its memory. *)
ProxyRestart ==
  /\ cache' = EmptyCache
  /\ req' = [r \in Requests |-> Idle]
  /\ UNCHANGED <<accepting, deadline, creds, issuing, seen, out>>

-----------------------------------------------------------------------------
(* Reads of the relay *)

(* A bug: no look at the readers. *)
ReadAdmittedAlways == TRUE

(* _relay_read_limited *)
ReadAdmitted == readers < MaxReaders

AskRead(r) ==
  /\ r \notin reading
  /\ ReadAdmitted
  /\ reading' = reading \cup {r}
  /\ UNCHANGED readers

(* The Control API's answer; no answer is a refusal. *)
EndRead(r) ==
  /\ r \in reading
  /\ reading' = reading \ {r}
  /\ readers' \in {readers, readers + 1}

ReaderLeaves ==
  /\ readers > 0
  /\ readers' = readers - 1
  /\ UNCHANGED reading

RelayNext == ReaderLeaves \/ \E r \in Requests : AskRead(r) \/ EndRead(r)

RelaySpec == RelayInit /\ [][RelayNext]_relayVars

-----------------------------------------------------------------------------
(* Time *)

(* A bug: the lifetime counts from the write. *)
AgeIssueLater(i) == i

(* The expiry is that of the pinned clock. *)
AgeIssue(i) == IF i = NoIssue THEN i ELSE [i EXCEPT !.left = Dec(@)]

AgeRequest(q) ==
  CASE q.step \in {"asked", "checked", "verified", "denied"} -> [q EXCEPT !.age = @ + 1]
    [] q.step = "granted" -> [q EXCEPT !.age = @ + 1, !.until = Dec(@)]
    [] OTHER -> q

(* A request waits no longer than the timeout. *)
Tick ==
  /\ \A r \in Requests : req[r].step \notin {"idle", "lost"} => req[r].age < UpTimeout
  /\ deadline' = Dec(deadline)
  /\ creds' = [k \in Secrets |-> [creds[k] EXCEPT !.left = Dec(@)]]
  /\ issuing' = AgeIssue(issuing)
  /\ cache' = [k \in DOMAIN cache |-> [cache[k] EXCEPT !.left = Dec(@)]]
  /\ req' = [r \in Requests |-> AgeRequest(req[r])]
  /\ seen' = [k \in Secrets |-> Less(seen[k] + 1, Stale)]
  /\ UNCHANGED <<accepting, out>>

ProxyNext ==
  \/ BeginIssue \/ SessionStops \/ RevokeSession \/ ProxyRestart \/ Tick
  \/ \E k \in Secrets : Issue(k) \/ Revoke(k)
  \/ \E r \in Requests :
       \/ \E k \in Secrets : Ask(r, k)
       \/ CheckSession(r) \/ Verify(r) \/ Answer(r) \/ NoAnswer(r)
       \/ ReceiveDenial(r) \/ ReceiveGrant(r) \/ FallbackGrant(r) \/ FallbackRefuse(r)

ProxySpec == ProxyInit /\ [][ProxyNext]_proxyVars

-----------------------------------------------------------------------------
(* One credential is active, none outlives the Session's deadline, and
   the cache stays within its bound. *)
CredentialsBounded ==
  /\ \A k, j \in Secrets :
       creds[k].state = "active" /\ creds[j].state = "active" => k = j
  /\ \A k \in Secrets : creds[k].left <= deadline
  /\ Cardinality(DOMAIN cache) <= CacheMax

(* What the proxy allows on its own was allowed by the store within the stale
   window and has not expired: a revocation takes effect when the window is over,
   also for a grant that was under way when the secret was revoked. *)
GrantIsRecent ==
  [][\A r \in Requests : FallbackGrant(r)
       => seen[req[r].secret] < Stale /\ creds[req[r].secret].left > 0]_proxyVars

(* A dead secret that was denied while no other request with it was about to be
   granted is out of the cache for good. *)
DeniedStaysOut == out \cap DOMAIN cache = {}

(* The relay's readers exceed their limit by no more than the requests that were
   admitted on the same observation. *)
ReadersBounded == readers <= MaxReaders + Cardinality(Requests) - 1

(* What node-local authorization promises (ingest_auth_proxy.py, ingest_store.py): one active credential that the
   Session's deadline bounds, a grant in an outage only on a recent answer of the Control
   API, a denied secret out of the cache, and a bounded number of readers. *)
ProxyPromise == []CredentialsBounded /\ []DeniedStaysOut /\ []ReadersBounded /\ GrantIsRecent
=============================================================================
