------------------------------ MODULE IngestAuthGuard ------------------------------
(***************************************************************************)
(* The guard against guessing of ingest credentials: failures per address   *)
(* and per username within a window, a lockout, and a bounded table.        *)
(*                                                                         *)
(* _authorize_mediamtx_request asks the guard, verifies, and reports the    *)
(* outcome, each under a lock of its own; requests run concurrently.        *)
(* fails[n] of a bucket is how many of its failures came in the last n + 1  *)
(* ticks.  The tick prunes, as every method does before it looks.           *)
(***************************************************************************)
EXTENDS Naturals, FiniteSets, FiniteSetsExt, Functions

CONSTANTS
  Addresses, Usernames,
  Attempts,        \* requests at a time
  MaxPerIp,        \* max_failures_per_ip
  MaxPerUsername,  \* max_failures_per_credential
  Window,          \* failure_window_seconds
  Lockout,         \* lockout_seconds
  BlockedInterval, \* blocked_event_interval_seconds
  BucketLimit      \* bucket_limit

ASSUME GuardAssumption ==
  /\ {Window, BlockedInterval} \subseteq Nat
  /\ {MaxPerIp, MaxPerUsername, Lockout, BucketLimit} \subseteq Nat \ {0}
  /\ IsFiniteSet(Attempts) /\ Addresses \cap Usernames = {}

VARIABLES
  buckets,   \* ingest_auth_guard.json: a partial function on the bucket keys
  attempt    \* requests between two calls of the guard

guardVars == <<buckets, attempt>>

BucketKeys == Addresses \cup Usernames
Limit(k) == IF k \in Addresses THEN MaxPerIp ELSE MaxPerUsername

NoAttempt == [step |-> "none"]

GuardInit ==
  /\ buckets = [k \in {} |-> 0]
  /\ attempt = [a \in Attempts |-> NoAttempt]

-----------------------------------------------------------------------------
(* Buckets *)

NewBucket == [fails |-> [n \in 0 .. Window |-> 0], lock |-> 0, unseen |-> 0, quiet |-> BlockedInterval]

Failures(b) == b.fails[Window]

Locked(k) == k \in DOMAIN buckets /\ buckets[k].lock > 0

Failed(k, b) ==
  LET f == [b EXCEPT !.fails = [n \in 0 .. Window |-> b.fails[n] + 1], !.unseen = 0] IN
  IF b.lock = 0 /\ Failures(f) >= Limit(k) THEN [f EXCEPT !.lock = Lockout] ELSE f

(* A bug: the end of a lockout leaves its failures. *)
PrunedKeepsFailures(b) ==
  [fails |-> [n \in 0 .. Window |-> IF n = 0 THEN 0 ELSE b.fails[n - 1]],
   lock |-> IF b.lock = 0 THEN 0 ELSE b.lock - 1,
   unseen |-> IF b.unseen < Window + Lockout THEN b.unseen + 1 ELSE b.unseen,
   quiet |-> IF b.quiet < BlockedInterval THEN b.quiet + 1 ELSE b.quiet]

(* _prune_bucket one tick later.  No bucket stays unseen beyond Window + Lockout. *)
Pruned(b) ==
  [fails |-> [n \in 0 .. Window |-> IF n = 0 \/ b.lock = 1 THEN 0 ELSE b.fails[n - 1]],
   lock |-> IF b.lock = 0 THEN 0 ELSE b.lock - 1,
   unseen |-> IF b.unseen < Window + Lockout THEN b.unseen + 1 ELSE b.unseen,
   quiet |-> IF b.quiet < BlockedInterval THEN b.quiet + 1 ELSE b.quiet]

Lasting(t) == Restrict(t, {k \in DOMAIN t : Failures(t[k]) > 0 \/ t[k].lock > 0})

(* _compact_buckets: what was seen longest ago goes; of equals, any. *)
Compactions(t) ==
  IF Cardinality(DOMAIN t) <= BucketLimit THEN {t}
  ELSE {Restrict(t, K) : K \in
          {K \in kSubset(BucketLimit, DOMAIN t) :
             \A k \in K, j \in DOMAIN t \ K : t[k].unseen <= t[j].unseen}}

-----------------------------------------------------------------------------
(* A request *)

(* A bug: only the address is looked at. *)
BlockedByAddress(ip, u) == Locked(ip)

(* _decision *)
Blocked(ip, u) == Locked(ip) \/ Locked(u)

Check(a, ip, u) ==
  /\ attempt[a] = NoAttempt
  /\ attempt' = [attempt EXCEPT ![a] =
       [step |-> IF Blocked(ip, u) THEN "blocked" ELSE "verify", ip |-> ip, user |-> u]]
  /\ UNCHANGED buckets

(* A bug: a request that is blocked starts the lockout again. *)
RecordBlockedExtends(a) ==
  /\ attempt[a].step = "blocked"
  /\ buckets' = [k \in DOMAIN buckets |->
                   IF k \in {attempt[a].ip, attempt[a].user} /\ Locked(k)
                     THEN [buckets[k] EXCEPT !.lock = Lockout] ELSE buckets[k]]
  /\ attempt' = [attempt EXCEPT ![a] = NoAttempt]

(* record_blocked: an event at most once per interval. *)
RecordBlocked(a) ==
  LET due == {k \in {attempt[a].ip, attempt[a].user} :
                Locked(k) /\ buckets[k].quiet >= BlockedInterval} IN
  /\ attempt[a].step = "blocked"
  /\ buckets' = [k \in DOMAIN buckets |->
                   IF k \in due THEN [buckets[k] EXCEPT !.quiet = 0] ELSE buckets[k]]
  /\ attempt' = [attempt EXCEPT ![a] = NoAttempt]

(* The Session check and the credential store's verify. *)
Verified(a, good) ==
  /\ attempt[a].step = "verify"
  /\ attempt' = [attempt EXCEPT ![a].step = IF good THEN "success" ELSE "failure"]
  /\ UNCHANGED buckets

RecordFailure(a) ==
  LET hit == {attempt[a].ip, attempt[a].user}
      t == [k \in DOMAIN buckets \cup hit |->
              LET b == IF k \in DOMAIN buckets THEN buckets[k] ELSE NewBucket IN
              IF k \in hit THEN Failed(k, b) ELSE b]
  IN /\ attempt[a].step = "failure"
     /\ buckets' \in Compactions(t)
     /\ attempt' = [attempt EXCEPT ![a] = NoAttempt]

(* A bug: a success forgives the address as well. *)
ForgivenAll(a) == {attempt[a].ip, attempt[a].user}

Forgiven(a) == {attempt[a].user}

RecordSuccess(a) ==
  /\ attempt[a].step = "success"
  /\ buckets' = Restrict(buckets, DOMAIN buckets \ Forgiven(a))
  /\ attempt' = [attempt EXCEPT ![a] = NoAttempt]

(* The Control API restarts; the table is in its file. *)
GuardCrash ==
  /\ \E a \in Attempts : attempt[a] # NoAttempt
  /\ attempt' = [a \in Attempts |-> NoAttempt]
  /\ UNCHANGED buckets

GuardTick ==
  /\ buckets' = Lasting([k \in DOMAIN buckets |-> Pruned(buckets[k])])
  /\ UNCHANGED attempt

GuardNext ==
  \/ \E a \in Attempts :
       \/ \E ip \in Addresses, u \in Usernames : Check(a, ip, u)
       \/ \E good \in BOOLEAN : Verified(a, good)
       \/ RecordBlocked(a) \/ RecordFailure(a) \/ RecordSuccess(a)
  \/ GuardCrash \/ GuardTick

GuardSpec == GuardInit /\ [][GuardNext]_guardVars

-----------------------------------------------------------------------------
(* The table stays within its limit, and concurrency lets no more failures into a
   window than the limit and the requests that had passed the check. *)
GuessesBounded ==
  /\ Cardinality(DOMAIN buckets) <= BucketLimit
  /\ \A k \in DOMAIN buckets : Failures(buckets[k]) <= Limit(k) + Cardinality(Attempts) - 1

(* A lockout ends early only by a success of the locked name or because the full
   table drops it for keys that were seen later; a name's success does not free
   the address it came from. *)
LockoutLasts ==
  [][\A k \in BucketKeys : Locked(k) /\ ~(k \in DOMAIN buckets' /\ buckets'[k].lock > 0) =>
       \/ GuardTick /\ buckets[k].lock = 1
       \/ \E a \in Attempts : RecordSuccess(a) /\ attempt[a].user = k
       \/ /\ Cardinality(DOMAIN buckets') = BucketLimit
          /\ \A j \in DOMAIN buckets' : j \in DOMAIN buckets => buckets'[j].unseen <= buckets[k].unseen
    ]_guardVars

(* After a lockout the count starts from nothing: one failure does not lock again
   unless the limit is one. *)
FreshAfterLockout ==
  [][\A k \in BucketKeys : GuardTick /\ Locked(k) /\ ~(k \in DOMAIN buckets' /\ buckets'[k].lock > 0)
       => k \notin DOMAIN buckets']_guardVars

(* However many requests fail during a lockout, it ends. *)
LockoutEnds == \A k \in BucketKeys : Locked(k) ~> ~Locked(k)

(* What the guard promises (ingest_auth_guard.py): guesses and memory are bounded, a lockout is
   not cut short, and it ends with a clean count. *)
GuardPromise == []GuessesBounded /\ LockoutLasts /\ FreshAfterLockout
=============================================================================
