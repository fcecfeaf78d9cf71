------------------------------- MODULE AuthRateLimit -------------------------------
(***************************************************************************)
(* The limit on authentication attempts: per pair of address and email a     *)
(* burst window and a sustained window of fixed length, in a table of        *)
(* bounded size that the workers share under a file lock.                   *)
(*                                                                         *)
(* A request reads the clock before it has the secret and the lock, and may  *)
(* be overtaken by requests with a later clock.  Times are counted from the *)
(* oldest clock that a waiting request can still hold: a request's clock is *)
(* in 0 .. MaxWait, MaxWait is the present, and reset_at moves towards 0.    *)
(* The shard is written in place, so a crash during the write leaves        *)
(* contents that the next reader takes for empty.                           *)
(***************************************************************************)
EXTENDS Naturals, Sequences, FiniteSets, FiniteSetsExt, Functions

CONSTANTS
  Pairs,            \* address and normalized email
  BurstLimit, BurstWindow,
  SustainedLimit, SustainedWindow,
  MaxTrackedKeys,
  MaxWait,          \* ticks that a request waits for secret and lock, at most
  RateWorkers,      \* processes that start with an empty directory
  SecretReads       \* SECRET_READ_ATTEMPTS

ASSUME RateAssumption ==
  /\ {BurstLimit, BurstWindow, SustainedLimit, SustainedWindow, MaxTrackedKeys, SecretReads} \subseteq Nat \ {0}
  /\ MaxWait \in Nat /\ MaxWait < BurstWindow /\ MaxWait < SustainedWindow

VARIABLES
  shard,     \* keys of the shard file: a partial function to two windows
  admitted,  \* history: attempts admitted in the last n + 1 ticks, since the shard was last readable
  wait       \* history: when the Retry-After that a pair was last told ends, with no attempt since

rateVars == <<shard, admitted, wait>>

VARIABLES
  secret,    \* the secret file: whether it exists, and the halves of whose secret it holds
  loader     \* a process in _load_secret

secretVars == <<secret, loader>>

Windows == {"burst", "sustained"}
LimitOf == [burst |-> BurstLimit, sustained |-> SustainedLimit]
LengthOf == [burst |-> BurstWindow, sustained |-> SustainedWindow]
Longest == Max({BurstWindow, SustainedWindow})

Clocks == 0 .. MaxWait

EmptyShard == [k \in {} |-> 0]
NoAdmission == [k \in Pairs |-> [n \in 0 .. Longest - 1 |-> 0]]
NotWaiting == [told |-> FALSE]

RateInit == shard = EmptyShard /\ admitted = NoAdmission /\ wait = [k \in Pairs |-> NotWaiting]

-----------------------------------------------------------------------------
(* _purge_expired *)
Purged(now) == Restrict(shard, {k \in DOMAIN shard : \E w \in Windows : shard[k][w].reset > now})

(* A bug: a full table makes room. *)
HasRoomAlways(k, now) == TRUE

HasRoom(k, now) == k \in DOMAIN Purged(now) \/ Cardinality(DOMAIN Purged(now)) < MaxTrackedKeys

(* A bug: a window that is over keeps its count. *)
RefreshedKeepsCount(r, w, now) ==
  IF r.reset <= now THEN [reset |-> now + LengthOf[w], count |-> r.count] ELSE r

Refreshed(r, w, now) == IF r.reset <= now THEN [reset |-> now + LengthOf[w], count |-> 0] ELSE r

(* The windows of k as the loop of _register_attempt leaves them. *)
WindowsOf(k, now) ==
  [w \in Windows |->
     Refreshed(IF k \in DOMAIN Purged(now) THEN shard[k][w] ELSE [reset |-> now, count |-> 0], w, now)]

Exhausted(ws) == {w \in Windows : ws[w].count >= LimitOf[w]}

(* A bug: the shortest of the exhausted windows is told. *)
RetryAfterShortest(ws, now) == Min({ws[w].reset : w \in Exhausted(ws)}) - now

RetryAfter(ws, now) == Max({ws[w].reset : w \in Exhausted(ws)}) - now

With(k, ws, now) == [j \in DOMAIN Purged(now) \cup {k} |-> IF j = k THEN ws ELSE shard[j]]

-----------------------------------------------------------------------------
(* enforce_authentication_rate_limit, of a request that has read the clock now and gets
   the shard's lock at last *)

AttemptAdmitted(k, now) ==
  /\ HasRoom(k, now)
  /\ Exhausted(WindowsOf(k, now)) = {}
  /\ shard' = With(k, [w \in Windows |-> [WindowsOf(k, now)[w] EXCEPT !.count = @ + 1]], now)
  /\ admitted' = [admitted EXCEPT ![k] = [n \in 0 .. Longest - 1 |-> @[n] + 1]]
  /\ wait' = [wait EXCEPT ![k] = NotWaiting]

(* A denied attempt still writes the windows it has begun anew.  The client waits from the
   present on. *)
AttemptDenied(k, now) ==
  /\ HasRoom(k, now)
  /\ Exhausted(WindowsOf(k, now)) # {}
  /\ shard' = With(k, WindowsOf(k, now), now)
  /\ wait' = [wait EXCEPT ![k] = [told |-> TRUE, until |-> MaxWait + RetryAfter(WindowsOf(k, now), now)]]
  /\ UNCHANGED admitted

TableFull(k, now) ==
  /\ ~HasRoom(k, now)
  /\ shard' = Purged(now)
  /\ wait' = [wait EXCEPT ![k] = NotWaiting]
  /\ UNCHANGED admitted

ShardDamaged ==
  /\ shard # EmptyShard
  /\ shard' = EmptyShard
  /\ admitted' = NoAdmission
  /\ UNCHANGED wait

Earlier(t) == IF t = 0 THEN 0 ELSE t - 1

RateTick ==
  /\ shard' = [k \in DOMAIN shard |-> [w \in Windows |-> [shard[k][w] EXCEPT !.reset = Earlier(@)]]]
  /\ admitted' = [k \in Pairs |-> [n \in 0 .. Longest - 1 |->
                    IF n = 0 THEN 0 ELSE admitted[k][n - 1]]]
  /\ wait' = [k \in Pairs |-> IF wait[k].told THEN [wait[k] EXCEPT !.until = Earlier(@)] ELSE wait[k]]

RateNext ==
  \/ \E k \in Pairs, now \in Clocks : AttemptAdmitted(k, now) \/ AttemptDenied(k, now) \/ TableFull(k, now)
  \/ ShardDamaged \/ RateTick

RateSpec == RateInit /\ [][RateNext]_rateVars

-----------------------------------------------------------------------------
(* _load_secret: the first process creates the file and then fills it. *)

SecretInit ==
  /\ secret = [made |-> FALSE, by |-> <<>>]
  /\ loader = [p \in RateWorkers |-> [step |-> "start"]]

SecretCreate(p) ==
  /\ loader[p].step = "start" /\ ~secret.made
  /\ secret' = [secret EXCEPT !.made = TRUE]
  /\ loader' = [loader EXCEPT ![p].step = "write"]

SecretExists(p) ==
  /\ loader[p].step = "start" /\ secret.made
  /\ loader' = [loader EXCEPT ![p] = [step |-> "read", tries |-> 0]]
  /\ UNCHANGED secret

SecretWrite(p) ==
  /\ loader[p].step = "write"
  /\ secret' = [secret EXCEPT !.by = Append(@, p)]
  /\ loader' = [loader EXCEPT ![p] = IF Len(secret'.by) = 2 THEN [step |-> "has", key |-> <<p, p>>] ELSE @]

(* A bug: any contents will do. *)
SecretCompleteAny(x) == x # <<>>

SecretComplete(x) == Len(x) = 2

SecretRead(p) ==
  /\ loader[p].step = "read"
  /\ loader' = [loader EXCEPT ![p] =
       IF SecretComplete(secret.by) THEN [step |-> "has", key |-> secret.by]
       ELSE IF loader[p].tries + 1 < SecretReads THEN [step |-> "read", tries |-> loader[p].tries + 1]
       ELSE [step |-> "unavailable"]]
  /\ UNCHANGED secret

(* The next request calls _load_secret again. *)
SecretAgain(p) ==
  /\ loader[p].step \in {"has", "unavailable"}
  /\ loader' = [loader EXCEPT ![p] = [step |-> "start"]]
  /\ UNCHANGED secret

SecretWorkerDies(p) ==
  /\ loader[p].step # "start"
  /\ loader' = [loader EXCEPT ![p] = [step |-> "start"]]
  /\ UNCHANGED secret

SecretNext ==
  \E p \in RateWorkers :
    SecretCreate(p) \/ SecretExists(p) \/ SecretWrite(p) \/ SecretRead(p) \/ SecretAgain(p) \/ SecretWorkerDies(p)

SecretSpec == SecretInit /\ [][SecretNext]_secretVars

-----------------------------------------------------------------------------
(* Windows of fixed length that begin with an attempt, counted by clocks that were read
   before the lock: requests that were overtaken fall into windows begun after them, or
   begin one early.  In any stretch that is shorter than a window by the longest wait, a
   pair gets at most twice the limit, however its attempts fall, and the table stays
   within its size. *)
AttemptsBounded ==
  /\ Cardinality(DOMAIN shard) <= MaxTrackedKeys
  /\ \A k \in Pairs, w \in Windows :
       admitted[k][LengthOf[w] - MaxWait - 1] <= 2 * LimitOf[w]

(* A client that waits as long as Retry-After says before its next request is admitted, if
   there is room for it, however old the clock was by which it was refused and however long
   the next request waits. *)
RetryAfterIsEnough ==
  \A k \in Pairs, now \in Clocks :
    wait[k].told /\ wait[k].until <= now /\ HasRoom(k, now) => Exhausted(WindowsOf(k, now)) = {}

(* Workers that count at all count under the same key, also when one dies while it
   creates the secret: otherwise each would grant the limit again. *)
OneSecret ==
  \A p, q \in RateWorkers :
    loader[p].step = "has" /\ loader[q].step = "has" => loader[p].key = loader[q].key

(* What the limiter promises (auth_rate_limit.py): attempts and memory are bounded, its
   Retry-After can be relied on, and all processes count together. *)
RateLimitPromise == AttemptsBounded /\ RetryAfterIsEnough /\ OneSecret
=============================================================================
