-------------------------------- MODULE AccountAuth --------------------------------
(***************************************************************************)
(* Registration, login, logout and the collection of expired sessions.      *)
(*                                                                         *)
(* A request that has passed the rate limit takes a password slot without    *)
(* waiting, works on the password outside the state lock, and then writes     *)
(* under it.  Slots are file locks: a process that dies gives its back.      *)
(* An expiry is kept as the ticks until it, negative once it has passed.     *)
(***************************************************************************)
EXTENDS Integers, FiniteSets, FiniteSetsExt

CONSTANTS
  Logins,         \* requests at a time
  Emails,
  Passwords,
  MaxConcurrent,  \* IRLIGHT_AUTH_KDF_MAX_CONCURRENT
  SessionTtl,     \* SESSION_TTL_SECONDS
  MaxDeletions,   \* --max-delete
  MaxSessions,    \* bound on session records
  MaxLag          \* bound on how long a collector waits for the lock

ASSUME AccountAssumption ==
  /\ {MaxConcurrent, MaxDeletions} \subseteq Nat \ {0}
  /\ {SessionTtl, MaxSessions, MaxLag} \subseteq Nat
  /\ "free" \notin Logins

VARIABLES
  users,      \* users.json: the password of each registered email, or "none"
  slots,      \* who holds slot-N.lock
  login,      \* requests
  sessions,   \* auth_sessions.json: token -> [email, left]
  tokens,     \* tokens given out
  gc          \* a collector between its clock and the lock

accountVars == <<users, slots, login, sessions, tokens, gc>>

NoLogin == [step |-> "none"]
NoGc == [step |-> "none"]

AccountInit ==
  /\ users = [e \in Emails |-> "none"]
  /\ slots = [i \in 0 .. MaxConcurrent - 1 |-> "free"]
  /\ login = [p \in Logins |-> NoLogin]
  /\ sessions = [t \in {} |-> 0] /\ tokens = 0
  /\ gc = NoGc

-----------------------------------------------------------------------------
(* auth_kdf_slot *)

Arrive(p, kind, e, pw) ==
  /\ login[p] = NoLogin
  /\ login' = [login EXCEPT ![p] = [step |-> "slot", i |-> 0, kind |-> kind, email |-> e, pw |-> pw]]
  /\ UNCHANGED <<users, slots, sessions, tokens, gc>>

(* A bug: a slot that is held is taken as well. *)
SlotFreeAlways(i) == TRUE

SlotFree(i) == slots[i] = "free"

(* One slot file after the other; when all were held, the request is refused. *)
TrySlot(p) ==
  LET i == login[p].i IN
  /\ login[p].step = "slot"
  /\ IF SlotFree(i)
       THEN /\ slots' = [slots EXCEPT ![i] = p]
            /\ login' = [login EXCEPT ![p].step = "work"]
       ELSE /\ login' = [login EXCEPT ![p] = IF i + 1 < MaxConcurrent THEN [@ EXCEPT !.i = i + 1] ELSE NoLogin]
            /\ UNCHANGED slots
  /\ UNCHANGED <<users, sessions, tokens, gc>>

Held(p) == {i \in DOMAIN slots : slots[i] = p}
Released(p) == [i \in DOMAIN slots |-> IF slots[i] = p THEN "free" ELSE slots[i]]

-----------------------------------------------------------------------------
(* The password work is done outside the lock: a registration hashes and then looks the
   email up under it, a login looks up and then verifies. *)

HashPassword(p) ==
  /\ login[p].step = "work" /\ login[p].kind = "register"
  /\ login' = [login EXCEPT ![p].step = "commit"]
  /\ UNCHANGED <<users, slots, sessions, tokens, gc>>

(* A bug: the email was looked up before the hash. *)
EmailFreeUnchecked(e) == TRUE

EmailFree(e) == users[e] = "none"

(* register_user; the slot is held until it returns or raises. *)
RegisterCommit(p) ==
  /\ login[p].step = "commit"
  /\ users' = IF EmailFree(login[p].email) THEN [users EXCEPT ![login[p].email] = login[p].pw] ELSE users
  /\ slots' = Released(p)
  /\ login' = [login EXCEPT ![p] = NoLogin]
  /\ UNCHANGED <<sessions, tokens, gc>>

(* An unknown email is verified against the dummy record. *)
LookupUser(p) ==
  /\ login[p].step = "work" /\ login[p].kind = "login"
  /\ login' = [login EXCEPT ![p] = [step |-> "verify", email |-> @.email, pw |-> @.pw, stored |-> users[@.email]]]
  /\ UNCHANGED <<users, slots, sessions, tokens, gc>>

VerifyPassword(p) ==
  /\ login[p].step = "verify"
  /\ slots' = Released(p)
  /\ login' = [login EXCEPT ![p] = IF @.stored = @.pw THEN [step |-> "session", email |-> @.email, late |-> 0]
                                  ELSE NoLogin]
  /\ UNCHANGED <<users, sessions, tokens, gc>>

(* create_session reads the clock before the lock. *)
CreateSession(p) ==
  /\ login[p].step = "session"
  /\ Cardinality(DOMAIN sessions) < MaxSessions /\ tokens < MaxSessions + 1
  /\ tokens' = tokens + 1
  /\ sessions' = [t \in DOMAIN sessions \cup {tokens + 1} |->
                    IF t \in DOMAIN sessions THEN sessions[t]
                    ELSE [email |-> login[p].email, left |-> SessionTtl - login[p].late]]
  /\ login' = [login EXCEPT ![p] = NoLogin]
  /\ UNCHANGED <<users, slots, gc>>

Logout(t) ==
  /\ t \in DOMAIN sessions /\ sessions[t].left > 0
  /\ sessions' = [u \in DOMAIN sessions \ {t} |-> sessions[u]]
  /\ UNCHANGED <<users, slots, login, tokens, gc>>

(* The kernel drops the locks of a process that dies. *)
LoginDies(p) ==
  /\ login[p] # NoLogin
  /\ login' = [login EXCEPT ![p] = NoLogin]
  /\ slots' = Released(p)
  /\ UNCHANGED <<users, sessions, tokens, gc>>

-----------------------------------------------------------------------------
(* prune_expired_sessions: the clock is read before the lock is awaited. *)

GcStart ==
  /\ gc = NoGc
  /\ gc' = [step |-> "lock", late |-> 0]
  /\ UNCHANGED <<users, slots, login, sessions, tokens>>

(* A bug: what expires within a tick counts as expired. *)
ExpiredEarly(t) == sessions[t].left <= 1

(* expires_at <= now, by the clock that was read *)
Expired(t) == sessions[t].left + gc.late <= 0

(* A bug: nothing is deleted when there is more than one run's worth. *)
SelectedNone(X) == IF Cardinality(X) <= MaxDeletions THEN {X} ELSE {{}}

(* heapq.nsmallest: the oldest first; equal ones in any order *)
Selected(X) ==
  IF Cardinality(X) <= MaxDeletions THEN {X}
  ELSE {S \in kSubset(MaxDeletions, X) : \A s \in S, r \in X \ S : sessions[s].left <= sessions[r].left}

GcRun ==
  /\ gc.step = "lock"
  /\ \E S \in Selected({t \in DOMAIN sessions : Expired(t)}) :
       sessions' = [t \in DOMAIN sessions \ S |-> sessions[t]]
  /\ gc' = NoGc
  /\ UNCHANGED <<users, slots, login, tokens>>

AccountTick ==
  /\ gc # NoGc => gc.late < MaxLag
  /\ \A p \in Logins : login[p].step = "session" => login[p].late < MaxLag
  /\ sessions' = [t \in DOMAIN sessions |->
                    [sessions[t] EXCEPT !.left = IF @ > -MaxLag THEN @ - 1 ELSE @]]
  /\ gc' = IF gc = NoGc THEN NoGc ELSE [gc EXCEPT !.late = @ + 1]
  /\ login' = [p \in Logins |-> IF login[p].step = "session" THEN [login[p] EXCEPT !.late = @ + 1] ELSE login[p]]
  /\ UNCHANGED <<users, slots, tokens>>

AccountNext ==
  \/ \E p \in Logins :
       \/ \E kind \in {"register", "login"}, e \in Emails, pw \in Passwords : Arrive(p, kind, e, pw)
       \/ TrySlot(p) \/ HashPassword(p) \/ RegisterCommit(p) \/ LookupUser(p) \/ VerifyPassword(p)
       \/ CreateSession(p) \/ LoginDies(p)
  \/ \E t \in 1 .. MaxSessions + 1 : Logout(t)
  \/ GcStart \/ GcRun \/ AccountTick

AccountSpec == AccountInit /\ [][AccountNext]_accountVars

-----------------------------------------------------------------------------
(* Password work is bounded across processes, whoever dies: nobody works without a slot of
   its own, and none is held when no work is being done. *)
KdfBounded ==
  /\ \A p \in Logins : login[p].step \in {"work", "commit", "verify"} <=> Held(p) # {}
  /\ Cardinality({p \in Logins : login[p].step \in {"work", "commit", "verify"}}) <= MaxConcurrent

(* Of two registrations of one email the first keeps the account: its password is never
   replaced, though both hashed before either wrote. *)
AccountIsFirstComers ==
  [][\A e \in Emails : users[e] # "none" => users'[e] = users[e]]_accountVars

(* A session lasts until its expiry or its logout: the collector, whose clock may be
   behind, takes none that is still good. *)
LiveSessionsKept ==
  [][\A t \in DOMAIN sessions : t \notin DOMAIN sessions' => sessions[t].left <= 0 \/ Logout(t)]_accountVars

(* Every session record is collected in the end, however few a run may delete. *)
SessionsCollected == \A t \in 1 .. MaxSessions + 1 : t \in DOMAIN sessions ~> t \notin DOMAIN sessions

(* What registration, login and the collector of login sessions promise (auth_store.py):
   bounded password work, no account taken over, no live session lost. *)
AccountPromise == []KdfBounded /\ AccountIsFirstComers /\ LiveSessionsKept
=============================================================================
