------------------------------ MODULE MCAuthentication ------------------------------
(***************************************************************************)
(* Everything that checks a secret, for TLC: the Node's authorization proxy *)
(* and its relay reads, the guard of the ingest endpoint, the accounts, and *)
(* the limiter of login attempts with the secret it counts under.  The      *)
(* parts share no state, so a behaviour takes the steps of one of them and  *)
(* the others rest.                                                         *)
(***************************************************************************)
EXTENDS IngestAuthProxy, IngestAuthGuard, AccountAuth, AuthRateLimit

VARIABLE part

ingestVars == <<proxyVars, relayVars, guardVars>>
loginVars == <<accountVars, rateVars, secretVars>>

vars == <<part, ingestVars, loginVars>>

Init ==
  /\ part \in {"proxy", "relay", "guard", "account", "rate", "secret"}
  /\ ProxyInit /\ RelayInit /\ GuardInit /\ AccountInit /\ RateInit /\ SecretInit

InGuard(A) == part = "guard" /\ A /\ UNCHANGED <<part, proxyVars, relayVars, loginVars>>
InAccount(A) == part = "account" /\ A /\ UNCHANGED <<part, ingestVars, rateVars, secretVars>>

Next ==
  \/ part = "proxy" /\ ProxyNext /\ UNCHANGED <<part, relayVars, guardVars, loginVars>>
  \/ part = "relay" /\ RelayNext /\ UNCHANGED <<part, proxyVars, guardVars, loginVars>>
  \/ InGuard(GuardNext)
  \/ InAccount(AccountNext)
  \/ part = "rate" /\ RateNext /\ UNCHANGED <<part, ingestVars, accountVars, secretVars>>
  \/ part = "secret" /\ SecretNext /\ UNCHANGED <<part, ingestVars, accountVars, rateVars>>

(* Time passes for the guard and for the login sessions; the collector runs again and
   again and gets the lock; a login that was verified gets the lock too, or dies. *)
Spec ==
  /\ Init /\ [][Next]_vars
  /\ WF_vars(InGuard(GuardTick))
  /\ WF_vars(InAccount(AccountTick))
  /\ WF_vars(InAccount(GcStart))
  /\ WF_vars(InAccount(GcRun))
  /\ \A p \in Logins : WF_vars(InAccount(LoginDies(p) \/ CreateSession(p)))

(* Nobody is shut out and nothing is kept for ever: however many requests fail during a lockout
   of the guard it ends (ingest_auth_guard.py), and every login session is collected in the end,
   however few a run of the collector may delete (auth_store.py). *)
LocksAndSessionsEnd == LockoutEnds /\ SessionsCollected
=============================================================================
