------------------------------ MODULE EvictedWorker ------------------------------
(***************************************************************************)
(* The one way in which a Session with a single preparing worker can end   *)
(* and leave something at the provider.  A history variable remembers      *)
(* whether the operation was ever taken from a worker that was creating    *)
(* resources.  The operation itself does not tell: it stays set after      *)
(* BOOTSTRAPPING, so that the ordinary end of a production Session, too,   *)
(* goes through the reaper's path for overdue operations.                  *)
(***************************************************************************)
EXTENDS SessionLifecycle

VARIABLE evicted   \* a worker that was creating resources lost its operation

(* A step takes the operation from a worker that may still create. *)
Evicts == \E p \in Procs : Creating(p) /\ sess'.op # sess.op

HistoryInit == Init /\ evicted = FALSE

HistoryNext == Next /\ evicted' = (evicted \/ Evicts)

HistorySpec == HistoryInit /\ [][HistoryNext]_<<vars, evicted>>

-----------------------------------------------------------------------------
(* The states of a Session that is over. *)
Over == sess.status \in {"FINISHED", "FAILED"}

(* With one prepare request, a Session that is over has a volume or a server
   at the provider only when the operation was taken from a worker that was
   still creating them, and only the provisioning timeout takes it: cleanups
   with failing, lost or pending deletes, a crash, a stalled holder or a stop
   between any two steps leave nothing, also in the overdue path through which
   the reaper ends an ordinary Session. *)
StrayOnlyAfterTimeout ==
  /\ Over /\ vols \cup srvs # {} => evicted
  /\ evicted => sess.overdue

(* A worker that creates resources has the operation until it is evicted. *)
OwnedInv == \A p \in Procs : pc[p] \in CreateSteps => sess.op = 1 \/ evicted

(* A cleanup whose result is good so far has seen the servers gone, has the
   remaining volumes in its snapshot, and at its end has left nothing. *)
ResultInv ==
  ~evicted => \A q \in Procs : ok[q] =>
    /\ pc[q] \in {"delVol", "volCall"} => srvs = {} /\ vols \subseteq todo[q]
    /\ pc[q] \in {"settle", "settleStop", "settleFail"} => srvs = {} /\ vols = {}

(* The inductive invariant behind it, on top of Inv and SingleInv. *)
HistoryInv == evicted \in BOOLEAN /\ OwnedInv /\ ResultInv /\ StrayOnlyAfterTimeout
=============================================================================
