----------------------------- MODULE DestinationCatalog -----------------------------
(***************************************************************************)
(* A user's Destination from its creation to the URL a Node publishes to:   *)
(* catalog_store.py under its file lock, verify_destination with the probe  *)
(* between two holds of the lock, destination_secret_store.py, the check of *)
(* prepare_session and the delivery at Node bootstrap.  Requests run in     *)
(* several worker threads and processes; a step is one hold of a lock.      *)
(*                                                                          *)
(* A destination is edited by its owner only (_get_owned refuses everyone   *)
(* else before any change), so one destination at a time is modelled; ids   *)
(* are never used twice.  Other users matter through the secret store.      *)
(***************************************************************************)
EXTENDS Integers, FiniteSets

CONSTANTS Urls, SrtUrls,            \* server URLs, and the ones of scheme srt
          Owner, Others,            \* the destination's user and the rest
          Refs,                     \* secret_ref values
          Peers,                    \* addresses a host may resolve to
          Verifiers, MaxProbes,     \* concurrent verify requests and their slots
          MaxDests                  \* bound on created destinations

ASSUME CatalogAssumption ==
  /\ MaxProbes \in Nat \ {0} /\ MaxDests \in Nat
  /\ Owner \notin Others
  /\ SrtUrls \subseteq Urls

VARIABLES dest,       \* the stored destination
          dests,      \* how many were created
          verify,     \* each verify request
          vault,      \* the secret store: key -> the user who wrote it
          secretWriter,     \* the owner's request that puts or deletes a secret
          bound,      \* the destination id prepare bound to the session
          boot        \* the bootstrap request

catalogVars == <<dest, dests, verify, vault, secretWriter, bound, boot>>

Types == {"rtmp", "srt"}
Scheme(url) == IF url \in SrtUrls THEN "srt" ELSE "rtmp"

NoDest == [id |-> 0]
NoPeer == [url |-> "none", ip |-> "none"]
Waiting == [phase |-> "idle"]

(* SHA-256 of the user and the reference. *)
SecretKeyOfRef(user, ref) == <<Owner, ref>>
SecretKey(user, ref) == <<user, ref>>

CatalogInit ==
  /\ dest = NoDest /\ dests = 0
  /\ verify = [v \in Verifiers |-> Waiting]
  /\ vault = [k \in {} |-> Owner]
  /\ secretWriter = Waiting /\ bound = 0 /\ boot = Waiting
-----------------------------------------------------------------------------
Stored == dest # NoDest

(* "probed" is a history variable: the URL the verdict was reached for. *)
CreateDestination(url, type, ref) ==
  /\ ~Stored /\ dests < MaxDests
  /\ dests' = dests + 1
  /\ dest' = [id |-> dests + 1, url |-> url, type |-> type, ref |-> ref, enabled |-> TRUE,
              status |-> "UNVERIFIED", transport |-> NoPeer, probed |-> "none"]
  /\ UNCHANGED <<verify, vault, secretWriter, bound, boot>>

(* A new URL loses the verdict on the old one. *)
WithUrlOnly(d, url) == [d EXCEPT !.url = url]
WithUrl(d, url) ==
  IF url = d.url THEN d
  ELSE [d EXCEPT !.url = url, !.status = "UNVERIFIED", !.transport = NoPeer, !.probed = "none"]

UpdateDestination(url, ref, enabled) ==
  /\ Stored
  /\ dest' = [WithUrl(dest, url) EXCEPT !.ref = ref, !.enabled = enabled]
  /\ UNCHANGED <<dests, verify, vault, secretWriter, bound, boot>>

(* Its secrets stay in the vault. *)
DeleteDestination ==
  /\ Stored
  /\ dest' = NoDest
  /\ UNCHANGED <<dests, verify, vault, secretWriter, bound, boot>>
-----------------------------------------------------------------------------
(* verify_destination, inside an admission slot. *)
SlotHeld == { v \in Verifiers : verify[v].phase # "idle" }

VerifyStart(v) ==
  /\ verify[v].phase = "idle" /\ Stored
  /\ Cardinality(SlotHeld) < MaxProbes
  /\ verify' = [verify EXCEPT ![v] =
       [phase |-> IF Scheme(dest.url) = dest.type THEN "probe" ELSE "failed",
        id |-> dest.id, url |-> dest.url, ip |-> "none"]]
  /\ UNCHANGED <<dest, dests, vault, secretWriter, bound, boot>>

(* The probe, outside the lock: an address, or an error, or another protocol. *)
ProbePasses(v, ip) ==
  /\ verify[v].phase = "probe"
  /\ verify' = [verify EXCEPT ![v].phase = "passed", ![v].ip = ip]
  /\ UNCHANGED <<dest, dests, vault, secretWriter, bound, boot>>

ProbeFails(v) ==
  /\ verify[v].phase = "probe"
  /\ verify' = [verify EXCEPT ![v].phase = "failed"]
  /\ UNCHANGED <<dest, dests, vault, secretWriter, bound, boot>>

(* The second hold of the lock: the same destination, and still the probed URL. *)
StillCurrentById(v) == Stored /\ dest.id = verify[v].id
StillCurrent(v) == Stored /\ dest.id = verify[v].id /\ dest.url = verify[v].url

RecordVerified(v) ==
  /\ verify[v].phase = "passed"
  /\ dest' = IF StillCurrent(v)
             THEN [dest EXCEPT !.status = "VERIFIED", !.probed = verify[v].url,
                               !.transport = [url |-> verify[v].url, ip |-> verify[v].ip]]
             ELSE dest
  /\ verify' = [verify EXCEPT ![v] = Waiting]
  /\ UNCHANGED <<dests, vault, secretWriter, bound, boot>>

RecordVerificationFailure(v) ==
  /\ verify[v].phase = "failed"
  /\ dest' = IF StillCurrent(v)
             THEN [dest EXCEPT !.status = "FAILED", !.probed = verify[v].url, !.transport = NoPeer]
             ELSE dest
  /\ verify' = [verify EXCEPT ![v] = Waiting]
  /\ UNCHANGED <<dests, vault, secretWriter, bound, boot>>

(* The worker dies; the kernel frees its slot. *)
VerifierDies(v) ==
  /\ verify[v].phase # "idle"
  /\ verify' = [verify EXCEPT ![v] = Waiting]
  /\ UNCHANGED <<dest, dests, vault, secretWriter, bound, boot>>
-----------------------------------------------------------------------------
(* put_destination_secret and delete_destination_secret read the reference, then use it. *)
SecretRequest(op) ==
  /\ secretWriter.phase = "idle" /\ Stored
  /\ secretWriter' = [phase |-> op, ref |-> dest.ref]
  /\ UNCHANGED <<dest, dests, verify, vault, bound, boot>>

Put(user, ref) == [k \in DOMAIN vault \cup {SecretKey(user, ref)} |->
                     IF k = SecretKey(user, ref) THEN user ELSE vault[k]]

Without(user, ref) == [k \in DOMAIN vault \ {SecretKey(user, ref)} |-> vault[k]]

SecretWritten ==
  /\ secretWriter.phase \in {"put", "delete"}
  /\ vault' = IF secretWriter.phase = "put" THEN Put(Owner, secretWriter.ref) ELSE Without(Owner, secretWriter.ref)
  /\ secretWriter' = Waiting
  /\ UNCHANGED <<dest, dests, verify, bound, boot>>

(* Another user writes a secret; the reference is that user's own choice. *)
OtherPuts(user, ref) ==
  /\ vault' = Put(user, ref)
  /\ UNCHANGED <<dest, dests, verify, secretWriter, bound, boot>>
-----------------------------------------------------------------------------
(* build_egress_url refuses other protocols and a scheme that is not the type's. *)
EgressUrlBuilds(d) == d.type \in {"rtmp", "rtmps"} /\ Scheme(d.url) = d.type

Usable(d) == d.enabled /\ d.status = "VERIFIED"

(* prepare_session: the checks of _validated_destination, then the id is bound.  *)
(* The secret is read after the destination; between the two only the vault can  *)
(* have changed, and the binding does not depend on it.                          *)
ValidatedDestination ==
  /\ bound = 0 /\ Stored /\ Usable(dest) /\ EgressUrlBuilds(dest)
  /\ SecretKey(Owner, dest.ref) \in DOMAIN vault
  /\ bound' = dest.id
  /\ UNCHANGED <<dest, dests, verify, vault, secretWriter, boot>>

(* Bootstrap: the destination as it is now, checked again, then its secret. *)
DeliveryRead ==
  /\ boot.phase = "idle" /\ bound # 0
  /\ boot' = IF Stored /\ dest.id = bound /\ Usable(dest)
             THEN [phase |-> "resolve", d |-> dest] ELSE [phase |-> "refused"]
  /\ UNCHANGED <<dest, dests, verify, vault, secretWriter, bound>>

ResolveEgressDelivery ==
  /\ boot.phase = "resolve"
  /\ LET key == SecretKey(Owner, boot.d.ref)
     IN  boot' = IF key \in DOMAIN vault /\ EgressUrlBuilds(boot.d)
                 THEN [phase |-> "delivered", url |-> boot.d.url, peer |-> boot.d.transport, of |-> vault[key]]
                 ELSE [phase |-> "refused"]
  /\ UNCHANGED <<dest, dests, verify, vault, secretWriter, bound>>

(* A refused Node bootstraps again. *)
BootstrapAgain ==
  /\ boot.phase \in {"refused", "delivered"}
  /\ boot' = Waiting
  /\ UNCHANGED <<dest, dests, verify, vault, secretWriter, bound>>

CatalogNext ==
  \/ \E url \in Urls, ref \in Refs : \/ \E t \in Types : CreateDestination(url, t, ref)
                                     \/ \E enabled \in BOOLEAN : UpdateDestination(url, ref, enabled)
  \/ DeleteDestination
  \/ \E v \in Verifiers : \/ VerifyStart(v) \/ ProbeFails(v) \/ VerifierDies(v)
                          \/ \E ip \in Peers : ProbePasses(v, ip)
                          \/ RecordVerified(v) \/ RecordVerificationFailure(v)
  \/ \E op \in {"put", "delete"} : SecretRequest(op)
  \/ SecretWritten
  \/ \E u \in Others, ref \in Refs : OtherPuts(u, ref)
  \/ ValidatedDestination \/ DeliveryRead \/ ResolveEgressDelivery \/ BootstrapAgain

CatalogSpec == CatalogInit /\ [][CatalogNext]_catalogVars
-----------------------------------------------------------------------------
(***************************************************************************)
(* A verdict is about the URL it stands next to: whatever edits, deletions  *)
(* and other verify requests happen while a probe runs, VERIFIED and FAILED *)
(* were reached by a probe of the stored URL (verify_destination re-reads   *)
(* the URL under the lock before it writes).                                *)
(***************************************************************************)
VerdictIsForUrl == Stored /\ dest.status # "UNVERIFIED" => dest.probed = dest.url

(***************************************************************************)
(* What a Node is told to publish to was proven: the delivered URL and the  *)
(* pinned address come from one successful probe of that URL, although the  *)
(* destination may be edited between verification, prepare and bootstrap.   *)
(***************************************************************************)
DeliveryIsVerified ==
  boot.phase = "delivered" => boot.peer.url = boot.url /\ boot.peer.ip \in Peers

(***************************************************************************)
(* No stream key crosses users: the key in a delivered URL was written by   *)
(* the destination's owner, even when others chose the same secret_ref.     *)
(***************************************************************************)
DeliveryIsOwn == boot.phase = "delivered" => boot.of = Owner

(***************************************************************************)
(* What the path of a destination from its verification to a Node promises  *)
(* (catalog_store.py, node_internal.py): verdicts, addresses and keys that  *)
(* belong to the stored URL and its owner.                                  *)
(***************************************************************************)
DestinationPromise == VerdictIsForUrl /\ DeliveryIsVerified /\ DeliveryIsOwn
=============================================================================
