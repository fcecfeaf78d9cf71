---------------------------- MODULE ControlPlaneProofs ----------------------------
(***************************************************************************)
(* Proofs about the stores around the Session: the catalogue a user edits,  *)
(* from the probe of a destination to the URL and stream key a Node         *)
(* receives (DestinationCatalog), one probe and its children                *)
(* (DestinationProbe), standby assets (AssetCatalog), the event log with    *)
(* the audio command (SessionEvents), and the alert evaluators              *)
(* (OperationsAlerts).  Each holds for every set of URLs, users, requests   *)
(* and addresses, every time budget, retention and record limit.            *)
(***************************************************************************)
EXTENDS DestinationCatalog, DestinationProbe, AssetCatalog, SessionEvents, OperationsAlerts, SequenceTheorems,
        FiniteSetTheorems, WellFoundedInduction, TLAPS

(***************************************************************************)
(* DestinationCatalog.  The promise speaks of what was delivered; what      *)
(* makes it inductive is the same knowledge about every copy on the way:    *)
(* the stored record, the probe results in flight, the snapshot a bootstrap *)
(* works from, and the owner of every key in the vault.                     *)
(***************************************************************************)
PeerType == [url : Urls \cup {"none"}, ip : Peers \cup {"none"}]
DestType == [id : Nat, url : Urls, type : Types, ref : Refs, enabled : BOOLEAN,
             status : {"UNVERIFIED", "VERIFIED", "FAILED"}, transport : PeerType,
             probed : Urls \cup {"none"}]
VerifyType == [phase : {"probe", "passed", "failed"}, id : Nat, url : Urls, ip : Peers \cup {"none"}]

(* A record's verdict was reached for its own URL, and its address by a pass. *)
Proven(d) ==
  /\ d.status # "UNVERIFIED" => d.probed = d.url
  /\ d.status = "VERIFIED" => d.transport.url = d.url /\ d.transport.ip \in Peers

DestInv == Stored => dest \in DestType /\ Proven(dest)

VerifyInv ==
  /\ verify \in [Verifiers -> {Waiting} \cup VerifyType]
  /\ \A v \in Verifiers : verify[v].phase = "passed" => verify[v].ip \in Peers

VaultInv == \A k \in DOMAIN vault : vault[k] = k[1]

BootInv ==
  /\ boot.phase = "resolve" => boot.d \in DestType /\ Proven(boot.d) /\ boot.d.status = "VERIFIED"
  /\ DeliveryIsVerified /\ DeliveryIsOwn

CatalogInv == dests \in Nat /\ DestInv /\ VerifyInv /\ VaultInv /\ BootInv

(* An edit keeps a verdict with the URL it was reached for, or drops it. *)
LEMMA WithUrlProven ==
  ASSUME NEW d \in DestType, Proven(d), NEW url \in Urls, NEW ref \in Refs, NEW enabled \in BOOLEAN
  PROVE  LET e == [WithUrl(d, url) EXCEPT !.ref = ref, !.enabled = enabled]
         IN  e \in DestType /\ Proven(e)
<1> DEFINE e == [WithUrl(d, url) EXCEPT !.ref = ref, !.enabled = enabled]
<1>1. CASE url = d.url
  <2>1. e = [d EXCEPT !.ref = ref, !.enabled = enabled]  BY <1>1 DEF WithUrl
  <2> QED  BY <2>1 DEF DestType, PeerType, Proven
<1>2. CASE url # d.url
  <2>1. e = [[d EXCEPT !.url = url, !.status = "UNVERIFIED", !.transport = NoPeer, !.probed = "none"]
               EXCEPT !.ref = ref, !.enabled = enabled]
    BY <1>2 DEF WithUrl
  <2>2. NoPeer \in PeerType  BY DEF NoPeer, PeerType
  <2> QED  BY <2>1, <2>2 DEF DestType, Proven
<1> QED  BY <1>1, <1>2

(* A user writes only keys of its own, and a deletion changes no other key. *)
LEMMA VaultKeepsOwners ==
  ASSUME VaultInv, NEW user, NEW ref
  PROVE  /\ \A k \in DOMAIN Put(user, ref) : Put(user, ref)[k] = k[1]
         /\ \A k \in DOMAIN Without(user, ref) : Without(user, ref)[k] = k[1]
  BY DEF VaultInv, Put, Without, SecretKey

LEMMA CatalogInitial == ASSUME CatalogInit PROVE CatalogInv
<1> USE DEF CatalogInit
<1>1. DestInv  BY DEF DestInv, Stored
<1>2. VerifyInv  BY DEF VerifyInv, Waiting
<1>3. VaultInv  BY DEF VaultInv
<1>4. BootInv  BY DEF BootInv, DeliveryIsVerified, DeliveryIsOwn, Waiting
<1> QED  BY <1>1, <1>2, <1>3, <1>4 DEF CatalogInv

LEMMA CatalogStep == ASSUME CatalogInv, [CatalogNext]_catalogVars PROVE CatalogInv'
<1> USE DEF CatalogInv
<1>1. ASSUME NEW url \in Urls, NEW ref \in Refs, NEW t \in Types, CreateDestination(url, t, ref)
      PROVE CatalogInv'
  <2>1. dest' \in DestType /\ Proven(dest')
    BY <1>1 DEF CreateDestination, DestType, Proven, NoPeer, PeerType
  <2>2. dests' \in Nat /\ UNCHANGED <<verify, vault, boot>>  BY <1>1 DEF CreateDestination
  <2> QED  BY <2>1, <2>2 DEF DestInv, VerifyInv, VaultInv, BootInv, DeliveryIsVerified, DeliveryIsOwn
<1>2. ASSUME NEW url \in Urls, NEW ref \in Refs, NEW enabled \in BOOLEAN, UpdateDestination(url, ref, enabled)
      PROVE CatalogInv'
  <2>1. dest' \in DestType /\ Proven(dest')
    BY <1>2, WithUrlProven DEF UpdateDestination, DestInv
  <2>2. UNCHANGED <<dests, verify, vault, boot>>  BY <1>2 DEF UpdateDestination
  <2> QED  BY <2>1, <2>2 DEF DestInv, VerifyInv, VaultInv, BootInv, DeliveryIsVerified, DeliveryIsOwn
<1>3. CASE DeleteDestination
  BY <1>3 DEF DeleteDestination, DestInv, Stored, VerifyInv, VaultInv, BootInv, DeliveryIsVerified, DeliveryIsOwn
<1>4. ASSUME NEW v \in Verifiers, VerifyStart(v)
      PROVE CatalogInv'
  <2>1. dest \in DestType  BY <1>4 DEF VerifyStart, DestInv
  <2> DEFINE r == [phase |-> IF Scheme(dest.url) = dest.type THEN "probe" ELSE "failed",
                   id |-> dest.id, url |-> dest.url, ip |-> "none"]
  <2>2. r \in VerifyType /\ r.phase # "passed"  BY <2>1 DEF VerifyType, DestType
  <2>3. verify' = [verify EXCEPT ![v] = r]  BY <1>4 DEF VerifyStart
  <2> HIDE DEF r
  <2>4. VerifyInv'  BY <2>2, <2>3 DEF VerifyInv
  <2>5. UNCHANGED <<dest, dests, vault, boot>>  BY <1>4 DEF VerifyStart
  <2> QED  BY <2>4, <2>5 DEF DestInv, Stored, VaultInv, BootInv, DeliveryIsVerified, DeliveryIsOwn
<1>5. ASSUME NEW v \in Verifiers, NEW ip \in Peers, ProbePasses(v, ip)
      PROVE CatalogInv'
  <2>1. verify[v] \in VerifyType  BY <1>5 DEF ProbePasses, VerifyInv, Waiting
  <2>2. verify' = [verify EXCEPT ![v] = [verify[v] EXCEPT !.phase = "passed", !.ip = ip]]
    BY <1>5 DEF ProbePasses, VerifyInv
  <2>3. [verify[v] EXCEPT !.phase = "passed", !.ip = ip] \in VerifyType
    BY <2>1 DEF VerifyType
  <2>4. VerifyInv'
    BY <2>1, <2>2, <2>3 DEF VerifyInv, VerifyType
  <2>5. UNCHANGED <<dest, dests, vault, boot>>  BY <1>5 DEF ProbePasses
  <2> QED  BY <2>4, <2>5 DEF DestInv, Stored, VaultInv, BootInv, DeliveryIsVerified, DeliveryIsOwn
<1>6. ASSUME NEW v \in Verifiers, ProbeFails(v)
      PROVE CatalogInv'
  <2>1. verify[v] \in VerifyType  BY <1>6 DEF ProbeFails, VerifyInv, Waiting
  <2>2. verify' = [verify EXCEPT ![v] = [verify[v] EXCEPT !.phase = "failed"]]
    BY <1>6 DEF ProbeFails, VerifyInv
  <2>3. [verify[v] EXCEPT !.phase = "failed"] \in VerifyType
    BY <2>1 DEF VerifyType
  <2>4. VerifyInv'
    BY <2>1, <2>2, <2>3 DEF VerifyInv, VerifyType
  <2>5. UNCHANGED <<dest, dests, vault, boot>>  BY <1>6 DEF ProbeFails
  <2> QED  BY <2>4, <2>5 DEF DestInv, Stored, VaultInv, BootInv, DeliveryIsVerified, DeliveryIsOwn
<1>7. ASSUME NEW v \in Verifiers,
             RecordVerified(v) \/ RecordVerificationFailure(v) \/ VerifierDies(v)
      PROVE CatalogInv'
  <2>1. verify' = [verify EXCEPT ![v] = Waiting]
    BY <1>7 DEF RecordVerified, RecordVerificationFailure, VerifierDies
  <2>2. VerifyInv'  BY <2>1 DEF VerifyInv, Waiting
  <2>3. UNCHANGED <<dests, vault, boot>>
    BY <1>7 DEF RecordVerified, RecordVerificationFailure, VerifierDies
  <2>4. DestInv'
    <3>1. CASE dest' = dest  BY <3>1 DEF DestInv, Stored
    <3>2. CASE dest' # dest
      <4>1. StillCurrent(v) /\ dest \in DestType /\ dest.url = verify[v].url
        BY <1>7, <3>2 DEF RecordVerified, RecordVerificationFailure, VerifierDies, StillCurrent, DestInv
      <4>2. CASE RecordVerified(v)
        <5> DEFINE p == [url |-> verify[v].url, ip |-> verify[v].ip]
        <5>1. p \in PeerType /\ p.url = dest.url /\ p.ip \in Peers
          BY <4>1, <4>2 DEF RecordVerified, VerifyInv, PeerType, DestType
        <5>2. dest' = [dest EXCEPT !.status = "VERIFIED", !.probed = dest.url, !.transport = p]
          BY <4>1, <4>2 DEF RecordVerified
        <5> HIDE DEF p
        <5>3. dest' \in DestType /\ Proven(dest')
          BY <4>1, <5>1, <5>2 DEF DestType, Proven
        <5> QED  BY <5>3 DEF DestInv
      <4>3. CASE RecordVerificationFailure(v)
        <5>1. dest' = [dest EXCEPT !.status = "FAILED", !.probed = dest.url, !.transport = NoPeer]
          BY <4>1, <4>3 DEF RecordVerificationFailure
        <5>2. NoPeer \in PeerType  BY DEF NoPeer, PeerType
        <5>3. dest' \in DestType /\ Proven(dest')
          BY <4>1, <5>1, <5>2 DEF DestType, Proven
        <5> QED  BY <5>3 DEF DestInv
      <4> QED  BY <1>7, <3>2, <4>2, <4>3 DEF VerifierDies
    <3> QED  BY <3>1, <3>2
  <2> QED  BY <2>2, <2>3, <2>4 DEF VaultInv, BootInv, DeliveryIsVerified, DeliveryIsOwn
<1>8. ASSUME NEW op \in {"put", "delete"}, SecretRequest(op)
      PROVE CatalogInv'
  BY <1>8 DEF SecretRequest, DestInv, Stored, VerifyInv, VaultInv, BootInv, DeliveryIsVerified, DeliveryIsOwn
<1>9. CASE SecretWritten
  <2>1. VaultInv'  BY <1>9, VaultKeepsOwners DEF SecretWritten, VaultInv
  <2>2. UNCHANGED <<dest, dests, verify, boot>>  BY <1>9 DEF SecretWritten
  <2> QED  BY <2>1, <2>2 DEF DestInv, Stored, VerifyInv, BootInv, DeliveryIsVerified, DeliveryIsOwn
<1>10. ASSUME NEW u \in Others, NEW ref \in Refs, OtherPuts(u, ref)
       PROVE CatalogInv'
  <2>1. VaultInv'  BY <1>10, VaultKeepsOwners DEF OtherPuts, VaultInv
  <2>2. UNCHANGED <<dest, dests, verify, boot>>  BY <1>10 DEF OtherPuts
  <2> QED  BY <2>1, <2>2 DEF DestInv, Stored, VerifyInv, BootInv, DeliveryIsVerified, DeliveryIsOwn
<1>11. CASE ValidatedDestination
  BY <1>11 DEF ValidatedDestination, DestInv, Stored, VerifyInv, VaultInv, BootInv, DeliveryIsVerified, DeliveryIsOwn
<1>12. CASE DeliveryRead
  <2>1. BootInv'
    BY <1>12 DEF DeliveryRead, DestInv, Usable, BootInv, DeliveryIsVerified, DeliveryIsOwn
  <2>2. UNCHANGED <<dest, dests, verify, vault>>  BY <1>12 DEF DeliveryRead
  <2> QED  BY <2>1, <2>2 DEF DestInv, Stored, VerifyInv, VaultInv
<1>13. CASE ResolveEgressDelivery
  <2>1. BootInv'
    BY <1>13 DEF ResolveEgressDelivery, SecretKey, VaultInv, Proven, BootInv, DeliveryIsVerified, DeliveryIsOwn
  <2>2. UNCHANGED <<dest, dests, verify, vault>>  BY <1>13 DEF ResolveEgressDelivery
  <2> QED  BY <2>1, <2>2 DEF DestInv, Stored, VerifyInv, VaultInv
<1>14. CASE BootstrapAgain
  <2>1. BootInv'
    BY <1>14 DEF BootstrapAgain, Waiting, BootInv, DeliveryIsVerified, DeliveryIsOwn
  <2>2. UNCHANGED <<dest, dests, verify, vault>>  BY <1>14 DEF BootstrapAgain
  <2> QED  BY <2>1, <2>2 DEF DestInv, Stored, VerifyInv, VaultInv
<1>15. CASE UNCHANGED catalogVars
  BY <1>15 DEF catalogVars, DestInv, Stored, VerifyInv, VaultInv, BootInv, DeliveryIsVerified, DeliveryIsOwn
<1> QED
  BY <1>1, <1>2, <1>3, <1>4, <1>5, <1>6, <1>7, <1>8, <1>9, <1>10, <1>11, <1>12, <1>13, <1>14, <1>15
  DEF CatalogNext

(***************************************************************************)
(* Whatever a user edits while probes of the destination run and Nodes      *)
(* bootstrap: a stored verdict belongs to the stored URL, a delivered URL   *)
(* carries the address a passed probe of that URL reached, and its stream   *)
(* key was written by the destination's owner.                              *)
(***************************************************************************)
THEOREM DestinationHolds == CatalogSpec => []DestinationPromise
<1>1. CatalogInit => CatalogInv  BY CatalogInitial
<1>2. CatalogInv /\ [CatalogNext]_catalogVars => CatalogInv'  BY CatalogStep
<1>3. CatalogInv => DestinationPromise
  BY DEF CatalogInv, DestInv, BootInv, Proven, DestinationPromise, VerdictIsForUrl
<1> QED  BY <1>1, <1>2, <1>3, PTL DEF CatalogSpec
-----------------------------------------------------------------------------
(***************************************************************************)
(* DestinationProbe.  Outside the phases in which a verifier lives there is *)
(* neither a child nor a reader; the addresses left, and the one in use,    *)
(* are allowed ones; a verdict "connected" carries the time it was reached. *)
(***************************************************************************)
ProbePhases == {"begin", "resolve", "dnsreap", "next", "spawn", "rtmp", "wait", "cleanup", "term",
                "reap", "join", "ok", "error"}

ProbeTypeOK ==
  /\ probe \in [phase : ProbePhases, kind : {"rtmp", "srt"}, left : Seq({"public"}),
                peer : {"none", "public"}, verdict : {"none", "connected", "next", "error"},
                connectedAt : Nat, dirty : BOOLEAN]
  /\ elapsed \in Nat /\ until \in Nat
  /\ running \in {0, 1}

QuietInv ==
  probe.phase \in {"begin", "resolve", "dnsreap", "next", "spawn", "rtmp", "ok"} =>
    running = 0 /\ reader # "reads"

PeerInv ==
  probe.phase \in {"spawn", "rtmp", "wait", "cleanup", "term", "reap", "join", "ok"} => probe.peer = "public"

VerdictInv ==
  /\ probe.verdict = "connected" \/ probe.phase = "ok" => probe.connectedAt < HandshakeDeadline

BudgetInv ==
  /\ probe.phase = "begin" => elapsed = 0
  /\ probe.phase = "resolve" => elapsed <= HandshakeDeadline /\ until = HandshakeDeadline
  /\ EndsInBudget

ProbeInv == ProbeTypeOK /\ QuietInv /\ PeerInv /\ VerdictInv /\ BudgetInv

LEMMA DeadlineTypes ==
  HandshakeDeadline \in Nat /\ CleanupDeadline \in Nat /\ HandshakeDeadline <= CleanupDeadline
  BY ProbeAssumption DEF HandshakeDeadline, CleanupDeadline

LEMMA ProbeInitial == ASSUME ProbeInit PROVE ProbeInv
<1>1. ProbeTypeOK  BY DEF ProbeInit, ProbeTypeOK, ProbePhases
<1>2. QuietInv /\ PeerInv /\ VerdictInv  BY DEF ProbeInit, QuietInv, PeerInv, VerdictInv
<1>3. BudgetInv  BY DeadlineTypes DEF ProbeInit, BudgetInv, EndsInBudget
<1> QED  BY <1>1, <1>2, <1>3 DEF ProbeInv

(* An answer that is used names allowed addresses only. *)
LEMMA AllowedAnswers == ASSUME NEW a \in Answers, Allowed(a) PROVE a \in Seq({"public"})
<1>1. PICK n \in 1..2 : a \in [1..n -> {"public", "private"}]  BY DEF Answers
<1>2. a \in [1..n -> {"public"}]  BY <1>1 DEF Allowed
<1> QED  BY <1>2

LEMMA ProbeStep == ASSUME ProbeInv, [ProbeNext]_probeVars PROVE ProbeInv'
<1> USE DeadlineTypes
<1> USE DEF ProbeInv, ProbeTypeOK, ProbePhases, QuietInv, PeerInv, VerdictInv, BudgetInv, EndsInBudget
<1>1. CASE ProbeTick  BY <1>1 DEF ProbeTick
<1>2. CASE StartResolver  BY <1>2 DEF StartResolver, Goes
<1>3. ASSUME NEW a \in Answers, Resolved(a) PROVE ProbeInv'
  <2>1. CASE Allowed(a)
    <3>1. a \in Seq({"public"})  BY <2>1, AllowedAnswers
    <3>2. probe' = [probe EXCEPT !.phase = "next", !.left = a] /\ UNCHANGED <<elapsed, until, running, reader>>
      BY <1>3, <2>1 DEF Resolved
    <3>3. probe.phase = "resolve"  BY <1>3 DEF Resolved
    <3>4. /\ probe'.phase = "next" /\ probe'.verdict = probe.verdict
          /\ probe'.connectedAt = probe.connectedAt
      BY <3>2
    <3>5. ProbeTypeOK'  BY <3>1, <3>2
    <3> QED  BY <3>2, <3>3, <3>4, <3>5
  <2>2. CASE ~Allowed(a)  BY <1>3, <2>2 DEF Resolved, Raises
  <2> QED  BY <2>1, <2>2
<1>4. CASE ResolverFails
  <2>1. /\ probe.phase = "resolve" /\ probe' = [probe EXCEPT !.phase = "dnsreap"]
        /\ until' = elapsed + ResolverCleanup /\ UNCHANGED <<elapsed, running, reader>>
    BY <1>4 DEF ResolverFails, Goes
  <2>2. until' \in Nat  BY <2>1, ProbeAssumption
  <2>3. /\ probe'.phase = "dnsreap" /\ probe'.verdict = probe.verdict
        /\ probe'.connectedAt = probe.connectedAt /\ ProbeTypeOK'
    BY <2>1, <2>2
  <2> QED  BY <2>1, <2>3
<1>5. CASE ResolverReaped  BY <1>5 DEF ResolverReaped, Raises
<1>6. CASE ResolverStuck  BY <1>6 DEF ResolverStuck, Raises
<1>7. CASE TryNext
  <2>1. CASE probe.left = <<>> \/ ~BudgetLeft  BY <1>7, <2>1 DEF TryNext, Raises
  <2>2. CASE probe.left # <<>> /\ BudgetLeft
    <3>1. Head(probe.left) = "public" /\ Tail(probe.left) \in Seq({"public"})  BY <2>2
    <3> QED  BY <1>7, <2>2, <3>1 DEF TryNext, BudgetLeft
  <2> QED  BY <2>1, <2>2
<1>8. CASE RtmpConnected  BY <1>8 DEF RtmpConnected, InTime, Raises
<1>9. CASE RtmpFails  BY <1>9 DEF RtmpFails, Raises
<1>10. ASSUME NEW c, Popen(c) PROVE ProbeInv'  BY <1>10 DEF Popen, Goes
<1>11. CASE PopenFails  BY <1>11 DEF PopenFails, Raises
<1>12. CASE ChildExits  BY <1>12 DEF ChildExits
<1>13. CASE ReaderStops  BY <1>13 DEF ReaderStops
<1>14. ASSUME NEW e, ReaderEmits(e) PROVE ProbeInv'  BY <1>14 DEF ReaderEmits
<1>15. CASE EventArrives
  <2>1. /\ Judged(event) \in {"connected", "next", "error"}
        /\ Judged(event) = "connected" => elapsed < HandshakeDeadline
    BY DEF Judged, InTime
  <2> QED  BY <1>15, <2>1 DEF EventArrives
<1>16. CASE EventTimeout  BY <1>16 DEF EventTimeout
<1>17. CASE CleanupStarts
  <2>1. until' \in Nat /\ until' <= CleanupDeadline
    BY <1>17, ProbeAssumption DEF CleanupStarts, Least, ReapUntil
  <2>2. CASE running > 0  BY <1>17, <2>1, <2>2 DEF CleanupStarts
  <2>3. CASE ~(running > 0)  BY <1>17, <2>1, <2>3 DEF CleanupStarts
  <2> QED  BY <2>2, <2>3
<1>18. CASE ChildObeys  BY <1>18 DEF ChildObeys
<1>19. CASE TermEnds  BY <1>19 DEF TermEnds, Goes, ReapUntil
<1>20. CASE ReapEnds
  <2> DEFINE dirty == running > 0
  <2>1. dirty \in BOOLEAN  OBVIOUS
  <2>2. probe' = [probe EXCEPT !.phase = "join", !.dirty = dirty]  BY <1>20 DEF ReapEnds
  <2> HIDE DEF dirty
  <2>3. ProbeTypeOK'  BY <1>20, <2>1, <2>2 DEF ReapEnds, ReapUntil
  <2>4. /\ probe'.phase = "join" /\ probe'.peer = probe.peer /\ probe'.verdict = probe.verdict
        /\ probe'.connectedAt = probe.connectedAt
    BY <2>2
  <2>5. probe.phase = "reap" /\ until' = CleanupDeadline /\ UNCHANGED <<elapsed, running, reader>>
    BY <1>20 DEF ReapEnds, ReapUntil
  <2> HIDE DEF ProbeTypeOK
  <2>6. elapsed' \in Nat /\ probe.phase = "reap"  BY <2>5 DEF ProbeTypeOK
  <2> QED  BY <2>3, <2>4, <2>5, <2>6
<1>21. CASE JoinEnds  BY <1>21 DEF JoinEnds, CleanupFailed, Raises
<1>22. CASE UNCHANGED probeVars  BY <1>22 DEF probeVars
<1> QED
  BY <1>1, <1>2, <1>3, <1>4, <1>5, <1>6, <1>7, <1>8, <1>9, <1>10, <1>11, <1>12, <1>13, <1>14, <1>15,
     <1>16, <1>17, <1>18, <1>19, <1>20, <1>21, <1>22
  DEF ProbeNext

(***************************************************************************)
(* One probe of a destination, for every timeout, grace period and answer   *)
(* of the resolver: no verifier child or reader outlives its address, a     *)
(* pass was earned within the budget at an allowed address, and all         *)
(* addresses and signals share one handshake budget and one cleanup budget. *)
(***************************************************************************)
THEOREM ProbeHolds == ProbeSpec => []ProbePromise
<1>1. ProbeInit => ProbeInv  BY ProbeInitial
<1>2. ProbeInv /\ [ProbeNext]_probeVars => ProbeInv'  BY ProbeStep
<1>3. ProbeInv => ProbePromise
  BY DEF ProbeInv, ProbeTypeOK, QuietInv, PeerInv, VerdictInv, BudgetInv, ProbePromise, VerifierIsReaped,
         PassedInTime
<1> QED  BY <1>1, <1>2, <1>3, PTL DEF ProbeSpec
-----------------------------------------------------------------------------
(***************************************************************************)
(* AssetCatalog.                                                            *)
(***************************************************************************)
AssetType == [status : {"PENDING", "UPLOADING", "PROCESSING", "FAILED", "DELETED"}, user : AssetUsers,
              key : ObjectKeys, type : {"none", "png", "webp"}]

AssetInv == assets \in [AssetIds -> {NoAsset} \cup AssetType] /\ ProcessedIsOwn

(* What every step does to one asset: it stays, or it moves to a later stage. *)
LEMMA AssetStep ==
  ASSUME AssetInv, [AssetNext]_assetVars
  PROVE  AssetInv' /\ \A i \in AssetIds : Stage(assets[i].status) <= Stage(assets'[i].status)
<1>1. ASSUME NEW user \in AssetUsers, NEW id \in AssetIds,
             \/ \E key \in ObjectKeys : CreateAsset(user, id, key)
             \/ \E type \in {"png", "webp"} : CreateAssetUploadIntent(user, id, type)
      PROVE  AssetInv' /\ \A i \in AssetIds : Stage(assets[i].status) <= Stage(assets'[i].status)
  <2>1. PICK a \in AssetType : /\ assets' = [assets EXCEPT ![id] = a]
                               /\ a.status \in {"PENDING", "UPLOADING"}
    <3>1. ASSUME NEW key \in ObjectKeys, CreateAsset(user, id, key)
          PROVE  \E a \in AssetType : /\ assets' = [assets EXCEPT ![id] = a]
                                      /\ a.status \in {"PENDING", "UPLOADING"}
      <4> DEFINE b == [status |-> "PENDING", user |-> user, key |-> key, type |-> "none"]
      <4>1. b \in AssetType /\ b.status = "PENDING"  BY DEF AssetType
      <4>2. assets' = [assets EXCEPT ![id] = b]  BY <3>1 DEF CreateAsset
      <4> HIDE DEF b
      <4> QED  BY <4>1, <4>2
    <3>2. ASSUME NEW type \in {"png", "webp"}, CreateAssetUploadIntent(user, id, type)
          PROVE  \E a \in AssetType : /\ assets' = [assets EXCEPT ![id] = a]
                                      /\ a.status \in {"PENDING", "UPLOADING"}
      <4> DEFINE b == [status |-> "UPLOADING", user |-> user, key |-> SourceObjectKey(user, id), type |-> type]
      <4>1. b \in AssetType /\ b.status = "UPLOADING"  BY DEF AssetType, SourceObjectKey, ObjectKeys
      <4>2. assets' = [assets EXCEPT ![id] = b]  BY <3>2 DEF CreateAssetUploadIntent
      <4> HIDE DEF b
      <4> QED  BY <4>1, <4>2
    <3> QED  BY <1>1, <3>1, <3>2
  <2>2. assets[id].status = "NONE"  BY <1>1 DEF CreateAsset, CreateAssetUploadIntent, NoAsset
  <2>3. AssetInv'  BY <2>1 DEF AssetInv, ProcessedIsOwn
  <2>4. \A i \in AssetIds : assets'[i] = IF i = id THEN a ELSE assets[i]  BY <2>1 DEF AssetInv
  <2>5. Stage("NONE") = 0 /\ Stage(a.status) = 1  BY <2>1 DEF Stage
  <2>6. \A i \in AssetIds : Stage(assets[i].status) \in 0..4  BY DEF Stage
  <2> QED  BY <2>2, <2>3, <2>4, <2>5, <2>6
<1>2. ASSUME NEW user \in AssetUsers, NEW id \in AssetIds,
             \/ \E type \in {"png", "webp"}, key \in ObjectKeys : CompleteAssetUpload(user, id, type, key)
             \/ CompleteAssetProcessing(user, id)
             \/ DeleteAsset(user, id)
      PROVE  AssetInv' /\ \A i \in AssetIds : Stage(assets[i].status) <= Stage(assets'[i].status)
  <2>1. assets[id] \in AssetType /\ assets[id].user = user /\ assets[id].status # "DELETED"
    BY <1>2 DEF CompleteAssetUpload, CompleteAssetProcessing, DeleteAsset, Owned, AssetInv, NoAsset
  <2>2. PICK a \in AssetType :
          /\ assets' = [assets EXCEPT ![id] = a]
          /\ a.status \in {"PROCESSING", "FAILED"} => a.key = <<a.user, id>>
          /\ Stage(assets[id].status) <= Stage(a.status)
    <3>1. CASE \E type \in {"png", "webp"}, key \in ObjectKeys : CompleteAssetUpload(user, id, type, key)
      <4>1. PICK key \in ObjectKeys : /\ assets' = [assets EXCEPT ![id].status = "PROCESSING", ![id].key = key]
                                      /\ key = <<user, id>> /\ assets[id].status = "UPLOADING"
        BY <3>1 DEF CompleteAssetUpload, IsOwnerBoundKey, SourceObjectKey, AwaitingUpload
      <4> DEFINE b == [assets[id] EXCEPT !.status = "PROCESSING", !.key = key]
      <4>2. assets' = [assets EXCEPT ![id] = b]  BY <4>1 DEF AssetInv
      <4>3. b \in AssetType /\ b.key = <<b.user, id>> /\ b.status = "PROCESSING"
        BY <2>1, <4>1 DEF AssetType
      <4>4. Stage(assets[id].status) <= Stage(b.status)  BY <4>1, <4>3 DEF Stage
      <4> HIDE DEF b
      <4> QED  BY <4>2, <4>3, <4>4, Zenon
    <3>2. CASE CompleteAssetProcessing(user, id)
      <4> DEFINE b == [assets[id] EXCEPT !.status = "FAILED"]
      <4>1. assets' = [assets EXCEPT ![id] = b] /\ assets[id].status = "PROCESSING"
        BY <3>2 DEF CompleteAssetProcessing, AssetInv
      <4>2. b \in AssetType /\ b.key = <<b.user, id>> /\ b.status = "FAILED"
        BY <2>1, <4>1 DEF AssetType, AssetInv, ProcessedIsOwn
      <4>3. Stage(assets[id].status) <= Stage(b.status)  BY <4>1, <4>2 DEF Stage
      <4> HIDE DEF b
      <4> QED  BY <4>1, <4>2, <4>3, Zenon
    <3>3. CASE DeleteAsset(user, id)
      <4> DEFINE b == [assets[id] EXCEPT !.status = "DELETED"]
      <4>1. assets' = [assets EXCEPT ![id] = b]  BY <3>3 DEF DeleteAsset, AssetInv
      <4>2. b \in AssetType /\ b.status = "DELETED"  BY <2>1 DEF AssetType
      <4>3. Stage(assets[id].status) <= Stage(b.status)  BY <4>2 DEF Stage
      <4> HIDE DEF b
      <4> QED  BY <4>1, <4>2, <4>3, Zenon
    <3> QED  BY <1>2, <3>1, <3>2, <3>3
  <2>3. AssetInv'  BY <2>2 DEF AssetInv, ProcessedIsOwn
  <2>4. \A i \in AssetIds : assets'[i] = IF i = id THEN a ELSE assets[i]  BY <2>2 DEF AssetInv
  <2>5. \A i \in AssetIds : Stage(assets[i].status) \in 0..4  BY DEF Stage
  <2> QED  BY <2>2, <2>3, <2>4, <2>5
<1>3. CASE UNCHANGED assetVars
  <2>1. \A i \in AssetIds : Stage(assets[i].status) \in 0..4  BY DEF Stage
  <2> QED  BY <1>3, <2>1 DEF assetVars, AssetInv, ProcessedIsOwn
<1> QED  BY <1>1, <1>2, <1>3 DEF AssetNext

(***************************************************************************)
(* For all users, assets and caller-named keys: only an object under its    *)
(* owner's derived key is ever processed, and no late or repeated           *)
(* completion takes a finished or deleted asset back to an earlier stage.   *)
(***************************************************************************)
THEOREM AssetsHold == AssetSpec => AssetPromise
<1>1. AssetInit => AssetInv  BY DEF AssetInit, AssetInv, ProcessedIsOwn, NoAsset
<1>2. AssetInv /\ [AssetNext]_assetVars => AssetInv'  BY AssetStep
<1>3. AssetInv /\ [AssetNext]_assetVars =>
        [\A i \in AssetIds : Stage(assets[i].status) <= Stage(assets'[i].status)]_assets
  BY AssetStep
<1>4. AssetInv => ProcessedIsOwn  BY DEF AssetInv
<1> QED  BY <1>1, <1>2, <1>3, <1>4, PTL DEF AssetSpec, AssetPromise, AssetNeverRearmed

-----------------------------------------------------------------------------
(***************************************************************************)
(* SessionEvents.  Log and audio control need little: numbers are given     *)
(* once, and every accepted command was for an older version.  That log,    *)
(* Session and Node agree needs to be said of a heartbeat in the middle of  *)
(* its several transactions.                                                *)
(***************************************************************************)
EgressOn == {"egress.connected", "egress.recovered"}
EgressOff == {"egress.starting", "egress.disconnected", "egress.reconnecting",
              "egress.auth_failed", "egress.failed", "egress.stopped"}
RelayOn == {"relay.client.connected", "relay.client.reconnected"}
EventTypes == EgressOn \cup EgressOff \cup RelayOn
                \cup {"relay.client.disconnected", "custom", "media_control.audio.requested"}

HeartbeatType == [step : {"egress", "append", "update", "relay", "commit"},
                  egress : EgressObservations, relay : BOOLEAN,
                  todo : Seq(EgressOn \cup EgressOff), sent : SUBSET {"egress", "relay"},
                  failed : SUBSET {"egress", "relay"}]

EventsTypeOK ==
  /\ phase \in {"active", "stopping", "over"}
  /\ log \in Seq(Nat) /\ nextSeq \in Nat
  /\ told \in [egress : BOOLEAN, relay : BOOLEAN] /\ shown \in [egress : BOOLEAN, relay : BOOLEAN]
  /\ audio.version \in Nat /\ accepted \subseteq Command
  /\ node \in [egress : EgressObservations, egressEver : BOOLEAN, relay : BOOLEAN, relayEver : BOOLEAN]
  /\ hb \in {Idle} \cup HeartbeatType
  /\ torn \subseteq {"egress", "relay"}

(* A command that took effect was for an older version of the audio control. *)
AcceptedInv == \A c \in accepted : c.expected < audio.version

(* What the last event that is left to append will say is what was observed. *)
Concludes(todo, connected) ==
  /\ todo # <<>>
  /\ todo[Len(todo)] \in IF connected THEN EgressOn ELSE EgressOff

Sent(kind) == hb # Idle /\ kind \in hb.sent

(* The heartbeat in progress.  Unless the store refused it, what it has sent is, once the
   Session is updated, what it observed, and what it has not sent is what the Node's
   record says already. *)
ReportInv ==
  hb # Idle =>
    /\ hb.step = "egress" => hb.sent = {}
    /\ hb.step \in {"egress", "append"} => Concludes(hb.todo, hb.egress.connected)
    /\ hb.step = "append" => hb.sent \subseteq {"egress"}
    /\ hb.step = "update" => hb.sent = {"egress"} /\ told.egress = hb.egress.connected
    /\ hb.step = "relay" => hb.sent \subseteq {"egress"}
    /\ hb.step \in {"relay", "commit"} /\ "egress" \notin hb.failed =>
         IF "egress" \in hb.sent THEN told.egress = hb.egress.connected /\ shown.egress = hb.egress.connected
         ELSE phase = "active" => hb.egress.connected = node.egress.connected
    /\ hb.step = "commit" /\ "relay" \notin hb.failed =>
         IF "relay" \in hb.sent THEN told.relay = hb.relay /\ shown.relay = hb.relay
         ELSE phase = "active" => hb.relay = node.relay

(* What nobody is in the middle of reporting, and no dead heartbeat has left half
   reported, is told and shown as the Node's record has it. *)
AgreeInv ==
  phase = "active" =>
    /\ "egress" \notin torn /\ ~Sent("egress") =>
         told.egress = node.egress.connected /\ shown.egress = node.egress.connected
    /\ "relay" \notin torn /\ ~Sent("relay") => told.relay = node.relay /\ shown.relay = node.relay

EventsInv == EventsTypeOK /\ LogIsRecent /\ AcceptedInv /\ ReportInv /\ AgreeInv

-----------------------------------------------------------------------------
(* What hearing an event changes. *)
LEMMA HeardFacts ==
  ASSUME NEW t \in [egress : BOOLEAN, relay : BOOLEAN], NEW type \in EventTypes
  PROVE  /\ Heard(t, type) \in [egress : BOOLEAN, relay : BOOLEAN]
         /\ type \in EgressOn => Heard(t, type).egress = TRUE
         /\ type \in EgressOff => Heard(t, type).egress = FALSE
         /\ type \notin EgressOn \cup EgressOff => Heard(t, type).egress = t.egress
         /\ type \in RelayOn => Heard(t, type).relay = TRUE
         /\ type = "relay.client.disconnected" => Heard(t, type).relay = FALSE
         /\ type \notin RelayOn \cup {"relay.client.disconnected"} => Heard(t, type).relay = t.relay
  BY DEF Heard, EventTypes, EgressOn, EgressOff, RelayOn

(* Appending gives the next number once and keeps the newest Retention events. *)
LEMMA AppendKeepsLog ==
  ASSUME log \in Seq(Nat), nextSeq \in Nat, LogIsRecent, NEW type, AppendEvent(type)
  PROVE  log' \in Seq(Nat) /\ nextSeq' \in Nat /\ LogIsRecent'
<1>1. Retention \in Nat \ {0}
  BY EventsAssumption
<1> DEFINE n == NextEventSequence
           s == Append(log, n)
<1>2. n \in Nat /\ n > 0
  <2>1. CASE nextSeq > 0
    BY <2>1 DEF NextEventSequence
  <2>2. CASE nextSeq = 0
    <3>1. log # <<>> /\ Len(log) \in 1 .. Len(log)
      BY <2>2 DEF LogIsRecent
    <3>2. log[Len(log)] \in Nat
      BY <3>1
    <3> QED BY <2>2, <3>1, <3>2 DEF NextEventSequence, Last
  <2> QED BY <2>1, <2>2
<1>3. /\ Len(log) <= Retention
      /\ \A i \in 1 .. Len(log) : log[i] = n - Len(log) + i - 1
      /\ Len(log) < Retention => n = Len(log) + 1
  BY DEF LogIsRecent
<1>4. log' = Retained(s) /\ nextSeq' = n + 1
  BY DEF AppendEvent
<1>5. NextEventSequence' = n + 1
  BY <1>2, <1>4 DEF NextEventSequence
<1> HIDE DEF n
<1>6. s \in Seq(Nat) /\ Len(s) = Len(log) + 1 /\ \A i \in 1 .. Len(s) : s[i] = n - Len(log) + i - 1
  BY <1>2, <1>3
<1> HIDE DEF s
<1>7. CASE Len(s) > Retention
  <2>1. log' = SubSeq(s, Len(s) - Retention + 1, Len(s))
    BY <1>4, <1>7 DEF Retained
  <2>2. Len(s) = Retention + 1
    BY <1>1, <1>3, <1>6, <1>7
  <2>3. log' \in Seq(Nat) /\ Len(log') = Retention
    BY <1>1, <1>6, <2>1, <2>2
  <2>4. \A i \in 1 .. Len(log') : log'[i] = s[i + 1]
    BY <1>1, <1>6, <2>1, <2>2, <2>3
  <2>5. \A i \in 1 .. Len(log') : log'[i] = (n + 1) - Len(log') + i - 1
    <3> TAKE i \in 1 .. Len(log')
    <3>1. i \in 1 .. Retention /\ i + 1 \in 1 .. Len(s)
      BY <1>1, <2>2, <2>3
    <3>2. log'[i] = n - Len(log) + (i + 1) - 1
      BY <1>6, <2>4, <3>1
    <3>3. Len(log) = Retention /\ Len(log') = Retention
      BY <1>1, <1>6, <2>2, <2>3
    <3> HIDE DEF s
    <3> QED BY <1>1, <1>2, <3>1, <3>2, <3>3
  <2> QED BY <1>1, <1>2, <1>4, <1>5, <2>3, <2>5 DEF LogIsRecent
<1>8. CASE Len(s) <= Retention
  <2>1. log' = s
    BY <1>1, <1>4, <1>6, <1>8 DEF Retained
  <2> QED BY <1>1, <1>2, <1>3, <1>4, <1>5, <1>6, <1>8, <2>1 DEF LogIsRecent
<1> QED BY <1>1, <1>6, <1>7, <1>8

LEMMA ObservationFacts ==
  ASSUME NEW o \in EgressObservations
  PROVE  /\ o.status \in EgressStatuses /\ o.connected \in BOOLEAN
         /\ o.connected => o.status = "CONNECTED"
<1>1. CASE o = [status |-> "CONNECTED", connected |-> TRUE]
  BY <1>1 DEF EgressStatuses
<1>2. CASE \E x \in EgressStatuses : o = [status |-> x, connected |-> FALSE]
  BY <1>2
<1> QED BY <1>1, <1>2 DEF EgressObservations

(* The events of a change end with one that says what was observed; no event means
   that nothing a reader can tell has changed. *)
LEMMA EgressTypesFacts ==
  ASSUME NEW prev \in EgressObservations, NEW cur \in EgressObservations, NEW ever \in BOOLEAN
  PROVE  LET types == EgressEventTypes(prev, cur, ever) IN
         /\ types \in Seq(EgressOn \cup EgressOff)
         /\ types = <<>> => cur.connected = prev.connected
         /\ types # <<>> => Concludes(types, cur.connected)
<1> DEFINE T == EgressOn \cup EgressOff
           types == EgressEventTypes(prev, cur, ever)
           mapping == [RECONNECTING |-> <<"egress.reconnecting">>, AUTH_FAILED |-> <<"egress.auth_failed">>,
                       FAILED |-> <<"egress.failed">>, STOPPED |-> <<"egress.stopped">>]
           first == IF prev.connected /\ cur.status # "STOPPED" THEN <<"egress.disconnected">> ELSE <<>>
           second == IF cur.status \in DOMAIN mapping THEN mapping[cur.status] ELSE <<>>
<1>1. /\ cur.status \in EgressStatuses /\ cur.connected \in BOOLEAN /\ prev.connected \in BOOLEAN
      /\ cur.connected => cur.status = "CONNECTED"
  BY ObservationFacts
<1>2. CASE cur = prev
  <2>1. types = <<>>
    BY <1>2 DEF EgressEventTypes
  <2> QED BY <1>2, <2>1
<1>3. CASE cur # prev /\ cur.status = "STARTING"
  <2>1. types = <<"egress.starting">>
    BY <1>3 DEF EgressEventTypes
  <2>2. types \in Seq(T) /\ Len(types) = 1 /\ types[1] = "egress.starting" /\ types # <<>>
    BY <2>1 DEF EgressOff
  <2>3. ~cur.connected
    BY <1>1, <1>3
  <2> QED BY <2>2, <2>3 DEF Concludes, EgressOff
<1>4. CASE cur # prev /\ cur.connected
  <2>1. cur.status = "CONNECTED"
    BY <1>1, <1>4
  <2>2. types = <<IF ever THEN "egress.recovered" ELSE "egress.connected">>
    BY <1>4, <2>1 DEF EgressEventTypes
  <2>3. types \in Seq(T) /\ Len(types) = 1 /\ types[1] \in EgressOn /\ types # <<>>
    BY <2>2 DEF EgressOn
  <2> QED BY <1>4, <2>3 DEF Concludes
<1>5. CASE cur # prev /\ cur.status # "STARTING" /\ ~cur.connected
  <2>1. types = first \o second
    BY <1>5 DEF EgressEventTypes
  <2>2. first \in {<<>>, <<"egress.disconnected">>}
    OBVIOUS
  <2>3. /\ cur.status \in {"RECONNECTING", "AUTH_FAILED", "FAILED", "STOPPED"} =>
             second \in {<<"egress.reconnecting">>, <<"egress.auth_failed">>, <<"egress.failed">>, <<"egress.stopped">>}
        /\ cur.status \notin {"RECONNECTING", "AUTH_FAILED", "FAILED", "STOPPED"} => second = <<>>
    <3>1. DOMAIN mapping = {"RECONNECTING", "AUTH_FAILED", "FAILED", "STOPPED"}
      OBVIOUS
    <3> QED BY <3>1
  <2> HIDE DEF first, second, types
  <2>4. CASE second # <<>>
    <3>1. \E x \in EgressOff : second = <<x>>
      BY <2>3, <2>4 DEF EgressOff
    <3>2. PICK x \in EgressOff : second = <<x>>
      BY <3>1
    <3>3. first \in Seq(T) /\ second \in Seq(T) /\ Len(second) = 1 /\ second[1] = x
      <4>1. "egress.disconnected" \in T /\ x \in T
        BY <3>2 DEF EgressOff
      <4>2. second \in Seq(T) /\ Len(second) = 1 /\ second[1] = x
        BY <3>2, <4>1
      <4>3. first \in Seq(T)
        <5>1. <<>> \in Seq(T) /\ <<"egress.disconnected">> \in Seq(T)
          BY <4>1
        <5> QED BY <2>2, <5>1
      <4> QED BY <4>2, <4>3
    <3> HIDE DEF T
    <3>4. types \in Seq(T) /\ Len(types) = Len(first) + 1 /\ types[Len(first) + 1] = second[1]
      <4>1. first \o second \in Seq(T) /\ Len(first \o second) = Len(first) + Len(second)
        BY <3>3, ConcatProperties
      <4>2. Len(first) + 1 \in 1 .. Len(first \o second)
        BY <3>3, <4>1
      <4>3. (first \o second)[Len(first) + 1] = second[1]
        BY <3>3, <4>1, <4>2
      <4> QED BY <2>1, <3>3, <4>1, <4>3
    <3>5. types \in Seq(T) /\ types # <<>> /\ types[Len(types)] = x
      BY <3>3, <3>4
    <3> QED BY <1>5, <3>2, <3>5 DEF Concludes, types, T
  <2>5. CASE second = <<>> /\ first # <<>>
    <3>1. types = <<"egress.disconnected">>
      BY <2>1, <2>2, <2>5
    <3>2. types \in Seq(T) /\ types # <<>> /\ types[Len(types)] \in EgressOff
      BY <3>1 DEF EgressOff
    <3> QED BY <1>5, <3>2 DEF Concludes, types
  <2>6. CASE second = <<>> /\ first = <<>>
    <3>1. types = <<>>
      BY <2>1, <2>6
    <3>2. cur.status # "STOPPED"
      BY <2>3, <2>6
    <3>3. ~prev.connected
      BY <2>6, <3>2 DEF first
    <3> QED BY <1>1, <1>5, <3>1, <3>3 DEF types
  <2> QED BY <2>4, <2>5, <2>6
<1> QED BY <1>1, <1>2, <1>3, <1>4, <1>5

LEMMA EventsInitInv == EventsInit => EventsInv
<1> SUFFICES ASSUME EventsInit PROVE EventsInv
  OBVIOUS
<1>1. EventsTypeOK
  <2>1. [status |-> "UNKNOWN", connected |-> FALSE] \in EgressObservations
    BY DEF EgressObservations, EgressStatuses
  <2>2. node \in [egress : EgressObservations, egressEver : BOOLEAN, relay : BOOLEAN, relayEver : BOOLEAN]
    BY <2>1 DEF EventsInit
  <2>3. log \in Seq(Nat) /\ nextSeq \in Nat
    <3>1. CASE log = <<>> /\ nextSeq = 1
      BY <3>1
    <3>2. CASE log = <<1>> /\ nextSeq \in {0, 2}
      BY <3>2
    <3> QED BY <3>1, <3>2 DEF EventsInit
  <2> QED BY <2>2, <2>3 DEF EventsInit, EventsTypeOK, DefaultMediaControl
<1>2. LogIsRecent
  <2>1. CASE log = <<>> /\ nextSeq = 1
    BY <2>1, EventsAssumption DEF LogIsRecent, NextEventSequence
  <2>2. CASE log = <<1>> /\ nextSeq \in {0, 2}
    <3>1. Len(log) = 1 /\ log[1] = 1 /\ log # <<>>
      BY <2>2
    <3>2. NextEventSequence = 2
      BY <2>2, <3>1 DEF NextEventSequence, Last
    <3> QED BY <3>1, <3>2, EventsAssumption DEF LogIsRecent
  <2> QED BY <2>1, <2>2 DEF EventsInit
<1>3. AcceptedInv /\ ReportInv /\ AgreeInv
  BY DEF EventsInit, AcceptedInv, ReportInv, AgreeInv, Idle
<1> QED BY <1>1, <1>2, <1>3 DEF EventsInv

(* An event that speaks of neither egress nor relay disturbs nothing but the log. *)
LEMMA NeutralAppend ==
  ASSUME EventsInv, NEW type \in {"custom", "media_control.audio.requested"}, AppendEvent(type),
         UNCHANGED <<phase, shown, node, hb, torn>>, audio'.version \in Nat, accepted' \subseteq Command
  PROVE  EventsTypeOK' /\ LogIsRecent' /\ ReportInv' /\ AgreeInv'
<1>1. log' \in Seq(Nat) /\ nextSeq' \in Nat /\ LogIsRecent'
  BY AppendKeepsLog DEF EventsInv, EventsTypeOK
<1>2. told' = told
  BY DEF AppendEvent, Heard
<1>3. EventsTypeOK'
  BY <1>1, <1>2 DEF EventsInv, EventsTypeOK
<1>4. ReportInv' /\ AgreeInv'
  BY <1>2 DEF EventsInv, ReportInv, AgreeInv, Sent
<1> QED BY <1>1, <1>3, <1>4

(* Steps of a heartbeat that write no event leave the log and the audio control. *)
LEMMA LogRests ==
  ASSUME EventsInv, UNCHANGED <<log, nextSeq, audio, accepted>>
  PROVE  log' \in Seq(Nat) /\ nextSeq' \in Nat /\ audio'.version \in Nat /\ LogIsRecent' /\ AcceptedInv'
  BY DEF EventsInv, EventsTypeOK, LogIsRecent, NextEventSequence, AcceptedInv

LEMMA HeartbeatFields ==
  ASSUME EventsTypeOK, hb # Idle
  PROVE  /\ hb \in HeartbeatType
         /\ hb.egress.connected \in BOOLEAN
<1>1. hb \in HeartbeatType /\ hb.egress \in EgressObservations
  BY DEF EventsTypeOK, HeartbeatType
<1> QED BY <1>1, ObservationFacts

LEMMA ReceiveKeeps ==
  ASSUME EventsInv, NEW egress \in EgressObservations, NEW relay \in BOOLEAN, ReceiveHeartbeat(egress, relay)
  PROVE  EventsInv'
<1> DEFINE types == EgressEventTypes(node.egress, egress, node.egressEver)
<1>1. node.egress \in EgressObservations /\ node.egressEver \in BOOLEAN
  BY DEF EventsInv, EventsTypeOK
<1>2. /\ types \in Seq(EgressOn \cup EgressOff)
      /\ types = <<>> => egress.connected = node.egress.connected
      /\ types # <<>> => Concludes(types, egress.connected)
  BY <1>1, EgressTypesFacts
<1> HIDE DEF types
<1>3. /\ hb' = [step |-> IF types = <<>> THEN "relay" ELSE "egress", egress |-> egress, relay |-> relay,
                todo |-> types, sent |-> {}, failed |-> {}]
      /\ hb = Idle /\ UNCHANGED <<phase, log, nextSeq, told, shown, audio, accepted, node, torn>>
  BY DEF ReceiveHeartbeat, types
<1>4. hb' \in HeartbeatType
  BY <1>2, <1>3 DEF HeartbeatType
<1>5. EventsTypeOK' /\ LogIsRecent' /\ AcceptedInv'
  BY <1>3, <1>4, LogRests DEF EventsInv, EventsTypeOK
<1>6. ReportInv'
  BY <1>2, <1>3 DEF ReportInv
<1>7. AgreeInv'
  BY <1>3 DEF EventsInv, AgreeInv, Sent
<1> QED BY <1>5, <1>6, <1>7 DEF EventsInv

LEMMA CheckKeeps == EventsInv /\ EgressCheck => EventsInv'
<1> SUFFICES ASSUME EventsInv, EgressCheck PROVE EventsInv'
  OBVIOUS
<1>1. /\ hb.step = "egress" /\ hb' = [hb EXCEPT !.step = IF phase = "active" THEN "append" ELSE "relay"]
      /\ UNCHANGED <<phase, log, nextSeq, told, shown, audio, accepted, node, torn>>
  BY DEF EgressCheck
<1>2. hb # Idle
  BY <1>1 DEF Idle
<1>3. hb \in HeartbeatType
  BY <1>2, HeartbeatFields DEF EventsInv
<1>4. /\ hb' \in HeartbeatType /\ hb' # Idle /\ hb'.step = IF phase = "active" THEN "append" ELSE "relay"
      /\ hb'.egress = hb.egress /\ hb'.relay = hb.relay /\ hb'.todo = hb.todo /\ hb'.sent = hb.sent
  BY <1>1, <1>3 DEF HeartbeatType, Idle
<1>5. EventsTypeOK' /\ LogIsRecent' /\ AcceptedInv'
  BY <1>1, <1>4, LogRests DEF EventsInv, EventsTypeOK
<1>6. ReportInv'
  BY <1>1, <1>2, <1>4 DEF EventsInv, ReportInv
<1>7. AgreeInv'
  BY <1>1, <1>2, <1>4 DEF EventsInv, AgreeInv, Sent
<1> QED BY <1>5, <1>6, <1>7 DEF EventsInv

LEMMA AppendKeeps == EventsInv /\ EgressAppend => EventsInv'
<1> SUFFICES ASSUME EventsInv, EgressAppend PROVE EventsInv'
  OBVIOUS
<1>1. /\ hb.step = "append" /\ AppendEvent(Head(hb.todo))
      /\ hb' = [hb EXCEPT !.todo = Tail(@), !.sent = {"egress"},
                          !.step = IF Len(hb.todo) = 1 THEN "update" ELSE "append"]
      /\ UNCHANGED <<phase, shown, audio, accepted, node, torn>>
  BY DEF EgressAppend
<1>2. hb # Idle
  BY <1>1 DEF Idle
<1>3. hb \in HeartbeatType /\ hb.egress.connected \in BOOLEAN
  BY <1>2, HeartbeatFields DEF EventsInv
<1>4. Concludes(hb.todo, hb.egress.connected) /\ hb.todo \in Seq(EgressOn \cup EgressOff)
  BY <1>1, <1>2, <1>3 DEF EventsInv, ReportInv, HeartbeatType
<1> DEFINE type == Head(hb.todo)
<1>5. /\ type \in EgressOn \cup EgressOff
      /\ Tail(hb.todo) \in Seq(EgressOn \cup EgressOff)
      /\ Len(hb.todo) = 1 => type \in IF hb.egress.connected THEN EgressOn ELSE EgressOff
      /\ Len(hb.todo) # 1 => Concludes(Tail(hb.todo), hb.egress.connected)
  <2> DEFINE q == hb.todo
             T == EgressOn \cup EgressOff
  <2>1. q \in Seq(T) /\ q # <<>> /\ q[Len(q)] \in IF hb.egress.connected THEN EgressOn ELSE EgressOff
    BY <1>4 DEF Concludes
  <2> HIDE DEF q, T
  <2>2. Len(q) \in Nat \ {0} /\ Head(q) = q[1] /\ Head(q) \in T
    BY <2>1
  <2>3. Tail(q) \in Seq(T) /\ Len(Tail(q)) = Len(q) - 1
    BY <2>1, <2>2
  <2>4. ASSUME Len(q) # 1 PROVE Tail(q) # <<>> /\ Tail(q)[Len(Tail(q))] = q[Len(q)]
    <3>1. Len(q) - 1 \in 1 .. Len(Tail(q))
      BY <2>2, <2>3, <2>4
    <3> QED BY <2>1, <2>2, <2>3, <3>1
  <2> QED BY <2>1, <2>2, <2>3, <2>4 DEF Concludes, q, T
<1>6. type \in EventTypes /\ type \notin RelayOn \cup {"relay.client.disconnected"}
  BY <1>5 DEF EventTypes, EgressOn, EgressOff, RelayOn
<1> HIDE DEF type
<1>7. /\ told' = Heard(told, type) /\ told \in [egress : BOOLEAN, relay : BOOLEAN]
      /\ told' \in [egress : BOOLEAN, relay : BOOLEAN]
      /\ told'.relay = told.relay
      /\ type \in EgressOn => told'.egress = TRUE
      /\ type \in EgressOff => told'.egress = FALSE
  <2>1. told' = Heard(told, type) /\ told \in [egress : BOOLEAN, relay : BOOLEAN]
    BY <1>1 DEF AppendEvent, EventsInv, EventsTypeOK, type
  <2> QED BY <1>6, <2>1, HeardFacts
<1>8. /\ hb' \in HeartbeatType /\ hb' # Idle
      /\ hb'.step = IF Len(hb.todo) = 1 THEN "update" ELSE "append"
      /\ hb'.egress = hb.egress /\ hb'.relay = hb.relay
      /\ hb'.todo = Tail(hb.todo) /\ hb'.sent = {"egress"}
  BY <1>1, <1>3, <1>5 DEF HeartbeatType, Idle
<1>9. log' \in Seq(Nat) /\ nextSeq' \in Nat /\ LogIsRecent'
  BY <1>1, AppendKeepsLog DEF EventsInv, EventsTypeOK
<1>10. EventsTypeOK' /\ AcceptedInv'
  BY <1>1, <1>7, <1>8, <1>9 DEF EventsInv, EventsTypeOK, AcceptedInv
<1>11. ReportInv'
  <2>1. Len(hb.todo) = 1 => told'.egress = hb.egress.connected
    BY <1>3, <1>5, <1>7
  <2> QED BY <1>1, <1>5, <1>8, <2>1 DEF ReportInv
<1>12. AgreeInv'
  <2>1. ~Sent("relay")
    BY <1>1, <1>2 DEF EventsInv, ReportInv, Sent
  <2> QED BY <1>1, <1>7, <1>8, <2>1 DEF EventsInv, AgreeInv, Sent
<1> QED BY <1>9, <1>10, <1>11, <1>12 DEF EventsInv

LEMMA UpdateKeeps == EventsInv /\ EgressUpdate => EventsInv'
<1> SUFFICES ASSUME EventsInv, EgressUpdate PROVE EventsInv'
  OBVIOUS
<1>1. /\ hb.step = "update" /\ shown' = [shown EXCEPT !.egress = hb.egress.connected]
      /\ hb' = [hb EXCEPT !.step = "relay"]
      /\ UNCHANGED <<phase, log, nextSeq, told, audio, accepted, node, torn>>
  BY DEF EgressUpdate
<1>2. hb # Idle
  BY <1>1 DEF Idle
<1>3. hb \in HeartbeatType /\ hb.egress.connected \in BOOLEAN
  BY <1>2, HeartbeatFields DEF EventsInv
<1>4. /\ hb' \in HeartbeatType /\ hb' # Idle /\ hb'.step = "relay"
      /\ hb'.egress = hb.egress /\ hb'.relay = hb.relay /\ hb'.todo = hb.todo /\ hb'.sent = hb.sent
  BY <1>1, <1>3 DEF HeartbeatType, Idle
<1>5. /\ shown' \in [egress : BOOLEAN, relay : BOOLEAN] /\ shown'.relay = shown.relay
      /\ shown'.egress = hb.egress.connected
  BY <1>1, <1>3 DEF EventsInv, EventsTypeOK
<1>6. EventsTypeOK' /\ LogIsRecent' /\ AcceptedInv'
  BY <1>1, <1>4, <1>5, LogRests DEF EventsInv, EventsTypeOK
<1>7. hb.sent = {"egress"} /\ told.egress = hb.egress.connected
  BY <1>1, <1>2 DEF EventsInv, ReportInv
<1>8. ReportInv'
  BY <1>1, <1>4, <1>5, <1>7 DEF ReportInv
<1>9. AgreeInv'
  BY <1>1, <1>2, <1>4, <1>5, <1>7 DEF EventsInv, AgreeInv, Sent
<1> QED BY <1>6, <1>8, <1>9 DEF EventsInv

LEMMA FailKeeps == EventsInv /\ EgressFails => EventsInv'
<1> SUFFICES ASSUME EventsInv, EgressFails PROVE EventsInv'
  OBVIOUS
<1>1. /\ hb.step \in {"egress", "append", "update"}
      /\ hb' = [hb EXCEPT !.step = "relay", !.failed = {"egress"}]
      /\ UNCHANGED <<phase, log, nextSeq, told, shown, audio, accepted, node, torn>>
  BY DEF EgressFails
<1>2. hb # Idle
  BY <1>1 DEF Idle
<1>3. hb \in HeartbeatType
  BY <1>2, HeartbeatFields DEF EventsInv
<1>4. /\ hb' \in HeartbeatType /\ hb' # Idle /\ hb'.step = "relay" /\ hb'.failed = {"egress"}
      /\ hb'.egress = hb.egress /\ hb'.relay = hb.relay /\ hb'.todo = hb.todo /\ hb'.sent = hb.sent
  BY <1>1, <1>3 DEF HeartbeatType, Idle
<1>5. EventsTypeOK' /\ LogIsRecent' /\ AcceptedInv'
  BY <1>1, <1>4, LogRests DEF EventsInv, EventsTypeOK
<1>6. hb.sent \subseteq {"egress"}
  BY <1>1, <1>2 DEF EventsInv, ReportInv
<1>7. ReportInv'
  BY <1>4, <1>6 DEF ReportInv
<1>8. AgreeInv'
  BY <1>1, <1>2, <1>4 DEF EventsInv, AgreeInv, Sent
<1> QED BY <1>5, <1>7, <1>8 DEF EventsInv

LEMMA RelayKeeps == EventsInv /\ RelayApply => EventsInv'
<1> SUFFICES ASSUME EventsInv, RelayApply PROVE EventsInv'
  OBVIOUS
<1> DEFINE types == RelayEventTypes(node.relay, hb.relay, node.relayEver)
<1>1. /\ hb.step = "relay" /\ UNCHANGED <<phase, audio, accepted, node, torn>>
      /\ \/ /\ types # <<>> /\ phase = "active"
            /\ AppendEvent(Head(types)) /\ shown' = [shown EXCEPT !.relay = hb.relay]
            /\ \E failed \in {{}, {"relay"}} :
                 hb' = [hb EXCEPT !.step = "commit", !.sent = @ \cup {"relay"}, !.failed = @ \cup failed]
         \/ /\ types = <<>> \/ phase # "active"
            /\ hb' = [hb EXCEPT !.step = "commit"]
            /\ UNCHANGED <<log, nextSeq, told, shown>>
         \/ /\ types # <<>>
            /\ hb' = [hb EXCEPT !.step = "commit", !.failed = @ \cup {"relay"}]
            /\ UNCHANGED <<log, nextSeq, told, shown>>
  BY DEF RelayApply
<1>2. hb # Idle
  BY <1>1 DEF Idle
<1>3. hb \in HeartbeatType /\ hb.relay \in BOOLEAN /\ node.relay \in BOOLEAN /\ node.relayEver \in BOOLEAN
  BY <1>2, HeartbeatFields DEF EventsInv, EventsTypeOK, HeartbeatType
<1>4. /\ types = <<>> => hb.relay = node.relay
      /\ types # <<>> => Head(types) \in IF hb.relay THEN RelayOn ELSE {"relay.client.disconnected"}
  <2>1. CASE hb.relay = node.relay
    <3>1. types = <<>>
      BY <2>1, <1>3 DEF RelayEventTypes
    <3> QED BY <2>1, <3>1
  <2>2. CASE hb.relay /\ ~node.relay
    <3>1. types = <<IF node.relayEver THEN "relay.client.reconnected" ELSE "relay.client.connected">>
      BY <2>2 DEF RelayEventTypes
    <3>2. types # <<>> /\ Head(types) \in RelayOn
      BY <3>1 DEF RelayOn
    <3> QED BY <2>2, <3>2
  <2>3. CASE ~hb.relay /\ node.relay
    <3>1. types = <<"relay.client.disconnected">>
      BY <2>3 DEF RelayEventTypes
    <3>2. types # <<>> /\ Head(types) = "relay.client.disconnected"
      BY <3>1
    <3> QED BY <2>3, <3>2
  <2> QED BY <1>3, <2>1, <2>2, <2>3
<1> HIDE DEF types
<1>5. /\ hb.sent \subseteq {"egress"}
      /\ "egress" \notin hb.failed /\ "egress" \in hb.sent => told.egress = hb.egress.connected /\ shown.egress = hb.egress.connected
      /\ "egress" \notin hb.failed /\ "egress" \notin hb.sent /\ phase = "active" => hb.egress.connected = node.egress.connected
  BY <1>1, <1>2 DEF EventsInv, ReportInv
<1>6. ASSUME types # <<>>, phase = "active", AppendEvent(Head(types)),
             shown' = [shown EXCEPT !.relay = hb.relay],
             NEW failed \in {{}, {"relay"}},
             hb' = [hb EXCEPT !.step = "commit", !.sent = @ \cup {"relay"}, !.failed = @ \cup failed]
      PROVE  EventsInv'
  <2> DEFINE type == Head(types)
  <2>1. /\ type \in EventTypes /\ type \notin EgressOn \cup EgressOff
        /\ type \in RelayOn \/ type = "relay.client.disconnected"
        /\ hb.relay <=> type \in RelayOn
    BY <1>3, <1>4, <1>6 DEF EventTypes, EgressOn, EgressOff, RelayOn
  <2>2. AppendEvent(type) /\ told' = Heard(told, type) /\ told \in [egress : BOOLEAN, relay : BOOLEAN]
    BY <1>1, <1>6 DEF AppendEvent, EventsInv, EventsTypeOK
  <2> HIDE DEF type
  <2>3. /\ told' \in [egress : BOOLEAN, relay : BOOLEAN]
        /\ told'.egress = told.egress /\ told'.relay = hb.relay
    BY <1>3, <2>1, <2>2, HeardFacts
  <2>4. /\ hb' \in HeartbeatType /\ hb' # Idle /\ hb'.step = "commit"
        /\ hb'.egress = hb.egress /\ hb'.relay = hb.relay /\ hb'.sent = hb.sent \cup {"relay"}
        /\ hb'.failed = hb.failed \cup failed
    <3>1. /\ hb.sent \cup {"relay"} \in SUBSET {"egress", "relay"}
          /\ hb.failed \cup failed \in SUBSET {"egress", "relay"}
      BY <1>3, <1>5 DEF HeartbeatType
    <3> QED BY <1>1, <1>3, <1>6, <3>1 DEF HeartbeatType, Idle
  <2>5. /\ shown' \in [egress : BOOLEAN, relay : BOOLEAN]
        /\ shown'.egress = shown.egress /\ shown'.relay = hb.relay
    BY <1>1, <1>3, <1>6 DEF EventsInv, EventsTypeOK
  <2>6. log' \in Seq(Nat) /\ nextSeq' \in Nat /\ LogIsRecent'
    BY <2>2, AppendKeepsLog DEF EventsInv, EventsTypeOK
  <2>7. EventsTypeOK' /\ AcceptedInv'
    BY <1>1, <2>3, <2>4, <2>5, <2>6 DEF EventsInv, EventsTypeOK, AcceptedInv
  <2>8. ReportInv'
    BY <1>1, <1>5, <2>3, <2>4, <2>5 DEF ReportInv
  <2>9. AgreeInv'
    BY <1>1, <1>2, <2>3, <2>4, <2>5 DEF EventsInv, AgreeInv, Sent
  <2> QED BY <2>6, <2>7, <2>8, <2>9 DEF EventsInv
<1>7. ASSUME types = <<>> \/ phase # "active", hb' = [hb EXCEPT !.step = "commit"],
             UNCHANGED <<log, nextSeq, told, shown>>
      PROVE  EventsInv'
  <2>1. /\ hb' \in HeartbeatType /\ hb' # Idle /\ hb'.step = "commit" /\ hb'.failed = hb.failed
        /\ hb'.egress = hb.egress /\ hb'.relay = hb.relay /\ hb'.sent = hb.sent
    BY <1>3, <1>7 DEF HeartbeatType, Idle
  <2>2. EventsTypeOK' /\ LogIsRecent' /\ AcceptedInv'
    BY <1>1, <1>7, <2>1, LogRests DEF EventsInv, EventsTypeOK
  <2>3. ReportInv'
    BY <1>1, <1>4, <1>5, <1>7, <2>1 DEF ReportInv
  <2>4. AgreeInv'
    BY <1>1, <1>2, <1>7, <2>1 DEF EventsInv, AgreeInv, Sent
  <2> QED BY <2>2, <2>3, <2>4 DEF EventsInv
<1>8. ASSUME hb' = [hb EXCEPT !.step = "commit", !.failed = @ \cup {"relay"}],
             UNCHANGED <<log, nextSeq, told, shown>>
      PROVE  EventsInv'
  <2>1. /\ hb' \in HeartbeatType /\ hb' # Idle /\ hb'.step = "commit"
        /\ hb'.failed = hb.failed \cup {"relay"}
        /\ hb'.egress = hb.egress /\ hb'.relay = hb.relay /\ hb'.sent = hb.sent
    BY <1>3, <1>8 DEF HeartbeatType, Idle
  <2>2. EventsTypeOK' /\ LogIsRecent' /\ AcceptedInv'
    BY <1>1, <1>8, <2>1, LogRests DEF EventsInv, EventsTypeOK
  <2>3. ReportInv'
    BY <1>1, <1>5, <1>8, <2>1 DEF ReportInv
  <2>4. AgreeInv'
    BY <1>1, <1>2, <1>8, <2>1 DEF EventsInv, AgreeInv, Sent
  <2> QED BY <2>2, <2>3, <2>4 DEF EventsInv
<1> QED BY <1>1, <1>6, <1>7, <1>8

LEMMA CommitKeeps == EventsInv /\ HeartbeatCommit => EventsInv'
<1> SUFFICES ASSUME EventsInv, HeartbeatCommit PROVE EventsInv'
  OBVIOUS
<1>1. /\ hb.step = "commit" /\ hb' = Idle /\ torn' = (torn \ hb.sent) \cup hb.failed
      /\ node' = [egress |-> hb.egress, egressEver |-> node.egressEver \/ hb.egress.connected,
                  relay |-> hb.relay, relayEver |-> node.relayEver \/ hb.relay]
      /\ UNCHANGED <<phase, log, nextSeq, told, shown, audio, accepted>>
  BY DEF HeartbeatCommit
<1>2. hb # Idle
  BY <1>1 DEF Idle
<1>3. hb \in HeartbeatType /\ hb.egress.connected \in BOOLEAN
  BY <1>2, HeartbeatFields DEF EventsInv
<1>4. /\ node' \in [egress : EgressObservations, egressEver : BOOLEAN, relay : BOOLEAN, relayEver : BOOLEAN]
      /\ node'.egress = hb.egress /\ node'.relay = hb.relay
  BY <1>1, <1>3 DEF EventsInv, EventsTypeOK, HeartbeatType
<1>5. EventsTypeOK' /\ LogIsRecent' /\ AcceptedInv'
  <2>1. torn' \subseteq {"egress", "relay"}
    BY <1>1, <1>3 DEF EventsInv, EventsTypeOK, HeartbeatType
  <2> QED BY <1>1, <1>4, <2>1, LogRests DEF EventsInv, EventsTypeOK
<1>6. ReportInv'
  BY <1>1 DEF ReportInv
<1>7. AgreeInv'
  BY <1>1, <1>2, <1>4 DEF EventsInv, AgreeInv, ReportInv, Sent
<1> QED BY <1>5, <1>6, <1>7 DEF EventsInv

LEMMA DeathKeeps == EventsInv /\ HeartbeatDies => EventsInv'
<1> SUFFICES ASSUME EventsInv, HeartbeatDies PROVE EventsInv'
  OBVIOUS
<1>1. /\ hb # Idle /\ hb' = Idle /\ torn' = torn \cup hb.sent
      /\ UNCHANGED <<phase, log, nextSeq, told, shown, audio, accepted, node>>
  BY DEF HeartbeatDies
<1>2. hb.sent \subseteq {"egress", "relay"}
  BY <1>1, HeartbeatFields DEF EventsInv, HeartbeatType
<1>3. EventsTypeOK' /\ LogIsRecent' /\ AcceptedInv'
  BY <1>1, <1>2, LogRests DEF EventsInv, EventsTypeOK
<1>4. ReportInv'
  BY <1>1 DEF ReportInv
<1>5. AgreeInv'
  BY <1>1 DEF EventsInv, AgreeInv, Sent
<1> QED BY <1>3, <1>4, <1>5 DEF EventsInv

LEMMA EventsStep == EventsInv /\ [EventsNext]_eventVars => EventsInv'
<1> SUFFICES ASSUME EventsInv, [EventsNext]_eventVars PROVE EventsInv'
  OBVIOUS
<1>1. CASE SessionMoves
  <2>1. /\ phase' \in {"stopping", "over"}
        /\ UNCHANGED <<log, nextSeq, told, shown, audio, accepted, node, hb, torn>>
    BY <1>1 DEF SessionMoves
  <2>2. EventsTypeOK' /\ LogIsRecent' /\ AcceptedInv'
    BY <2>1, LogRests DEF EventsInv, EventsTypeOK
  <2>3. ReportInv' /\ AgreeInv'
    BY <2>1 DEF EventsInv, ReportInv, AgreeInv
  <2> QED BY <2>2, <2>3 DEF EventsInv
<1>2. ASSUME NEW type \in UserTypes, AddSessionEvent(type) PROVE EventsInv'
  <2>1. /\ type = "custom" /\ AppendEvent(type)
        /\ UNCHANGED <<phase, shown, audio, accepted, node, hb, torn>>
    BY <1>2 DEF AddSessionEvent, UserTypeAllowed, UserTypes
  <2>2. audio'.version \in Nat /\ accepted' \subseteq Command /\ AcceptedInv'
    BY <2>1 DEF EventsInv, EventsTypeOK, AcceptedInv
  <2> QED BY <2>1, <2>2, NeutralAppend DEF EventsInv
<1>3. ASSUME NEW c \in Command, SetAudioDesired(c) PROVE EventsInv'
  <2>1. /\ AppendEvent("media_control.audio.requested") /\ c.expected = audio.version
        /\ audio'.version = audio.version + 1 /\ accepted' = accepted \cup {c}
        /\ UNCHANGED <<phase, shown, node, hb, torn>>
    BY <1>3 DEF SetAudioDesired, VersionMatches
  <2>2. audio.version \in Nat /\ audio'.version \in Nat /\ accepted' \subseteq Command
    BY <1>3, <2>1 DEF EventsInv, EventsTypeOK
  <2>3. AcceptedInv'
    <3>1. \A d \in accepted : d.expected < audio.version /\ d.expected \in 0 .. MaxSeq
      BY DEF EventsInv, AcceptedInv, EventsTypeOK, Command
    <3> QED BY <2>1, <2>2, <3>1, EventsAssumption DEF AcceptedInv
  <2> QED BY <2>1, <2>2, <2>3, NeutralAppend DEF EventsInv
<1>4. ASSUME NEW limit \in PageLimits, ListSessionEvents(limit) PROVE EventsInv'
  <2>1. UNCHANGED <<phase, log, nextSeq, told, shown, audio, accepted, node, hb, torn>>
    BY <1>4 DEF ListSessionEvents
  <2>2. EventsTypeOK' /\ LogIsRecent' /\ AcceptedInv'
    BY <2>1, LogRests DEF EventsInv, EventsTypeOK
  <2> QED BY <2>1, <2>2 DEF EventsInv, ReportInv, AgreeInv, Sent
<1>5. ASSUME NEW egress \in EgressObservations, NEW relay \in BOOLEAN, ReceiveHeartbeat(egress, relay)
      PROVE EventsInv'
  BY <1>5, ReceiveKeeps
<1>6. CASE \/ EgressCheck \/ EgressAppend \/ EgressUpdate \/ EgressFails
           \/ RelayApply \/ HeartbeatCommit \/ HeartbeatDies
  BY <1>6, CheckKeeps, AppendKeeps, UpdateKeeps, FailKeeps, RelayKeeps, CommitKeeps, DeathKeeps
<1>7. CASE UNCHANGED eventVars
  <2>1. UNCHANGED <<phase, log, nextSeq, told, shown, audio, accepted, node, hb, torn>>
    BY <1>7 DEF eventVars
  <2>2. EventsTypeOK' /\ LogIsRecent' /\ AcceptedInv'
    BY <2>1, LogRests DEF EventsInv, EventsTypeOK
  <2> QED BY <2>1, <2>2 DEF EventsInv, ReportInv, AgreeInv, Sent
<1> QED BY <1>1, <1>2, <1>3, <1>4, <1>5, <1>6, <1>7 DEF EventsNext, OperatorNext, HeartbeatNext, Common

LEMMA GapFromLog ==
  ASSUME log \in Seq(Nat), nextSeq \in Nat, LogIsRecent
  PROVE  GapIsTold
<1> SUFFICES ASSUME NEW c \in 0 .. MaxSeq PROVE RetentionGap(c) <=> Lost(c)
  BY DEF GapIsTold
<1> DEFINE n == NextEventSequence
<1>1. Len(log) \in Nat /\ c \in Nat
  BY EventsAssumption
<1>2. /\ \A i \in 1 .. Len(log) : log[i] = n - Len(log) + i - 1
      /\ Len(log) < Retention => n = Len(log) + 1
  BY DEF LogIsRecent
<1>3. CASE log = <<>>
  <2>1. n = 1
    BY <1>2, <1>3, EventsAssumption
  <2> QED BY <1>1, <1>3, <2>1 DEF RetentionGap, Lost
<1>4. CASE log # <<>>
  <2>1. Len(log) > 0 /\ log[1] \in Nat
    BY <1>1, <1>4
  <2>2. n = log[1] + Len(log) /\ n \in Nat
    <3>1. n \in Int
      <4>1. CASE nextSeq > 0
        BY <4>1 DEF NextEventSequence
      <4>2. CASE ~(nextSeq > 0)
        <5>1. log[Len(log)] \in Nat
          BY <2>1
        <5> QED BY <1>4, <4>2, <5>1 DEF NextEventSequence, Last
      <4> QED BY <4>1, <4>2
    <3>2. log[1] = n - Len(log) + 1 - 1
      BY <1>1, <1>2, <2>1
    <3> HIDE DEF n
    <3> QED BY <1>1, <2>1, <3>1, <3>2
  <2> HIDE DEF n
  <2>3. \A i \in 1 .. Len(log) : log[i] = log[1] + i - 1
    BY <1>1, <1>2, <2>1, <2>2
  <2>4. c + 1 \in ToSet(log) <=> log[1] <= c + 1 /\ c + 1 < n
    <3>1. ASSUME c + 1 \in ToSet(log) PROVE log[1] <= c + 1 /\ c + 1 < n
      <4>1. PICK i \in 1 .. Len(log) : c + 1 = log[i]
        BY <3>1 DEF ToSet
      <4> QED BY <1>1, <2>1, <2>2, <2>3, <4>1
    <3>2. ASSUME log[1] <= c + 1, c + 1 < n PROVE c + 1 \in ToSet(log)
      <4>1. c + 2 - log[1] \in 1 .. Len(log)
        BY <1>1, <2>1, <2>2, <3>2
      <4>2. log[c + 2 - log[1]] = c + 1
        BY <1>1, <2>1, <2>3, <4>1
      <4> QED BY <4>1, <4>2 DEF ToSet
    <3> QED BY <3>1, <3>2
  <2> QED BY <1>1, <1>4, <2>1, <2>2, <2>4 DEF RetentionGap, Lost, n
<1> QED BY <1>3, <1>4

(* The log is an interval of numbers that ends before the next one. *)
LEMMA LogInterval ==
  ASSUME log \in Seq(Nat), nextSeq \in Nat, LogIsRecent
  PROVE  /\ NextEventSequence \in Nat \ {0} /\ Len(log) \in Nat /\ Len(log) <= NextEventSequence
         /\ \A i \in 1 .. Len(log) : log[i] = NextEventSequence - Len(log) + i - 1
         /\ log = <<>> => NextEventSequence = 1
<1> DEFINE n == NextEventSequence
<1>1. Retention \in Nat \ {0} /\ Len(log) \in Nat
  BY EventsAssumption
<1>2. n \in Nat \ {0}
  <2>1. CASE nextSeq > 0
    BY <2>1 DEF NextEventSequence
  <2>2. CASE nextSeq = 0
    <3>1. log # <<>> /\ Len(log) \in 1 .. Len(log)
      BY <2>2 DEF LogIsRecent
    <3>2. log[Len(log)] \in Nat
      BY <3>1
    <3> QED BY <2>2, <3>1, <3>2 DEF NextEventSequence, Last
  <2> QED BY <2>1, <2>2
<1>3. /\ \A i \in 1 .. Len(log) : log[i] = n - Len(log) + i - 1
      /\ Len(log) < Retention => n = Len(log) + 1
      /\ Len(log) <= Retention
  BY DEF LogIsRecent
<1> HIDE DEF n
<1>4. Len(log) <= n
  <2>1. CASE Len(log) = 0
    BY <1>2, <2>1
  <2>2. CASE Len(log) > 0
    <3>1. log[1] \in Nat /\ log[1] = n - Len(log) + 1 - 1
      BY <1>1, <1>3, <2>2
    <3> QED BY <1>1, <1>2, <1>3, <2>2, <3>1
  <2> QED BY <1>1, <2>1, <2>2
<1>5. log = <<>> => n = 1
  BY <1>1, <1>3
<1> QED BY <1>1, <1>2, <1>3, <1>4, <1>5 DEF n

(* What remains after a cursor is a suffix of the log. *)
LEMMA RemainingFacts ==
  ASSUME log \in Seq(Nat), nextSeq \in Nat, LogIsRecent, NEW c \in Nat
  PROVE  \E m \in 0 .. Len(log) :
           /\ \A i \in 1 .. Len(log) : log[i] > c <=> i > m
           /\ Remaining(c) \in Seq(Nat) /\ Len(Remaining(c)) = Len(log) - m
           /\ \A k \in 1 .. Len(log) - m : Remaining(c)[k] = log[m + k]
<1> DEFINE n == NextEventSequence
           L == Len(log)
           kept == {i \in DOMAIN log : log[i] > c}
           At(k) == CHOOSE i \in kept : Cardinality({j \in kept : j <= i}) = k
<1>1. n \in Nat \ {0} /\ L \in Nat /\ L <= n /\ \A i \in 1 .. L : log[i] = n - L + i - 1
  BY LogInterval
<1>2. DOMAIN log = 1 .. L
  OBVIOUS
<1>3. Remaining(c) = [k \in 1 .. Cardinality(kept) |-> log[At(k)]]
  BY DEF Remaining
<1> HIDE DEF n
<1> DEFINE m == IF c < n - L THEN 0 ELSE IF c >= n THEN L ELSE c + 1 - (n - L)
<1>4. m \in 0 .. L /\ \A i \in 1 .. L : log[i] > c <=> i > m
  BY <1>1
<1> HIDE DEF m, L
<1>5. kept = (m + 1) .. L
  BY <1>1, <1>2, <1>4
<1> HIDE DEF kept
<1>6. \A a, b \in Nat : a <= b + 1 => Cardinality(a .. b) = b - a + 1
  BY FS_Interval
<1>7. Cardinality(kept) = L - m
  BY <1>1, <1>4, <1>5, <1>6
<1>8. ASSUME NEW k \in 1 .. L - m PROVE At(k) = m + k
  <2>1. ASSUME NEW i \in kept PROVE Cardinality({j \in kept : j <= i}) = i - m
    <3>1. {j \in kept : j <= i} = (m + 1) .. i
      BY <1>1, <1>4, <1>5
    <3>2. i \in Nat /\ m + 1 <= i + 1 /\ m + 1 \in Nat
      BY <1>1, <1>4, <1>5
    <3>3. Cardinality((m + 1) .. i) = i - (m + 1) + 1
      BY <1>6, <3>2
    <3>4. i - (m + 1) + 1 = i - m
      BY <1>1, <1>4, <3>2
    <3> QED BY <3>1, <3>3, <3>4
  <2>2. m + k \in kept
    BY <1>1, <1>4, <1>5
  <2>3. \A i \in kept : i - m = k <=> i = m + k
    BY <1>1, <1>4, <1>5
  <2>4. \E i \in kept : Cardinality({j \in kept : j <= i}) = k
    BY <2>1, <2>2, <2>3
  <2>5. At(k) \in kept /\ Cardinality({j \in kept : j <= At(k)}) = k
    BY <2>4
  <2> HIDE DEF At
  <2> QED BY <2>1, <2>3, <2>5
<1> HIDE DEF At
<1>9. \A k \in 1 .. L - m : m + k \in 1 .. L /\ log[m + k] \in Nat
  BY <1>1, <1>2, <1>4 DEF L
<1>10. /\ Remaining(c) = [k \in 1 .. L - m |-> log[m + k]]
  BY <1>3, <1>7, <1>8
<1>11. L - m \in Nat
  BY <1>1, <1>4
<1>12. [k \in 1 .. L - m |-> log[m + k]] \in Seq(Nat) /\ Len([k \in 1 .. L - m |-> log[m + k]]) = L - m
  BY <1>9, <1>11
<1> QED BY <1>4, <1>10, <1>12 DEF L

(* A cursor is before the next number: it names an event that was there. *)
CursorInv == cursor \in Nat /\ cursor < NextEventSequence

(* A page is a stretch of the log that begins right after what the cursor covers. *)
LEMMA PageFacts ==
  ASSUME log \in Seq(Nat), nextSeq \in Nat, LogIsRecent, NEW c \in Nat, NEW limit \in Nat \ {0}
  PROVE  \E m \in 0 .. Len(log), l \in Nat :
           /\ \A i \in 1 .. Len(log) : log[i] > c <=> i > m
           /\ m + l <= Len(log) /\ PageOf(c, limit) \in Seq(Nat) /\ Len(PageOf(c, limit)) = l
           /\ l = 0 => m = Len(log)
           /\ ~HasMore(c, limit) => m + l = Len(log)
           /\ \A k \in 1 .. l : PageOf(c, limit)[k] = log[m + k]
<1>1. PICK m \in 0 .. Len(log) :
           /\ \A i \in 1 .. Len(log) : log[i] > c <=> i > m
           /\ Remaining(c) \in Seq(Nat) /\ Len(Remaining(c)) = Len(log) - m
           /\ \A k \in 1 .. Len(log) - m : Remaining(c)[k] = log[m + k]
  BY RemainingFacts
<1> DEFINE q == Remaining(c)
           page == PageOf(c, limit)
           L == Len(log)
<1>2. L \in Nat /\ m \in 0 .. L
  OBVIOUS
<1>3. page = IF Len(q) <= limit THEN q ELSE SubSeq(q, 1, limit)
  BY DEF PageOf
<1>4. q \in Seq(Nat) /\ Len(q) = L - m /\ \A k \in 1 .. L - m : q[k] = log[m + k]
  BY <1>1
<1>5. HasMore(c, limit) <=> Len(q) > Len(page)
  BY DEF HasMore
<1> HIDE DEF q, page
<1>6. CASE Len(q) <= limit
  <2>1. page = q
    BY <1>3, <1>6
  <2>2. L - m \in Nat /\ m + (L - m) = L /\ (L - m = 0 => m = L)
    BY <1>2
  <2>3. \A i \in 1 .. L : log[i] > c <=> i > m
    BY <1>1
  <2> WITNESS m \in 0 .. Len(log), L - m \in Nat
  <2> QED BY <1>4, <2>1, <2>2, <2>3 DEF page
<1>7. CASE ~(Len(q) <= limit)
  <2>1. page = SubSeq(q, 1, limit) /\ limit < L - m
    BY <1>2, <1>3, <1>4, <1>7
  <2>2. page \in Seq(Nat) /\ Len(page) = limit /\ \A k \in 1 .. limit : page[k] = q[k]
    <3>1. 1 \in 1 .. Len(q) + 1 /\ limit \in 0 .. Len(q)
      BY <1>2, <1>4, <2>1
    <3>2. /\ SubSeq(q, 1, limit) \in Seq(Nat)
          /\ Len(SubSeq(q, 1, limit)) = IF 1 <= limit THEN limit - 1 + 1 ELSE 0
          /\ \A k \in 1 .. limit - 1 + 1 : SubSeq(q, 1, limit)[k] = q[1 + k - 1]
      BY <1>4, <3>1, SubSeqProperties
    <3>3. limit - 1 + 1 = limit /\ \A k \in 1 .. limit : 1 + k - 1 = k
      OBVIOUS
    <3> QED BY <2>1, <3>2, <3>3
  <2>3. HasMore(c, limit) /\ m + limit <= L
    BY <1>2, <1>4, <1>5, <2>1, <2>2
  <2>4. \A k \in 1 .. limit : page[k] = log[m + k]
    <3>1. \A k \in 1 .. limit : k \in 1 .. L - m
      BY <1>2, <2>1
    <3>2. \A k \in 1 .. limit : page[k] = q[k]
      BY <2>2
    <3>3. \A k \in 1 .. L - m : q[k] = log[m + k]
      BY <1>4
    <3> QED BY <3>1, <3>2, <3>3, Zenon
  <2>5. \A i \in 1 .. L : log[i] > c <=> i > m
    BY <1>1
  <2> WITNESS m \in 0 .. Len(log), limit \in Nat
  <2> QED BY <2>2, <2>3, <2>4, <2>5 DEF page
<1> QED BY <1>6, <1>7

LEMMA CursorStep ==
  ASSUME EventsInv, CursorInv, [EventsNext]_eventVars
  PROVE  CursorInv'
<1>1. log \in Seq(Nat) /\ nextSeq \in Nat /\ LogIsRecent
  BY DEF EventsInv, EventsTypeOK
<1>2. NextEventSequence \in Nat \ {0}
  BY <1>1, LogInterval
<1>3. CASE UNCHANGED <<log, nextSeq, cursor>>
  BY <1>3 DEF CursorInv, NextEventSequence
<1>4. ASSUME NEW type, AppendEvent(type), UNCHANGED cursor PROVE CursorInv'
  <2>1. nextSeq' = NextEventSequence + 1
    BY <1>4 DEF AppendEvent
  <2>2. NextEventSequence' = NextEventSequence + 1
    BY <1>2, <2>1 DEF NextEventSequence
  <2> QED BY <1>2, <1>4, <2>2 DEF CursorInv
<1>5. ASSUME NEW limit \in PageLimits, ListSessionEvents(limit) PROVE CursorInv'
  <2> DEFINE n == NextEventSequence
             page == PageOf(cursor, limit)
  <2>1. page # <<>> /\ cursor' = Last(page) /\ UNCHANGED <<log, nextSeq>>
    BY <1>5 DEF ListSessionEvents
  <2>2. limit \in Nat \ {0} /\ cursor \in Nat
    BY EventsAssumption DEF CursorInv
  <2>3. PICK m \in 0 .. Len(log), l \in Nat :
             /\ \A i \in 1 .. Len(log) : log[i] > cursor <=> i > m
             /\ m + l <= Len(log) /\ page \in Seq(Nat) /\ Len(page) = l
             /\ l = 0 => m = Len(log)
             /\ ~HasMore(cursor, limit) => m + l = Len(log)
             /\ \A k \in 1 .. l : page[k] = log[m + k]
    BY <1>1, <2>2, PageFacts
  <2>4. n \in Nat \ {0} /\ Len(log) \in Nat /\ Len(log) <= n /\ \A i \in 1 .. Len(log) : log[i] = n - Len(log) + i - 1
    BY <1>1, LogInterval
  <2>5. n' = n
    BY <2>1 DEF NextEventSequence
  <2> HIDE DEF n, page
  <2>6. l \in 1 .. l /\ m + l \in 1 .. Len(log)
    BY <2>1, <2>3, <2>4
  <2>7. cursor' = log[m + l]
    BY <2>1, <2>3, <2>6 DEF Last
  <2>8. cursor' = n - Len(log) + (m + l) - 1
    BY <2>4, <2>6, <2>7
  <2>9. cursor' \in Nat /\ cursor' < n
    BY <2>4, <2>6, <2>8
  <2> QED BY <2>5, <2>9 DEF CursorInv, n
<1>6. CASE UNCHANGED eventVars
  BY <1>3, <1>6 DEF eventVars
<1>7. CASE Common
  BY <1>3, <1>4, <1>7 DEF Common, SessionMoves, AddSessionEvent
<1>8. ASSUME NEW c \in Command, SetAudioDesired(c) PROVE CursorInv'
  BY <1>4, <1>8 DEF SetAudioDesired
<1>9. ASSUME NEW egress \in EgressObservations, NEW relay \in BOOLEAN, ReceiveHeartbeat(egress, relay)
      PROVE  CursorInv'
  BY <1>3, <1>9 DEF ReceiveHeartbeat
<1>10. CASE EgressCheck \/ EgressUpdate \/ EgressFails \/ HeartbeatCommit \/ HeartbeatDies
  BY <1>3, <1>10 DEF EgressCheck, EgressUpdate, EgressFails, HeartbeatCommit, HeartbeatDies
<1>11. CASE EgressAppend
  BY <1>4, <1>11 DEF EgressAppend
<1>12. CASE RelayApply
  BY <1>3, <1>4, <1>12 DEF RelayApply
<1> QED BY <1>5, <1>6, <1>7, <1>8, <1>9, <1>10, <1>11, <1>12 DEF EventsNext, OperatorNext, HeartbeatNext

LEMMA PagesFromLog ==
  ASSUME EventsInv, CursorInv
  PROVE  PagesTellLoss
<1>1. log \in Seq(Nat) /\ nextSeq \in Nat /\ LogIsRecent
  BY DEF EventsInv, EventsTypeOK
<1> DEFINE n == NextEventSequence
<1>2. /\ n \in Nat \ {0} /\ Len(log) \in Nat /\ Len(log) <= n
      /\ \A i \in 1 .. Len(log) : log[i] = n - Len(log) + i - 1
  BY <1>1, LogInterval
<1>3. cursor \in Nat /\ cursor < n
  BY DEF CursorInv
<1>4. Lost(cursor) <=> cursor + 1 < n /\ cursor + 1 \notin ToSet(log)
  BY DEF Lost
<1> HIDE DEF n
<1>5. ASSUME NEW limit \in PageLimits
      PROVE  LET page == PageOf(cursor, limit) IN
             /\ page # <<>> /\ ~Lost(cursor) => page[1] = cursor + 1
             /\ ~HasMore(cursor, limit) /\ log # <<>> => Last(log) \in ToSet(page) \cup {cursor}
  <2> DEFINE page == PageOf(cursor, limit)
             L == Len(log)
  <2>1. limit \in Nat \ {0}
    BY EventsAssumption
  <2>2. PICK m \in 0 .. L, l \in Nat :
             /\ \A i \in 1 .. L : log[i] > cursor <=> i > m
             /\ m + l <= L /\ page \in Seq(Nat) /\ Len(page) = l
             /\ l = 0 => m = L
             /\ ~HasMore(cursor, limit) => m + l = L
             /\ \A k \in 1 .. l : page[k] = log[m + k]
    BY <1>1, <1>3, <2>1, PageFacts
  <2> HIDE DEF page
  <2>3. ASSUME page # <<>>, ~Lost(cursor) PROVE page[1] = cursor + 1
    <3>1. 1 \in 1 .. l /\ m + 1 \in 1 .. L
      BY <2>2, <2>3
    <3>2. page[1] = log[m + 1] /\ log[m + 1] > cursor /\ log[m + 1] = n - L + (m + 1) - 1
      BY <1>2, <2>2, <3>1
    <3>3. cursor + 1 < n
      BY <1>2, <1>3, <2>2, <3>1, <3>2
    <3>4. PICK i \in 1 .. L : log[i] = cursor + 1
      BY <1>4, <2>3, <3>3 DEF ToSet
    <3>5. i > m /\ log[i] = n - L + i - 1
      <4>1. cursor + 1 > cursor
        BY <1>3
      <4> QED BY <1>2, <2>2, <3>4, <4>1
    <3> HIDE DEF L
    <3>6. n \in Int /\ L \in Int /\ m \in Int /\ i \in Int /\ cursor \in Int
      BY <1>2, <1>3, <2>2 DEF L
    <3>7. n - L + (m + 1) - 1 > cursor /\ n - L + i - 1 = cursor + 1 /\ i > m
      BY <3>2, <3>4, <3>5
    <3>8. n - L + (m + 1) - 1 = cursor + 1
      BY <3>6, <3>7
    <3> QED BY <3>2, <3>8
  <2>4. ASSUME ~HasMore(cursor, limit), log # <<>> PROVE Last(log) \in ToSet(page) \cup {cursor}
    <3>1. m + l = L /\ L \in 1 .. L /\ Last(log) = log[L] /\ log[L] = n - 1
      BY <1>2, <2>2, <2>4 DEF Last
    <3>2. CASE l = 0
      <4>1. ~(log[L] > cursor)
        BY <2>2, <3>1, <3>2
      <4> QED BY <1>2, <1>3, <3>1, <4>1
    <3>3. CASE l # 0
      <4>1. l \in 1 .. l /\ DOMAIN page = 1 .. l
        BY <2>2, <3>3
      <4>2. page[l] = log[L]
        BY <2>2, <3>1, <4>1
      <4> QED BY <3>1, <4>1, <4>2 DEF ToSet
    <3> QED BY <3>2, <3>3
  <2> QED BY <2>3, <2>4 DEF page
<1> QED BY <1>1, <1>5, GapFromLog DEF PagesTellLoss

(* What the event log promises: it holds the newest events without a hole, a client that pages
   through it is told of a loss exactly when there is one and reaches the newest event, log and
   Session say of egress and relay what the Node's record says unless a heartbeat died in
   between or the store refused its call, and a retried audio command takes effect once (session_store.py, session_api.py):
   for every retention and page size, whoever interleaves. *)
THEOREM EventLogHolds == EventsSpec => EventLogPromise
<1>1. EventsInv /\ CursorInv => LogIsRecent /\ PagesTellLoss /\ ToldIsTrue
  <2> SUFFICES ASSUME EventsInv, CursorInv PROVE LogIsRecent /\ PagesTellLoss /\ ToldIsTrue
    OBVIOUS
  <2>1. LogIsRecent /\ PagesTellLoss
    BY PagesFromLog DEF EventsInv
  <2>2. ToldIsTrue
    BY DEF EventsInv, AgreeInv, Sent, ToldIsTrue
  <2> QED BY <2>1, <2>2
<1>2. EventsInv /\ [EventsNext]_eventVars =>
        [\A c \in Command : SetAudioDesired(c) => c \notin accepted]_eventVars
  <2> SUFFICES ASSUME EventsInv, NEW c \in Command, SetAudioDesired(c), c \in accepted PROVE FALSE
    OBVIOUS
  <2>1. c.expected = audio.version /\ c.expected < audio.version
    BY DEF SetAudioDesired, VersionMatches, EventsInv, AcceptedInv
  <2> QED BY <2>1 DEF EventsInv, EventsTypeOK
<1>3. EventsInit => CursorInv
  <2> SUFFICES ASSUME EventsInit PROVE CursorInv
    OBVIOUS
  <2>1. NextEventSequence \in Nat \ {0}
    BY EventsInitInv, LogInterval DEF EventsInv, EventsTypeOK
  <2> QED BY <2>1 DEF EventsInit, CursorInv
<1>4. EventsInv /\ CursorInv /\ [EventsNext]_eventVars => CursorInv'
  BY CursorStep
<1> QED BY <1>1, <1>2, <1>3, <1>4, EventsInitInv, EventsStep, PTL DEF EventsSpec, EventLogPromise, CommandActsOnce

(***************************************************************************)
(* OperationsAlerts.  The promise compares a report with the lines of the   *)
(* stream; a reader sees pieces of it.  The invariant says where the reader *)
(* stands (p), up to which line end every line has been counted (q), and    *)
(* that the two differ only while an oversized line is being drained.       *)
(***************************************************************************)
(* A non-empty set of naturals has a least element, and Min is it. *)
LEMMA NatMin ==
  ASSUME NEW S \in SUBSET Nat, S # {}
  PROVE  Min(S) \in S /\ \A y \in S : Min(S) <= y
<1> DEFINE R == OpToRel(<, Nat)
<1>1. IsWellFoundedOn(R, Nat)
  BY NatLessThanWellFounded, Zenon
<1>2. \A x, y \in Nat : <<x, y>> \in R <=> x < y
  BY DEF OpToRel
<1> HIDE DEF R
<1>3. PICK x \in S : \A y \in S : ~(<<y, x>> \in R)
  BY <1>1, WFMin
<1>4. \A y \in S : ~(y < x)
  BY <1>2, <1>3
<1>5. \A y \in S : x <= y
  BY <1>4
<1> QED BY <1>5 DEF Min

(* The characters of a stream. *)
Text == {"h", "l", "w", "x", "_"}

(* Position i holds a newline. *)
Nl(s, i) == s[i] = "_"

EndOf(s, i) == Min({ j \in i..Len(s) : Nl(s, j) \/ j = Len(s) })

(* EndOf is where the line that starts at i ends: at the first newline or the end of the stream. *)
LEMMA EndFacts ==
  ASSUME NEW s \in Seq(Text), NEW i \in 1..Len(s)
  PROVE  /\ EndOf(s, i) \in i..Len(s)
         /\ Nl(s, EndOf(s, i)) \/ EndOf(s, i) = Len(s)
         /\ \A j \in i..Len(s) : j < EndOf(s, i) => ~Nl(s, j)
         /\ \A k \in i..Len(s) : (Nl(s, k) \/ k = Len(s)) /\ (\A j \in i..Len(s) : j < k => ~Nl(s, j))
                                 => k = EndOf(s, i)
<1> DEFINE E == { j \in i..Len(s) : Nl(s, j) \/ j = Len(s) }
<1>0. Len(s) \in Nat
  BY LenProperties
<1>1. Len(s) \in E /\ E \in SUBSET Nat
  <2>1. i \in Nat /\ Len(s) \in i..Len(s)
    BY <1>0
  <2>2. i..Len(s) \in SUBSET Nat
    BY <1>0, <2>1
  <2> QED BY <2>1, <2>2
<1>3. EndOf(s, i) = Min(E)
  BY DEF EndOf, E
<1> HIDE DEF E
<1>2. Min(E) \in E /\ \A y \in E : Min(E) <= y
  BY <1>1, NatMin
<1>4. PICK m \in i..Len(s) : m = Min(E) /\ (Nl(s, m) \/ m = Len(s)) /\ \A y \in E : m <= y
  BY <1>2 DEF E
<1>5. \A j \in i..Len(s) : j < m => ~Nl(s, j) /\ j # Len(s)
  <2> SUFFICES ASSUME NEW j \in i..Len(s), j < m PROVE j \notin E
    BY DEF E
  <2> QED BY <1>0, <1>4
<1>6. ASSUME NEW k \in i..Len(s), Nl(s, k) \/ k = Len(s), \A j \in i..Len(s) : j < k => ~Nl(s, j)
      PROVE  k = m
  <2>1. ~(k < m)
    BY <1>5, <1>6
  <2>2. ~(m < k)
    BY <1>0, <1>4, <1>6
  <2> QED BY <2>1, <2>2, <1>0
<1>7. EndOf(s, i) = m
  BY <1>3, <1>4
<1> HIDE DEF EndOf
<1> QED BY <1>4, <1>5, <1>6, <1>7

(* The reference's line, character by character. *)
LEMMA LineAtFacts ==
  ASSUME NEW s \in Seq(Text), NEW i \in 1..Len(s)
  PROVE  /\ LineAt(s, i) \in Seq(Text)
         /\ Len(LineAt(s, i)) = EndOf(s, i) - i + 1
         /\ \A j \in 1..Len(LineAt(s, i)) : LineAt(s, i)[j] = s[i + j - 1]
<1>1. EndOf(s, i) \in i..Len(s) /\ Len(s) \in Nat
  BY EndFacts, LenProperties
<1>2. LineAt(s, i) = SubSeq(s, i, EndOf(s, i))
  BY DEF LineAt, EndOf, Nl
<1> HIDE DEF EndOf
<1> DEFINE k == EndOf(s, i)
<1>3. SubSeq(s, i, k) \in Seq(Text) /\ Len(SubSeq(s, i, k)) = k - i + 1
  BY <1>1, SubSeqProperties
<1>4. \A j \in 1..(k - i + 1) : SubSeq(s, i, k)[j] = s[i + j - 1]
  BY <1>1, SubSeqProperties
<1> QED BY <1>1, <1>2, <1>3, <1>4

(* readline returns a first piece of what is left, up to a newline, the limit or the end. *)
LEMMA ReadlineFacts ==
  ASSUME NEW s \in Seq(Text), NEW n \in Nat \ {0}
  PROVE  LET r == Readline(s, n)
         IN  /\ r \in Seq(Text)
             /\ r = <<>> <=> s = <<>>
             /\ Len(r) \in 0..Len(s) /\ Len(r) <= n
             /\ \A j \in 1..Len(r) : r[j] = s[j]
             /\ \A j \in 1..Len(r) : j < Len(r) => ~Nl(s, j)
             /\ Len(r) = n \/ Len(r) = Len(s) \/ (Len(r) > 0 /\ Nl(s, Len(r)))
<1> DEFINE E == { j \in 1..Len(s) : Nl(s, j) \/ j = n \/ j = Len(s) }
<1>0. Len(s) \in Nat
  BY LenProperties
<1>00. E = { j \in DOMAIN s : Nl(s, j) \/ j = n \/ j = Len(s) }
  BY LenProperties
<1>1. CASE s = <<>>
  <2>0. Len(s) = 0
    BY <1>1, EmptySeq
  <2>1. E = {}
    BY <2>0
  <2>2. Readline(s, n) = <<>>
    BY <2>1, <1>00 DEF Readline, Nl
  <2>3. Len(<<>>) = 0 /\ <<>> \in Seq(Text)
    BY EmptySeq
  <2> DEFINE r == Readline(s, n)
  <2>4. r \in Seq(Text) /\ Len(r) = 0 /\ r = <<>>
    BY <2>2, <2>3
  <2> HIDE DEF r
  <2>5. r = Readline(s, n)
    BY DEF r
  <2>6. (\A j \in 1..Len(r) : r[j] = s[j]) /\ (\A j \in 1..Len(r) : j < Len(r) => ~Nl(s, j))
    BY <2>4
  <2>7. Len(r) \in 0..Len(s) /\ Len(r) <= n /\ Len(r) = Len(s)
    BY <2>4, <2>0
  <2> QED BY <2>4, <2>5, <2>6, <2>7, <1>1, Zenon
<1>2. CASE s # <<>>
  <2>1. Len(s) > 0
    BY <1>2, <1>0, EmptySeq
  <2>2. Len(s) \in E /\ E \in SUBSET Nat
    <3>1. Len(s) \in 1..Len(s) /\ 1..Len(s) \in SUBSET Nat
      BY <2>1, <1>0
    <3> QED BY <3>1, <1>0
  <2> HIDE DEF E
  <2>3. Min(E) \in E /\ \A y \in E : Min(E) <= y
    BY <2>2, NatMin
  <2>5. PICK k \in 1..Len(s) : k = Min(E) /\ (Nl(s, k) \/ k = n \/ k = Len(s)) /\ \A y \in E : k <= y
    BY <2>3, <1>0 DEF E
  <2>50. (Nl(s, k) \/ k = n \/ k = Len(s)) /\ \A y \in E : k <= y
    BY <2>5
  <2> DEFINE r == SubSeq(s, 1, k)
  <2>4. Readline(s, n) = r
    BY <2>2, <2>5, <1>00 DEF Readline, E, Nl
  <2>6. \A j \in 1..Len(s) : j < k => ~Nl(s, j) /\ j # n
    <3> SUFFICES ASSUME NEW j \in 1..Len(s), j < k PROVE j \notin E
      BY <1>0 DEF E
    <3> QED BY <2>50, <1>0
  <2>7. k <= n
    <3> SUFFICES ASSUME n < k PROVE FALSE
      BY <2>50, <1>0
    <3>1. n \in 1..Len(s)
      BY <2>50, <1>0
    <3> QED BY <3>1, <2>6
  <2>70. \A j \in 1..k : s[j] \in Text
    BY <2>50, <1>0, ElementOfSeq
  <2>71. k \in Int /\ 1 <= k
    BY <1>0, SMT
  <2>8. r \in Seq(Text) /\ Len(r) = k
    BY <2>70, <2>71, SubSeqProperties
  <2>9. \A j \in 1..k : r[j] = s[j]
    <3> SUFFICES ASSUME NEW j \in 1..k PROVE r[j] = s[j]
      OBVIOUS
    <3>1. r[j] = s[1 + j - 1]
      BY <2>70, <2>71, SubSeqProperties
    <3>2. 1 + j - 1 = j
      BY <2>71
    <3> QED BY <3>1, <3>2
  <2>10. r # <<>>
    BY <2>8, <2>71, EmptySeq
  <2>11. Len(r) = n \/ Len(r) = Len(s) \/ (Len(r) > 0 /\ Nl(s, Len(r)))
    <3>0. k > 0
      BY <2>71
    <3>1. k = n \/ k = Len(s) \/ (k > 0 /\ Nl(s, k))
      BY <2>50, <3>0, Zenon
    <3> QED BY <3>1, <2>8, Zenon
  <2>12. \A j \in 1..Len(r) : j < Len(r) => ~Nl(s, j)
    BY <2>6, <2>50, <1>0, <2>8
  <2>13. Len(r) \in 0..Len(s)
    BY <2>50, <1>0, <2>8
  <2> HIDE DEF r
  <2> QED BY <1>0, <1>2, <2>11, <2>12, <2>13, <2>4, <2>50, <2>6, <2>7, <2>8, <2>9, <2>10
<1> QED BY <1>1, <1>2

(* What is left after a piece was consumed. *)
LEMMA AfterFacts ==
  ASSUME NEW s \in Seq(Text), NEW r \in Seq(Text), Len(r) \in 0..Len(s)
  PROVE  /\ After(s, r) \in Seq(Text) /\ Len(After(s, r)) = Len(s) - Len(r)
         /\ \A j \in 1..Len(After(s, r)) : After(s, r)[j] = s[Len(r) + j]
<1>0. Len(s) \in Nat /\ Len(r) \in Nat
  BY LenProperties
<1> DEFINE m == Len(r) + 1 n == Len(s)
<1>1. m \in Nat \ {0} /\ n \in Nat /\ m <= n + 1
  BY <1>0
<1>2. SubSeq(s, m, n) \in Seq(Text)
  BY <1>1, SubSeqProperties
<1>3. Len(SubSeq(s, m, n)) = IF m <= n THEN n - m + 1 ELSE 0
  BY <1>1, SubSeqProperties
<1>4. \A j \in 1..(n - m + 1) : SubSeq(s, m, n)[j] = s[m + j - 1]
  BY <1>1, SubSeqProperties
<1>5. After(s, r) = SubSeq(s, m, n)
  BY DEF After
<1> QED BY <1>0, <1>1, <1>2, <1>3, <1>4, <1>5

(* The codes an evaluator can count, and the shape of a batch. *)
Codes == {"DUPLICATE_JSON_KEY", "NONFINITE_NUMBER", "RECORD_TOO_LARGE", "INVALID_JSON"} \cup { e.bad : e \in Evaluators }

Phases == {"start", "read", "drain", "done"}
Results == {"none", "INVALID_CATALOG", "INVALID_THRESHOLD", "INVALID", "MATCHED", "NO_MATCHES"}
StreamModes == {"bytes", "text"}

BatchType ==
  [e : Evaluators, phase : Phases, status : Results, mode : StreamModes, input : Seq(Text), rest : Seq(Text),
   routed : BOOLEAN, records : Nat, matches : Nat, unmatched : Nat, violations : Nat, reasons : SUBSET Codes]

(* Every evaluator reports a code of its own for a malformed value, and only the event one may be unrouted. *)
LEMMA CodeFacts ==
  ASSUME NEW e \in Evaluators, NEW text
  PROVE  RecordViolation(e, text) \in Codes \cup {"none"}
<1>1. \/ RecordViolation(e, text) \in {"DUPLICATE_JSON_KEY", "NONFINITE_NUMBER", "none", "INVALID_JSON"}
      \/ RecordViolation(e, text) = e.bad
  BY DEF RecordViolation
<1>2. e.bad \in Codes
  BY DEF Codes
<1> HIDE DEF RecordViolation
<1> QED BY <1>1, <1>2 DEF Codes

(* Every evaluator compares strictly: only "h" matches, and for events only when it is routed. *)
LEMMA MatchFacts ==
  ASSUME NEW b \in BatchType, b.e # EventAlerts => b.routed, NEW text
  PROVE  Matches(b, text) <=> text = <<"h">> /\ b.routed
<1>1. Capacity # EventAlerts
  <2>1. Capacity.id # EventAlerts.id
    BY DEF Capacity, EventAlerts, Evaluator
  <2> QED BY <2>1
<1>2. CASE b.e = Capacity
  <2>1. Matches(b, text) = IsAboveIssue11Threshold(5, IF text = <<"h">> THEN 5 ELSE 4)
    BY <1>1, <1>2 DEF Matches
  <2>2. IsAboveIssue11Threshold(5, 5) /\ ~IsAboveIssue11Threshold(5, 4)
    BY DEF IsAboveIssue11Threshold
  <2> QED BY <1>1, <1>2, <2>1, <2>2
<1>3. CASE b.e = EventAlerts
  BY <1>1, <1>3 DEF Matches
<1>4. CASE b.e # Capacity /\ b.e # EventAlerts
  <2>1. Matches(b, text) = ((IF text = <<"h">> THEN 1 + 1 ELSE 1) > 1)
    BY <1>4 DEF Matches
  <2>2. 1 + 1 > 1 /\ ~(1 > 1)
    OBVIOUS
  <2> QED BY <1>4, <2>1, <2>2
<1> QED BY <1>2, <1>3, <1>4

(* A line's size in bytes is at least its length, and equal to it without a two-byte character. *)
LEMMA BytesFacts ==
  ASSUME NEW line \in Seq(Text)
  PROVE  /\ Bytes(line) \in Nat /\ Len(line) <= Bytes(line)
         /\ (\A i \in 1..Len(line) : line[i] # "w") => Bytes(line) = Len(line)
<1> DEFINE W == { i \in DOMAIN line : line[i] = "w" }
<1>0. Len(line) \in Nat
  BY LenProperties
<1>1. IsFiniteSet(W)
  <2>1. IsFiniteSet(DOMAIN line)
    <3>1. DOMAIN line = 1..Len(line)
      BY LenProperties
    <3> QED BY <1>0, <3>1, FS_Interval
  <2> QED BY <2>1, FS_Subset
<1>2. Cardinality(W) \in Nat
  BY <1>1, FS_CardinalityType
<1>3. Bytes(line) = Len(line) + Cardinality(W)
  BY DEF Bytes
<1>4. (\A i \in 1..Len(line) : line[i] # "w") => W = {}
  BY LenProperties
<1>5. W = {} => Cardinality(W) = 0
  BY FS_EmptySet
<1> HIDE DEF W
<1> QED BY <1>0, <1>2, <1>3, <1>4, <1>5

(* A blank line is a newline alone, and it fits every limit. *)
LEMMA ContentFacts ==
  ASSUME NEW line \in Seq(Text), line # <<>>
  PROVE  /\ Content(line) = <<>> <=> (Len(line) = 1 /\ Nl(line, 1))
         /\ Newline(line) <=> Nl(line, Len(line))
         /\ (Len(line) = 1 /\ Nl(line, 1)) => ~Unencodable(line) /\ Bytes(line) = 1
<1>0. Len(line) \in Nat \ {0}
  BY EmptySeq
<1>1. Newline(line) <=> Nl(line, Len(line))
  BY DEF Newline, Nl
<1>2. ASSUME Nl(line, Len(line)) PROVE Content(line) = <<>> <=> Len(line) = 1
  <2>0. PICK m \in Nat : m = Len(line) - 1
    BY <1>0
  <2>1. Content(line) = SubSeq(line, 1, m)
    BY <1>1, <1>2, <2>0 DEF Content
  <2>2. \A i \in 1..m : line[i] \in Text
    BY <1>0, <2>0, ElementOfSeq
  <2>3. Len(SubSeq(line, 1, m)) = IF 1 <= m THEN m - 1 + 1 ELSE 0
    BY <2>2, SubSeqProperties
  <2>4. SubSeq(line, 1, m) \in Seq(Text)
    BY <2>2, SubSeqProperties
  <2>5. (IF 1 <= m THEN m - 1 + 1 ELSE 0) = m
    OBVIOUS
  <2>6. SubSeq(line, 1, m) = <<>> <=> m = 0
    BY <2>3, <2>4, <2>5, EmptySeq
  <2> QED BY <1>0, <2>0, <2>1, <2>6
<1>3. ASSUME ~Nl(line, Len(line)) PROVE Content(line) = line
  BY <1>1, <1>3 DEF Content
<1>4. Content(line) = <<>> <=> (Len(line) = 1 /\ Nl(line, 1))
  <2>1. CASE Nl(line, Len(line))
    BY <1>2, <2>1
  <2>2. CASE ~Nl(line, Len(line))
    BY <1>3, <2>2
  <2> QED BY <2>1, <2>2
<1>5. ASSUME Len(line) = 1, Nl(line, 1) PROVE ~Unencodable(line) /\ Bytes(line) = 1
  <2>1. \A i \in 1..Len(line) : line[i] = "_"
    <3>1. \A i \in 1..Len(line) : i = 1
      BY <1>5
    <3> QED BY <3>1, <1>5 DEF Nl
  <2>2. ~Unencodable(line)
    BY <2>1, LenProperties DEF Unencodable
  <2>3. \A i \in 1..Len(line) : line[i] # "w"
    BY <2>1
  <2> QED BY <2>2, <2>3, <1>5, BytesFacts
<1> QED BY <1>1, <1>4, <1>5

(* What the bounded reader of the mode yields for a whole line. *)
Yielded(mode, line) == IF mode = "bytes" THEN IterBoundedByteLines(line) ELSE IterBoundedLines(line)

(* What one line adds to a batch. *)
Scored(b, bad, high, nb) ==
  IF bad THEN \E c \in Codes : nb = Violation(b, c)
  ELSE IF high THEN nb = [b EXCEPT !.records = @ + 1, !.matches = @ + 1]
  ELSE nb = [b EXCEPT !.records = @ + 1, !.unmatched = @ + 1]

(* A blank line is skipped, any other is scored. *)
Outcome(b, line, nb) ==
  /\ Content(line) = <<>> => nb = b
  /\ Content(line) # <<>> => Scored(b, BadLine(b.e, line), Content(line) = <<"h">> /\ b.routed, nb)

(* No text is one of the two markers, and each marker is a violation. *)
LEMMA NotMarker ==
  ASSUME NEW line \in Seq(Text)
  PROVE  line # <<"OVERSIZED">> /\ line # <<"INVALID_UTF8">>
<1>1. ASSUME NEW m, m \notin Text, line = <<m>> PROVE FALSE
  <2>1. Len(line) = 1 /\ line[1] = m
    BY <1>1
  <2>2. 1 \in 1..Len(line)
    BY <2>1
  <2>3. line[1] \in Text
    BY <2>2, ElementOfSeq
  <2> QED BY <1>1, <2>1, <2>3
<1>2. "OVERSIZED" \notin Text /\ "INVALID_UTF8" \notin Text
  BY DEF Text
<1> QED BY <1>1, <1>2

LEMMA MarkerIsViolation ==
  ASSUME NEW b
  PROVE  /\ EvaluateLine(b, <<"OVERSIZED">>) = Violation(b, "RECORD_TOO_LARGE")
         /\ EvaluateLine(b, <<"INVALID_UTF8">>) = Violation(b, "INVALID_JSON")
<1>1. <<"OVERSIZED">> # <<"INVALID_UTF8">>
  <2>1. "OVERSIZED" # "INVALID_UTF8"
    OBVIOUS
  <2> QED BY <2>1
<1> HIDE DEF Violation
<1> QED BY <1>1 DEF EvaluateLine

(* In either mode the loop's body gives a line the verdict of the reference. *)
LEMMA Evaluated ==
  ASSUME NEW b \in BatchType, b.e # EventAlerts => b.routed,
         NEW line \in Seq(Text), line # <<>>,
         b.mode = "bytes" => \A i \in 1..Len(line) : line[i] # "w"
  PROVE  Outcome(b, line, EvaluateLine(b, Yielded(b.mode, line)))
<1> DEFINE over == Bytes(line) > MaxRecord
           un == Unencodable(line)
           text == Content(line)
           code == RecordViolation(b.e, text)
<1>1. CASE text = <<>>
  <2>1. ~un /\ Bytes(line) = 1 /\ Len(line) = 1
    BY <1>1, ContentFacts
  <2>2. ~over /\ ~(Len(line) > MaxRecord)
    BY <2>1, OperationsAssumption
  <2>3. Yielded(b.mode, line) = line
    BY <2>1, <2>2 DEF Yielded, IterBoundedByteLines, IterBoundedLines
  <2>4. Utf8SizeViolation(line) = "none"
    BY <2>1, <2>2 DEF Utf8SizeViolation
  <2>5. EvaluateLine(b, line) = b
    BY <2>4, <1>1, NotMarker DEF EvaluateLine
  <2> QED BY <1>1, <2>3, <2>5 DEF Outcome
<1>2. CASE text # <<>> /\ (over \/ un)
  <2>1. BadLine(b.e, line)
    BY <1>2 DEF BadLine
  <2>2. Utf8SizeViolation(line) \in {"INVALID_JSON", "RECORD_TOO_LARGE"}
    BY <1>2 DEF Utf8SizeViolation
  <2>3. EvaluateLine(b, line) = Violation(b, Utf8SizeViolation(line))
    <3>1. Utf8SizeViolation(line) # "none"
      BY <2>2
    <3> QED BY <3>1, NotMarker DEF EvaluateLine
  <2>4. b.mode = "bytes" => Bytes(line) = Len(line)
    BY BytesFacts
  <2>5. b.mode = "bytes" => Yielded(b.mode, line) \in {<<"OVERSIZED">>, <<"INVALID_UTF8">>}
    BY <2>4, <1>2 DEF Yielded, IterBoundedByteLines
  <2>6. b.mode # "bytes" => Yielded(b.mode, line) = line
    BY DEF Yielded, IterBoundedLines
  <2>7. {"INVALID_JSON", "RECORD_TOO_LARGE"} \subseteq Codes
    BY DEF Codes
  <2>8. \E c \in Codes : EvaluateLine(b, Yielded(b.mode, line)) = Violation(b, c)
    BY <2>2, <2>3, <2>5, <2>6, <2>7, MarkerIsViolation
  <2> QED BY <1>2, <2>1, <2>8 DEF Scored, Outcome
<1>3. CASE text # <<>> /\ ~over /\ ~un
  <2>1. BadLine(b.e, line) <=> code # "none"
    BY <1>3 DEF BadLine
  <2>2. b.mode = "bytes" => ~(Len(line) > MaxRecord)
    BY <1>3, BytesFacts
  <2>3. Yielded(b.mode, line) = line
    BY <1>3, <2>2 DEF Yielded, IterBoundedByteLines, IterBoundedLines
  <2>4. Utf8SizeViolation(line) = "none"
    BY <1>3 DEF Utf8SizeViolation
  <2>5. EvaluateLine(b, line) = IF code # "none" THEN Violation(b, code)
                                ELSE IF Matches(b, text) THEN [b EXCEPT !.records = @ + 1, !.matches = @ + 1]
                                ELSE [b EXCEPT !.records = @ + 1, !.unmatched = @ + 1]
    BY <2>4, <1>3, NotMarker DEF EvaluateLine
  <2>6. Matches(b, text) <=> text = <<"h">> /\ b.routed
    BY MatchFacts
  <2>7. b.e \in Evaluators
    BY DEF BatchType
  <2>8. code \in Codes \cup {"none"}
    BY <2>7, CodeFacts
  <2> HIDE DEF code, text
  <2> QED BY <1>3, <2>1, <2>3, <2>5, <2>6, <2>8 DEF Scored, Outcome, text
<1> HIDE DEF over, un
<1> QED BY <1>1, <1>2, <1>3

(* What one readline of at most n characters returns at position p of the stream. *)
PieceAt(s, p, n, line) ==
  /\ line \in Seq(Text) /\ Len(line) \in Nat /\ p + Len(line) \in 0..Len(s) /\ Len(line) <= n
  /\ line = <<>> <=> p = Len(s)
  /\ line = <<>> <=> Len(line) = 0
  /\ \A j \in 1..Len(line) : line[j] = s[p + j]
  /\ \A j \in (p + 1)..(p + Len(line)) : j < p + Len(line) => ~Nl(s, j)
  /\ line # <<>> => (Newline(line) <=> Nl(s, p + Len(line)))
  /\ line # <<>> => (Len(line) = n \/ p + Len(line) = Len(s) \/ Nl(s, p + Len(line)))

(* rest is what follows position p. *)
Remains(s, p, rest) == Len(rest) = Len(s) - p /\ \A i \in 1..Len(rest) : rest[i] = s[p + i]

(* Readline moves the reader from p by the length of its piece. *)
LEMMA ReadFacts ==
  ASSUME NEW s \in Seq(Text), NEW rest \in Seq(Text), NEW p \in 0..Len(s), Remains(s, p, rest),
         NEW n \in Nat \ {0}
  PROVE  PieceAt(s, p, n, Readline(rest, n))
<1>01. PICK line : line = Readline(rest, n)
  OBVIOUS
<1>02. PICK L : L = Len(line)
  OBVIOUS
<1>03. Len(rest) = Len(s) - p /\ \A i \in 1..Len(rest) : rest[i] = s[p + i]
  BY DEF Remains
<1>0. Len(s) \in Nat /\ Len(rest) \in Nat /\ p \in Nat
  BY LenProperties
<1>1. /\ line \in Seq(Text) /\ (line = <<>> <=> rest = <<>>)
      /\ L \in 0..Len(rest) /\ L <= n
      /\ \A j \in 1..L : line[j] = rest[j]
      /\ \A j \in 1..L : j < L => ~Nl(rest, j)
      /\ L = n \/ L = Len(rest) \/ (L > 0 /\ Nl(rest, L))
  BY <1>01, <1>02, ReadlineFacts
<1>2. L \in Nat /\ L <= Len(rest) /\ p + L \in 0..Len(s)
  BY <1>0, <1>03, <1>1
<1>3. line = <<>> <=> L = 0
  BY <1>02, <1>1, <1>2, EmptySeq
<1>4. rest = <<>> <=> Len(rest) = 0
  BY EmptySeq
<1>5. line = <<>> <=> p = Len(s)
  BY <1>03, <1>1, <1>4, <1>0
<1>6. \A j \in 1..Len(rest) : Nl(rest, j) <=> Nl(s, p + j)
  BY <1>03 DEF Nl
<1>7. \A j \in 1..L : line[j] = s[p + j]
  BY <1>03, <1>0, <1>1, <1>2
<1>8. ASSUME NEW j \in (p + 1)..(p + L), j < p + L PROVE ~Nl(s, j)
  <2>1. j - p \in 1..L /\ j - p \in 1..Len(rest) /\ j - p < L /\ p + (j - p) = j
    BY <1>0, <1>2, <1>8
  <2>2. ~Nl(rest, j - p)
    BY <2>1, <1>1
  <2> QED BY <2>1, <2>2, <1>6
<1>9. ASSUME line # <<>> PROVE Newline(line) <=> Nl(s, p + L)
  <2>1. L \in 1..L /\ L \in 1..Len(rest)
    BY <1>2, <1>3, <1>9, <1>0
  <2>2. line[L] = s[p + L]
    BY <1>7, <2>1
  <2> QED BY <2>2, <1>02, <1>9 DEF Newline, Nl
<1>10. ASSUME line # <<>> PROVE L = n \/ p + L = Len(s) \/ Nl(s, p + L)
  <2>1. L \in 1..Len(rest)
    BY <1>2, <1>3, <1>10, <1>0
  <2>2. L = Len(rest) => p + L = Len(s)
    BY <1>03, <1>0, <1>2
  <2>3. Nl(rest, L) => Nl(s, p + L)
    BY <1>6, <2>1
  <2> QED BY <1>1, <2>2, <2>3
<1> QED BY <1>01, <1>02, <1>1, <1>2, <1>3, <1>5, <1>7, <1>8, <1>9, <1>10 DEF PieceAt

(* The line between two ends is the reference's line. *)
LEMMA LineIs ==
  ASSUME NEW s \in Seq(Text), NEW p \in 0..Len(s), NEW line \in Seq(Text), NEW L \in Nat, L = Len(line), L > 0,
         p + L = EndOf(s, p + 1), p < Len(s), \A j \in 1..L : line[j] = s[p + j]
  PROVE  line = LineAt(s, p + 1)
<1>0. Len(s) \in Nat /\ p \in Nat /\ p + 1 \in 1..Len(s)
  BY LenProperties
<1>1. PICK l : l = LineAt(s, p + 1)
  OBVIOUS
<1>2. l \in Seq(Text) /\ Len(l) = EndOf(s, p + 1) - (p + 1) + 1
      /\ \A j \in 1..Len(l) : l[j] = s[(p + 1) + j - 1]
  BY <1>0, <1>1, LineAtFacts
<1>3. Len(l) = L
  BY <1>0, <1>2
<1>4. \A j \in 1..L : l[j] = line[j]
  <2> SUFFICES ASSUME NEW j \in 1..L PROVE l[j] = line[j]
    OBVIOUS
  <2>1. (p + 1) + j - 1 = p + j
    BY <1>0
  <2> QED BY <2>1, <1>2, <1>3
<1>5. l = line
  BY <1>2, <1>3, <1>4, SeqEqual
<1> QED BY <1>1, <1>5

(* The members of X the reader has passed. *)
Upto(X, q) == { i \in X : i <= q }

(* The line starts up to q are finitely many. *)
LEMMA UptoFacts ==
  ASSUME NEW s \in Seq(Text), NEW X \in SUBSET LineStarts(s), NEW q
  PROVE  /\ X \in SUBSET (1..Len(s)) /\ IsFiniteSet(X)
         /\ IsFiniteSet(Upto(X, q)) /\ Cardinality(Upto(X, q)) \in Nat
<1>1. X \in SUBSET (1..Len(s)) /\ Len(s) \in Nat
  BY LenProperties DEF LineStarts
<1>2. IsFiniteSet(X)
  <2>1. IsFiniteSet(1..Len(s))
    BY <1>1, FS_Interval
  <2> QED BY <1>1, <2>1, FS_Subset
<1>3. Upto(X, q) \in SUBSET X
  BY DEF Upto
<1>4. IsFiniteSet(Upto(X, q))
  BY <1>2, <1>3, FS_Subset
<1> QED BY <1>1, <1>2, <1>4, FS_CardinalityType

(* The next line end passes exactly one line start. *)
LEMMA OneMore ==
  ASSUME NEW s \in Seq(Text), NEW q \in 0..Len(s), q < Len(s), q = 0 \/ Nl(s, q),
         NEW X \in SUBSET LineStarts(s), NEW k, k = EndOf(s, q + 1)
  PROVE  /\ q + 1 \in LineStarts(s)
         /\ Cardinality(Upto(X, k)) = Cardinality(Upto(X, q)) + (IF q + 1 \in X THEN 1 ELSE 0)
<1>0. Len(s) \in Nat /\ q \in Nat /\ q + 1 \in 1..Len(s)
  BY LenProperties
<1>1. k \in (q + 1)..Len(s) /\ \A j \in (q + 1)..Len(s) : j < k => ~Nl(s, j)
  BY <1>0, EndFacts
<1>2. \A i : i \in LineStarts(s) <=> i \in 1..Len(s) /\ (i = 1 \/ Nl(s, i - 1))
  BY LenProperties DEF LineStarts, Nl
<1>3. q + 1 \in LineStarts(s)
  <2>1. q + 1 - 1 = q /\ (q = 0 => q + 1 = 1)
    BY <1>0
  <2> QED BY <1>0, <1>2, <2>1
<1>4. ASSUME NEW i \in LineStarts(s), i <= k, ~(i <= q) PROVE i = q + 1
  <2>1. i \in 1..Len(s) /\ (i = 1 \/ Nl(s, i - 1))
    BY <1>2
  <2>2. i = 1 => i = q + 1
    BY <1>0, <1>4
  <2>3. ASSUME i # q + 1, Nl(s, i - 1) PROVE FALSE
    <3>1. i - 1 \in (q + 1)..Len(s) /\ i - 1 < k
      BY <1>0, <1>1, <1>4, <2>1, <2>3
    <3> QED BY <3>1, <1>1, <2>3
  <2> QED BY <2>1, <2>2, <2>3
<1>5. \A i \in X : i \in LineStarts(s) /\ i \in 1..Len(s)
  BY <1>2
<1>6. CASE q + 1 \in X
  <2>1. \A i \in X : i <= k <=> (i <= q \/ i = q + 1)
    <3> SUFFICES ASSUME NEW i \in X PROVE i <= k <=> (i <= q \/ i = q + 1)
      OBVIOUS
    <3>1. i \in 1..Len(s) /\ i \in LineStarts(s)
      BY <1>5
    <3>2. i <= q => i <= k
      BY <3>1, <1>0, <1>1
    <3>3. i = q + 1 => i <= k
      BY <1>1, <1>0
    <3> QED BY <3>1, <3>2, <3>3, <1>4
  <2>2. Upto(X, k) = Upto(X, q) \cup {q + 1}
    BY <2>1, <1>6 DEF Upto
  <2>3. q + 1 \notin Upto(X, q)
    <3>1. ~(q + 1 <= q)
      BY <1>0
    <3> QED BY <3>1 DEF Upto
  <2>4. Cardinality(Upto(X, q) \cup {q + 1}) = Cardinality(Upto(X, q)) + 1
    BY <2>3, UptoFacts, FS_AddElement
  <2> QED BY <1>3, <1>6, <2>2, <2>4
<1>7. CASE q + 1 \notin X
  <2>1. \A i \in X : i <= k <=> i <= q
    <3> SUFFICES ASSUME NEW i \in X PROVE i <= k <=> i <= q
      OBVIOUS
    <3>1. i \in 1..Len(s) /\ i \in LineStarts(s) /\ i # q + 1
      BY <1>5, <1>7
    <3>2. i <= q => i <= k
      BY <3>1, <1>0, <1>1
    <3> QED BY <3>1, <3>2, <1>4
  <2>2. Upto(X, k) = Upto(X, q)
    BY <2>1 DEF Upto
  <2>3. Cardinality(Upto(X, q)) = Cardinality(Upto(X, q)) + 0
    <3>1. Cardinality(Upto(X, q)) \in Nat
      BY UptoFacts
    <3> QED BY <3>1
  <2> QED BY <1>3, <1>7, <2>2, <2>3
<1> QED BY <1>6, <1>7

(* The counters agree with the lines that start up to q. *)
Counted(b, q) ==
  /\ b.records = Cardinality(Upto(LinesOf(b), q))
  /\ b.violations = Cardinality(Upto(BadOf(b), q))
  /\ b.matches = Cardinality(Upto(HighOf(b) \ BadOf(b), q))
  /\ b.unmatched = Cardinality(Upto(LinesOf(b) \ (HighOf(b) \cup BadOf(b)), q))
  /\ b.reasons = {} <=> b.violations = 0

(* The counts are about the stream, the evaluator and the route alone. *)
Alike(b, nb) == nb.input = b.input /\ nb.e = b.e /\ nb.routed = b.routed

LEMMA AlikeLines ==
  ASSUME NEW b, NEW nb, Alike(b, nb)
  PROVE  LinesOf(nb) = LinesOf(b) /\ BadOf(nb) = BadOf(b) /\ HighOf(nb) = HighOf(b)
<1>1. LinesOf(nb) = LinesOf(b)
  BY DEF Alike, LinesOf
<1> QED BY <1>1 DEF Alike, BadOf, HighOf

(* Bad and high lines are lines, and lines are line starts. *)
LEMMA LineSets ==
  ASSUME NEW b
  PROVE  /\ LinesOf(b) \in SUBSET LineStarts(b.input)
         /\ BadOf(b) \in SUBSET LinesOf(b)
         /\ HighOf(b) \in SUBSET LinesOf(b)
BY DEF LinesOf, BadOf, HighOf

(* A score adds one record, in exactly one of three columns, and keeps the rest. *)
LEMMA ScoredFacts ==
  ASSUME NEW b \in BatchType, NEW nb, NEW bad \in BOOLEAN, NEW high \in BOOLEAN, Scored(b, bad, high, nb)
  PROVE  /\ nb \in BatchType /\ Alike(b, nb)
         /\ nb.mode = b.mode /\ nb.rest = b.rest /\ nb.phase = b.phase /\ nb.status = b.status
         /\ nb.records = b.records + 1
         /\ nb.violations = b.violations + (IF bad THEN 1 ELSE 0)
         /\ nb.matches = b.matches + (IF high /\ ~bad THEN 1 ELSE 0)
         /\ nb.unmatched = b.unmatched + (IF ~high /\ ~bad THEN 1 ELSE 0)
         /\ bad => nb.reasons # {}
         /\ ~bad => nb.reasons = b.reasons
<1>0. b.records + 1 \in Nat /\ b.violations + 1 \in Nat /\ b.matches + 1 \in Nat /\ b.unmatched + 1 \in Nat
  BY DEF BatchType
<1>1. CASE bad
  <2>1. PICK c \in Codes : nb = [b EXCEPT !.records = @ + 1, !.violations = @ + 1, !.reasons = @ \cup {c}]
    BY <1>1 DEF Scored, Violation
  <2>2. nb \in BatchType
    <3>1. b.reasons \cup {c} \in SUBSET Codes
      BY DEF BatchType
    <3> QED BY <1>0, <2>1, <3>1 DEF BatchType
  <2>3. nb.input = b.input /\ nb.e = b.e /\ nb.routed = b.routed /\ nb.mode = b.mode /\ nb.rest = b.rest
        /\ nb.phase = b.phase /\ nb.status = b.status
    BY <2>1 DEF BatchType
  <2>4. nb.records = b.records + 1 /\ nb.violations = b.violations + 1 /\ nb.matches = b.matches + 0
        /\ nb.unmatched = b.unmatched + 0
    BY <2>1 DEF BatchType
  <2>5. nb.reasons # {}
    BY <2>1 DEF BatchType
  <2> QED BY <1>1, <2>2, <2>3, <2>4, <2>5 DEF Alike
<1>2. CASE ~bad /\ high
  <2>1. nb = [b EXCEPT !.records = @ + 1, !.matches = @ + 1]
    BY <1>2 DEF Scored
  <2>2. nb \in BatchType
    BY <1>0, <2>1 DEF BatchType
  <2>3. nb.input = b.input /\ nb.e = b.e /\ nb.routed = b.routed /\ nb.mode = b.mode /\ nb.rest = b.rest
        /\ nb.phase = b.phase /\ nb.status = b.status
    BY <2>1 DEF BatchType
  <2>4. nb.records = b.records + 1 /\ nb.violations = b.violations + 0 /\ nb.matches = b.matches + 1
        /\ nb.unmatched = b.unmatched + 0
    BY <2>1 DEF BatchType
  <2>5. nb.reasons = b.reasons
    BY <2>1 DEF BatchType
  <2> QED BY <1>2, <2>2, <2>3, <2>4, <2>5 DEF Alike
<1>3. CASE ~bad /\ ~high
  <2>1. nb = [b EXCEPT !.records = @ + 1, !.unmatched = @ + 1]
    BY <1>3 DEF Scored
  <2>2. nb \in BatchType
    BY <1>0, <2>1 DEF BatchType
  <2>3. nb.input = b.input /\ nb.e = b.e /\ nb.routed = b.routed /\ nb.mode = b.mode /\ nb.rest = b.rest
        /\ nb.phase = b.phase /\ nb.status = b.status
    BY <2>1 DEF BatchType
  <2>4. nb.records = b.records + 1 /\ nb.violations = b.violations + 0 /\ nb.matches = b.matches + 0
        /\ nb.unmatched = b.unmatched + 1
    BY <2>1 DEF BatchType
  <2>5. nb.reasons = b.reasons
    BY <2>1 DEF BatchType
  <2> QED BY <1>3, <2>2, <2>3, <2>4, <2>5 DEF Alike
<1> QED BY <1>1, <1>2, <1>3

(* The fields of a batch that the arithmetic needs. *)
LEMMA BatchFields ==
  ASSUME NEW b \in BatchType
  PROVE  /\ b.input \in Seq(Text) /\ b.rest \in Seq(Text) /\ b.e \in Evaluators /\ b.routed \in BOOLEAN
         /\ b.records \in Nat /\ b.violations \in Nat /\ b.matches \in Nat /\ b.unmatched \in Nat
BY DEF BatchType

(* The line that starts after q is blank and counts for nothing, or is scored once. *)
LEMMA LineCounted ==
  ASSUME NEW b \in BatchType, NEW nb, NEW q \in 0..Len(b.input), q < Len(b.input), q = 0 \/ Nl(b.input, q),
         Counted(b, q), NEW k, k = EndOf(b.input, q + 1), NEW line, line = LineAt(b.input, q + 1),
         Outcome(b, line, nb)
  PROVE  nb \in BatchType /\ Alike(b, nb) /\ nb.mode = b.mode /\ nb.rest = b.rest /\ nb.phase = b.phase
         /\ Counted(nb, k)
<1> DEFINE s == b.input
           i == q + 1
           A == LinesOf(b)
           B == BadOf(b)
           M == HighOf(b) \ BadOf(b)
           U == LinesOf(b) \ (HighOf(b) \cup BadOf(b))
<1>0. s \in Seq(Text)
  BY BatchFields
<1>1. A \in SUBSET LineStarts(s) /\ B \in SUBSET LineStarts(s) /\ M \in SUBSET LineStarts(s)
      /\ U \in SUBSET LineStarts(s)
  BY LineSets
<1>2. i \in LineStarts(s)
  BY <1>0, <1>1, OneMore
<1>3. \A X \in SUBSET LineStarts(s) :
        Cardinality(Upto(X, k)) = Cardinality(Upto(X, q)) + (IF i \in X THEN 1 ELSE 0)
  BY <1>0, OneMore
<1>4. /\ i \in A <=> Content(line) # <<>>
      /\ i \in B <=> Content(line) # <<>> /\ BadLine(b.e, line)
      /\ i \in HighOf(b) <=> Content(line) # <<>> /\ Content(line) = <<"h">> /\ b.routed
  BY <1>2 DEF LinesOf, BadOf, HighOf
<1>5. /\ b.records = Cardinality(Upto(A, q)) /\ b.violations = Cardinality(Upto(B, q))
      /\ b.matches = Cardinality(Upto(M, q)) /\ b.unmatched = Cardinality(Upto(U, q))
      /\ b.reasons = {} <=> b.violations = 0
  BY DEF Counted
<1>6. b.records \in Nat /\ b.violations \in Nat /\ b.matches \in Nat /\ b.unmatched \in Nat
  BY BatchFields
<1>7. CASE Content(line) = <<>>
  <2>1. i \notin A /\ i \notin B /\ i \notin M /\ i \notin U
    BY <1>7, <1>4
  <2> HIDE DEF i, A, B, M, U
  <2>2. /\ Cardinality(Upto(A, k)) = b.records /\ Cardinality(Upto(B, k)) = b.violations
        /\ Cardinality(Upto(M, k)) = b.matches /\ Cardinality(Upto(U, k)) = b.unmatched
    BY <1>1, <1>3, <1>5, <1>6, <2>1
  <2>3. Counted(b, k)
    BY <2>2, <1>5 DEF Counted, A, B, M, U
  <2> QED BY <2>3, <1>7 DEF Alike, Outcome
<1>8. CASE Content(line) # <<>>
  <2> DEFINE bad == BadLine(b.e, line)
             high == Content(line) = <<"h">> /\ b.routed
  <2>0. bad \in BOOLEAN /\ high \in BOOLEAN
    BY BatchFields DEF BadLine
  <2>1. /\ i \in A /\ (i \in B <=> bad) /\ (i \in M <=> high /\ ~bad) /\ (i \in U <=> ~high /\ ~bad)
    BY <1>8, <1>4
  <2> HIDE DEF bad, high
  <2>2. Scored(b, bad, high, nb)
    BY <1>8 DEF bad, high, Outcome
  <2>3. /\ nb \in BatchType /\ Alike(b, nb)
        /\ nb.mode = b.mode /\ nb.rest = b.rest /\ nb.phase = b.phase
        /\ nb.records = b.records + 1
        /\ nb.violations = b.violations + (IF bad THEN 1 ELSE 0)
        /\ nb.matches = b.matches + (IF high /\ ~bad THEN 1 ELSE 0)
        /\ nb.unmatched = b.unmatched + (IF ~high /\ ~bad THEN 1 ELSE 0)
        /\ bad => nb.reasons # {}
        /\ ~bad => nb.reasons = b.reasons
    BY <2>0, <2>2, ScoredFacts
  <2> HIDE DEF i, A, B, M, U
  <2>4. Cardinality(Upto(A, k)) = nb.records
    BY <1>1, <1>3, <1>5, <2>1, <2>3
  <2>5. Cardinality(Upto(B, k)) = nb.violations
    BY <1>1, <1>3, <1>5, <2>1, <2>3
  <2>6. Cardinality(Upto(M, k)) = nb.matches
    BY <1>1, <1>3, <1>5, <2>1, <2>3
  <2>7. Cardinality(Upto(U, k)) = nb.unmatched
    BY <1>1, <1>3, <1>5, <2>1, <2>3
  <2>8. nb.reasons = {} <=> nb.violations = 0
    BY <1>5, <1>6, <2>3
  <2>9. LinesOf(nb) = A /\ BadOf(nb) = B /\ HighOf(nb) \ BadOf(nb) = M
        /\ LinesOf(nb) \ (HighOf(nb) \cup BadOf(nb)) = U
    BY <2>3, AlikeLines DEF A, B, M, U
  <2>10. Counted(nb, k)
    BY <2>4, <2>5, <2>6, <2>7, <2>8, <2>9 DEF Counted
  <2> QED BY <2>3, <2>10
<1> QED BY <1>7, <1>8

(* A batch as main opens it and as the loop keeps it. *)
Sound(b) ==
  /\ b \in BatchType
  /\ b.e # EventAlerts => b.routed
  /\ b.mode = "bytes" => \A i \in 1..Len(b.input) : b.input[i] # "w"

(* The reader of b stands at p. *)
ReadTo(b, p) == Remains(b.input, p, b.rest)

(* The reader stands at p, and every line up to q has been counted. *)
Pending(b, p, q) ==
  /\ ReadTo(b, p) /\ Counted(b, q)
  /\ q = 0 \/ Nl(b.input, q) \/ q = Len(b.input)
  /\ b.phase = "read" => q = p
  /\ b.phase = "drain" => q + MaxRecord + 1 <= p /\ \A j \in (q + 1)..p : ~Nl(b.input, j)

(* A batch being read is somewhere in its stream. *)
InFlight(b) == \E p, q \in 0..Len(b.input) : Pending(b, p, q)

(* Consuming a line moves the reader and changes no count. *)
MovedOn(b, ph) == [b EXCEPT !.rest = After(b.rest, Readline(b.rest, MaxRecord + 1)), !.phase = ph]

Moved(b, nb, p, q, ph) ==
  /\ Sound(nb) /\ Alike(b, nb) /\ nb.mode = b.mode /\ nb.phase = ph
  /\ ReadTo(nb, p) /\ Counted(nb, q)

LEMMA LaterFacts ==
  ASSUME NEW b, Sound(b), NEW p \in 0..Len(b.input), NEW q, ReadTo(b, p), Counted(b, q),
         NEW ph \in {"read", "drain"}
  PROVE  Moved(b, MovedOn(b, ph), p + Len(Readline(b.rest, MaxRecord + 1)), q, ph)
<1>01. PICK line : line = Readline(b.rest, MaxRecord + 1)
  OBVIOUS
<1>02. PICK L : L = Len(line)
  OBVIOUS
<1>03. PICK later : later = MovedOn(b, ph)
  OBVIOUS
<1>0. b \in BatchType /\ b.input \in Seq(Text) /\ b.rest \in Seq(Text)
  BY BatchFields DEF Sound
<1>1. PICK s \in Seq(Text) : s = b.input
  BY <1>0
<1>2. PICK rest \in Seq(Text) : rest = b.rest
  BY <1>0
<1>3. PICK n \in Nat \ {0} : n = MaxRecord + 1
  BY OperationsAssumption
<1>4. Len(rest) = Len(s) - p /\ \A i \in 1..Len(rest) : rest[i] = s[p + i]
  BY <1>1, <1>2 DEF ReadTo, Remains
<1>5. p \in 0..Len(s) /\ line = Readline(rest, n) /\ Remains(s, p, rest)
  BY <1>01, <1>1, <1>2, <1>3 DEF ReadTo
<1>50. PieceAt(s, p, n, line)
  BY <1>5, ReadFacts
<1>6. line \in Seq(Text) /\ L \in Nat /\ p + L \in 0..Len(s)
  BY <1>02, <1>50 DEF PieceAt
<1>7. Len(s) \in Nat /\ p \in Nat /\ Len(rest) \in Nat
  BY LenProperties
<1>8. L \in 0..Len(rest)
  BY <1>4, <1>6, <1>7
<1>9. PICK after : after = After(rest, line)
  OBVIOUS
<1>10. after \in Seq(Text) /\ Len(after) = Len(rest) - L /\ \A j \in 1..Len(after) : after[j] = rest[L + j]
  BY <1>02, <1>6, <1>8, <1>9, AfterFacts
<1>11. Len(after) = Len(s) - (p + L) /\ Len(after) \in Nat
  BY <1>10, <1>4, <1>6, <1>7, <1>8
<1>12. \A j \in 1..Len(after) : after[j] = s[(p + L) + j]
  <2> SUFFICES ASSUME NEW j \in 1..Len(after) PROVE after[j] = s[(p + L) + j]
    OBVIOUS
  <2>0. Len(after) = Len(rest) - L
    BY <1>10
  <2>1. L + j \in 1..Len(rest) /\ p + (L + j) = (p + L) + j
    BY <1>7, <1>8, <1>11, <2>0
  <2>2. after[j] = rest[L + j]
    BY <1>10
  <2>3. rest[L + j] = s[p + (L + j)]
    BY <1>4, <2>1
  <2> QED BY <2>1, <2>2, <2>3
<1>13. later = [b EXCEPT !.rest = after, !.phase = ph]
  BY <1>01, <1>03, <1>2, <1>9 DEF MovedOn
<1>14. ph \in Phases
  BY DEF Phases
<1>15. later \in BatchType
  BY <1>0, <1>10, <1>13, <1>14 DEF BatchType
<1>16. later.input = b.input /\ later.e = b.e /\ later.routed = b.routed /\ later.mode = b.mode
  BY <1>0, <1>13 DEF BatchType
<1>17. later.rest = after /\ later.phase = ph
  BY <1>0, <1>13 DEF BatchType
<1>18. later.records = b.records /\ later.violations = b.violations /\ later.matches = b.matches
       /\ later.unmatched = b.unmatched /\ later.reasons = b.reasons
  BY <1>0, <1>13 DEF BatchType
<1>19. Alike(b, later)
  BY <1>16 DEF Alike
<1>20. Counted(later, q)
  BY <1>18, <1>19, AlikeLines DEF Counted
<1>21. Sound(later)
  BY <1>15, <1>16 DEF Sound
<1>22. ReadTo(later, p + L)
  BY <1>1, <1>11, <1>12, <1>16, <1>17 DEF ReadTo, Remains
<1> QED BY <1>01, <1>02, <1>03, <1>16, <1>17, <1>19, <1>20, <1>21, <1>22 DEF Moved

(* The reader's piece at p, told in the stream's own positions. *)
LEMMA PieceFacts ==
  ASSUME NEW b, Sound(b), NEW p \in 0..Len(b.input), ReadTo(b, p)
  PROVE  PieceAt(b.input, p, MaxRecord + 1, Readline(b.rest, MaxRecord + 1))
<1>0. b.input \in Seq(Text) /\ b.rest \in Seq(Text)
  BY BatchFields DEF Sound
<1>1. MaxRecord + 1 \in Nat \ {0}
  BY OperationsAssumption
<1> QED BY <1>0, <1>1, ReadFacts DEF ReadTo

(* The reader has come from the line end q to the next one, p, and nb is what the line made of b. *)
Reached(b, p, q, nb) ==
  /\ Sound(b) /\ b.phase = "read" /\ ReadTo(b, p) /\ Counted(b, q)
  /\ p \in 0..Len(b.input) /\ q \in 0..Len(b.input) /\ q < Len(b.input)
  /\ q = 0 \/ Nl(b.input, q)
  /\ p = EndOf(b.input, q + 1)
  /\ Outcome(b, LineAt(b.input, q + 1), nb)

LEMMA LineStep ==
  ASSUME NEW b, NEW p, NEW q, NEW nb, Reached(b, p, q, nb)
  PROVE  Sound(nb) /\ nb.phase = "read" /\ InFlight(nb)
<1> USE DEF Reached
<1>1. b \in BatchType /\ b.input \in Seq(Text)
  BY BatchFields DEF Sound
<1>2. nb \in BatchType /\ Alike(b, nb) /\ nb.mode = b.mode /\ nb.rest = b.rest /\ nb.phase = b.phase
      /\ Counted(nb, p)
  BY <1>1, LineCounted
<1>3. q + 1 \in 1..Len(b.input)
  <2>1. Len(b.input) \in Nat
    BY <1>1, LenProperties
  <2> QED BY <2>1
<1>4. Nl(b.input, p) \/ p = Len(b.input)
  BY <1>1, <1>3, EndFacts
<1>5. nb.input = b.input /\ nb.e = b.e /\ nb.routed = b.routed
  BY <1>2 DEF Alike
<1>6. Sound(nb)
  BY <1>2, <1>5 DEF Sound
<1>7. nb.phase = "read" /\ nb.phase # "drain"
  BY <1>2
<1>8. Pending(nb, p, p)
  BY <1>2, <1>4, <1>5, <1>7 DEF Pending, ReadTo
<1>9. p \in 0..Len(nb.input)
  BY <1>5
<1> QED BY <1>6, <1>7, <1>8, <1>9 DEF InFlight

(* ReadOn: a whole line is counted, an oversized one is left to be drained. *)
LEMMA ReadStep ==
  ASSUME NEW b, Sound(b), b.phase = "read", InFlight(b), NEW line, line = Readline(b.rest, MaxRecord + 1),
         line # <<>>, NEW later, later = [b EXCEPT !.rest = After(b.rest, line)],
         NEW nb, nb = IF WholeLine(line) THEN EvaluateLine(later, Yielded(b.mode, line))
                                         ELSE [later EXCEPT !.phase = "drain"]
  PROVE  Sound(nb) /\ nb.phase \in {"read", "drain"} /\ InFlight(nb)
<1>0. b \in BatchType /\ b.input \in Seq(Text)
  BY BatchFields DEF Sound
<1>1. PICK p \in 0..Len(b.input), q \in 0..Len(b.input) : Pending(b, p, q)
  BY DEF InFlight
<1>2. ReadTo(b, p) /\ Counted(b, p) /\ (p = 0 \/ Nl(b.input, p) \/ p = Len(b.input))
  BY <1>1 DEF Pending
<1>3. PICK s \in Seq(Text) : s = b.input
  BY <1>0
<1>4. Len(s) \in Nat /\ p \in 0..Len(s) /\ p \in Nat /\ MaxRecord \in Nat
  BY <1>3, LenProperties, OperationsAssumption
<1>5. PICK L : L = Len(line)
  OBVIOUS
<1>6. PieceAt(b.input, p, MaxRecord + 1, line)
  BY <1>2, PieceFacts
<1>7. /\ line \in Seq(Text) /\ L \in Nat /\ L > 0 /\ p < Len(s) /\ p + L \in 0..Len(s) /\ L <= MaxRecord + 1
  <2>1. /\ line \in Seq(Text) /\ L \in Nat /\ p + L \in 0..Len(s) /\ L <= MaxRecord + 1 /\ L # 0
    BY <1>3, <1>5, <1>6 DEF PieceAt
  <2> QED BY <2>1, <1>4
<1>8. /\ \A j \in 1..L : line[j] = s[p + j]
      /\ \A j \in (p + 1)..(p + L) : j < p + L => ~Nl(s, j)
      /\ Newline(line) <=> Nl(s, p + L)
      /\ L = MaxRecord + 1 \/ p + L = Len(s) \/ Nl(s, p + L)
  BY <1>3, <1>5, <1>6 DEF PieceAt
<1>9. CASE WholeLine(line)
  <2>0. later = MovedOn(b, "read")
    BY <1>0 DEF BatchType, MovedOn
  <2>1. Moved(b, later, p + L, p, "read")
    BY <1>2, <1>5, <2>0, LaterFacts
  <2>2. /\ Sound(later) /\ Alike(b, later) /\ later.mode = b.mode /\ later.phase = "read"
        /\ ReadTo(later, p + L) /\ Counted(later, p)
    BY <2>1 DEF Moved
  <2>3. Nl(s, p + L) \/ p + L = Len(s)
    <3>1. Newline(line) \/ L < MaxRecord + 1
      BY <1>5, <1>9 DEF WholeLine
    <3>2. L < MaxRecord + 1 => L # MaxRecord + 1
      BY <1>4, <1>7
    <3> QED BY <3>1, <3>2, <1>8
  <2>4. p + L = EndOf(s, p + 1)
    <3>1. p + 1 \in 1..Len(s) /\ p + L \in (p + 1)..Len(s)
      BY <1>4, <1>7
    <3>2. \A j \in (p + 1)..Len(s) : j < p + L => ~Nl(s, j)
      BY <1>4, <1>7, <1>8
    <3> QED BY <3>1, <3>2, <2>3, EndFacts
  <2>5. line = LineAt(s, p + 1)
    BY <1>4, <1>5, <1>7, <1>8, <2>4, LineIs
  <2>61. later.input = s
    BY <1>3, <2>2 DEF Alike
  <2>62. p = 0 \/ Nl(s, p)
    BY <1>2, <1>3, <1>4, <1>7
  <2>7. later \in BatchType /\ (later.e # EventAlerts => later.routed)
    BY <2>2 DEF Sound
  <2>8. later.mode = "bytes" => \A i \in 1..Len(line) : line[i] # "w"
    <3> SUFFICES ASSUME later.mode = "bytes", NEW i \in 1..L PROVE line[i] # "w"
      BY <1>5
    <3>1. p + i \in 1..Len(s)
      BY <1>4, <1>7
    <3>2. s[p + i] # "w"
      BY <3>1, <2>2, <2>61 DEF Sound
    <3> QED BY <3>2, <1>8
  <2>9. nb = EvaluateLine(later, Yielded(later.mode, line))
    BY <1>9, <2>2
  <2>10. Outcome(later, line, nb)
    BY <1>7, <2>7, <2>8, <2>9, Evaluated
  <2>11. p + L \in 0..Len(later.input) /\ p \in 0..Len(later.input) /\ p < Len(later.input)
    BY <1>4, <1>7, <2>61
  <2>12. (p = 0 \/ Nl(later.input, p)) /\ p + L = EndOf(later.input, p + 1) /\ line = LineAt(later.input, p + 1)
    BY <2>4, <2>5, <2>61, <2>62
  <2>13. Sound(nb) /\ nb.phase = "read" /\ InFlight(nb)
    <3>1. Outcome(later, LineAt(later.input, p + 1), nb)
      BY <2>10, <2>12
    <3>2. Reached(later, p + L, p, nb)
      BY <2>2, <2>11, <2>12, <3>1 DEF Reached
    <3> QED BY <3>2, LineStep
  <2> QED BY <2>13
<1>10. CASE ~WholeLine(line)
  <2>0. nb = MovedOn(b, "drain")
    BY <1>0, <1>10 DEF BatchType, MovedOn
  <2>1. Moved(b, nb, p + L, p, "drain")
    BY <1>2, <1>5, <2>0, LaterFacts
  <2>2. /\ Sound(nb) /\ Alike(b, nb) /\ nb.phase = "drain" /\ nb.phase # "read"
        /\ ReadTo(nb, p + L) /\ Counted(nb, p)
    BY <2>1 DEF Moved
  <2>3. L = MaxRecord + 1 /\ ~Nl(s, p + L)
    <3>1. ~Newline(line) /\ ~(L < MaxRecord + 1)
      BY <1>5, <1>10 DEF WholeLine
    <3>2. L = MaxRecord + 1
      BY <3>1, <1>4, <1>7
    <3> QED BY <3>1, <3>2, <1>8
  <2>4. \A j \in (p + 1)..(p + L) : ~Nl(s, j)
    BY <2>3, <1>4, <1>7, <1>8
  <2>5. p + MaxRecord + 1 <= p + L
    BY <2>3, <1>4, <1>7
  <2>6. nb.input = s
    BY <1>3, <2>2 DEF Alike
  <2>7. Pending(nb, p + L, p)
    BY <1>2, <1>3, <2>2, <2>4, <2>5, <2>6 DEF Pending
  <2>8. p + L \in 0..Len(nb.input) /\ p \in 0..Len(nb.input)
    BY <1>4, <1>7, <2>6
  <2> QED BY <2>2, <2>7, <2>8 DEF InFlight
<1> QED BY <1>9, <1>10

(* DrainOn: the oversized line counts once, when its end is reached. *)
LEMMA DrainStep ==
  ASSUME NEW b, Sound(b), b.phase = "drain", InFlight(b), NEW line, line = Readline(b.rest, MaxRecord + 1),
         NEW later, later = [b EXCEPT !.rest = After(b.rest, line)],
         NEW nb, nb = IF line # <<>> /\ ~Newline(line) THEN later
                      ELSE EvaluateLine([later EXCEPT !.phase = "read"], <<"OVERSIZED">>)
  PROVE  Sound(nb) /\ nb.phase \in {"read", "drain"} /\ InFlight(nb)
<1>0. b \in BatchType /\ b.input \in Seq(Text)
  BY BatchFields DEF Sound
<1>1. PICK p \in 0..Len(b.input), q \in 0..Len(b.input) : Pending(b, p, q)
  BY DEF InFlight
<1>2. PICK s \in Seq(Text) : s = b.input
  BY <1>0
<1>3. ReadTo(b, p) /\ Counted(b, q) /\ (q = 0 \/ Nl(s, q) \/ q = Len(s))
      /\ q + MaxRecord + 1 <= p /\ \A j \in (q + 1)..p : ~Nl(s, j)
  BY <1>1, <1>2 DEF Pending
<1>4. Len(s) \in Nat /\ p \in 0..Len(s) /\ q \in 0..Len(s) /\ p \in Nat /\ q \in Nat /\ MaxRecord \in Nat \ {0}
  BY <1>2, LenProperties, OperationsAssumption
<1>5. PICK L : L = Len(line)
  OBVIOUS
<1>6. PieceAt(b.input, p, MaxRecord + 1, line)
  BY <1>3, PieceFacts
<1>7. L \in Nat /\ p + L \in 0..Len(s) /\ (line = <<>> <=> p = Len(s)) /\ (line = <<>> <=> L = 0)
  BY <1>2, <1>5, <1>6 DEF PieceAt
<1>8. /\ \A j \in (p + 1)..(p + L) : j < p + L => ~Nl(s, j)
      /\ line # <<>> => (Newline(line) <=> Nl(s, p + L))
  BY <1>2, <1>5, <1>6 DEF PieceAt
<1>80. \A j \in (q + 1)..(p + L) : j < p + L => ~Nl(s, j)
  <2> SUFFICES ASSUME NEW j \in (q + 1)..(p + L), j < p + L PROVE ~Nl(s, j)
    OBVIOUS
  <2>1. CASE j <= p
    <3>1. j \in (q + 1)..p
      BY <2>1, <1>4
    <3> QED BY <3>1, <1>3
  <2>2. CASE ~(j <= p)
    <3>1. j \in (p + 1)..(p + L)
      BY <2>2, <1>4, <1>7
    <3> QED BY <3>1, <1>8
  <2> QED BY <2>1, <2>2
<1>9. CASE line # <<>> /\ ~Newline(line)
  <2>0. nb = MovedOn(b, "drain")
    BY <1>0, <1>9 DEF BatchType, MovedOn
  <2>1. Moved(b, nb, p + L, q, "drain")
    BY <1>3, <1>5, <2>0, LaterFacts
  <2>2. /\ Sound(nb) /\ Alike(b, nb) /\ nb.phase = "drain" /\ nb.phase # "read"
        /\ ReadTo(nb, p + L) /\ Counted(nb, q)
    BY <2>1 DEF Moved
  <2>3. ~Nl(s, p + L)
    BY <1>8, <1>9
  <2>4. \A j \in (q + 1)..(p + L) : ~Nl(s, j)
    BY <2>3, <1>4, <1>7, <1>80
  <2>5. q + MaxRecord + 1 <= p + L
    BY <1>3, <1>4, <1>7
  <2>6. nb.input = s
    BY <1>2, <2>2 DEF Alike
  <2>7. Pending(nb, p + L, q)
    BY <1>3, <2>2, <2>4, <2>5, <2>6 DEF Pending
  <2>8. p + L \in 0..Len(nb.input) /\ q \in 0..Len(nb.input)
    BY <1>4, <1>7, <2>6
  <2> QED BY <2>2, <2>7, <2>8 DEF InFlight
<1>10. CASE line = <<>> \/ Newline(line)
  <2>0. PICK now : now = [later EXCEPT !.phase = "read"]
    OBVIOUS
  <2>01. now = MovedOn(b, "read")
    BY <1>0, <2>0 DEF BatchType, MovedOn
  <2>1. Moved(b, now, p + L, q, "read")
    BY <1>3, <1>5, <2>01, LaterFacts
  <2>2. /\ Sound(now) /\ Alike(b, now) /\ now.phase = "read"
        /\ ReadTo(now, p + L) /\ Counted(now, q)
    BY <2>1 DEF Moved
  <2>3. Nl(s, p + L) \/ p + L = Len(s)
    <3>1. line = <<>> => p + L = Len(s)
      BY <1>4, <1>7
    <3> QED BY <3>1, <1>8, <1>10
  <2>4. q + 1 \in 1..Len(s) /\ p + L \in (q + 1)..Len(s) /\ q < Len(s)
    BY <1>3, <1>4, <1>7
  <2>5. p + L = EndOf(s, q + 1)
    <3>1. \A j \in (q + 1)..Len(s) : j < p + L => ~Nl(s, j)
      BY <1>4, <1>7, <1>80
    <3> QED BY <3>1, <2>3, <2>4, EndFacts
  <2>6. PICK whole : whole = LineAt(s, q + 1)
    OBVIOUS
  <2>7. whole \in Seq(Text) /\ Len(whole) = EndOf(s, q + 1) - (q + 1) + 1
    BY <2>4, <2>6, LineAtFacts
  <2>8. Len(whole) \in Nat /\ Len(whole) >= MaxRecord + 1 /\ Len(whole) # 1
    <3>1. Len(whole) = (p + L) - (q + 1) + 1
      BY <2>5, <2>7
    <3> QED BY <3>1, <1>3, <1>4, <1>7
  <2>9. whole # <<>>
    <3>1. Len(whole) # 0
      BY <2>8, <1>4
    <3> QED BY <3>1, EmptySeq
  <2>10. Content(whole) # <<>>
    BY <2>7, <2>8, <2>9, ContentFacts
  <2>11. Bytes(whole) > MaxRecord
    <3>1. Bytes(whole) \in Nat /\ Len(whole) <= Bytes(whole)
      BY <2>7, BytesFacts
    <3> QED BY <3>1, <2>8, <1>4
  <2>12. BadLine(now.e, whole)
    BY <2>11 DEF BadLine
  <2>13. nb = Violation(now, "RECORD_TOO_LARGE")
    BY <1>10, <2>0, MarkerIsViolation
  <2>14. Outcome(now, whole, nb)
    BY <2>10, <2>12, <2>13 DEF Outcome, Scored, Codes
  <2>15. now.input = s
    BY <1>2, <2>2 DEF Alike
  <2>16. p + L \in 0..Len(now.input) /\ q \in 0..Len(now.input) /\ q < Len(now.input)
    BY <1>4, <1>7, <2>4, <2>15
  <2>17. q = 0 \/ Nl(s, q)
    BY <1>3, <1>4, <2>4
  <2>18. (q = 0 \/ Nl(now.input, q)) /\ p + L = EndOf(now.input, q + 1) /\ whole = LineAt(now.input, q + 1)
    BY <2>5, <2>6, <2>15, <2>17
  <2>19. Sound(nb) /\ nb.phase = "read" /\ InFlight(nb)
    <3>1. Reached(now, p + L, q, nb)
      BY <2>2, <2>14, <2>16, <2>18 DEF Reached
    <3> QED BY <3>1, LineStep
  <2> QED BY <2>19
<1> QED BY <1>9, <1>10

(* BatchIsWhole, of any batch. *)
WholeReport(b) ==
  b.phase = "done" /\ b.status \in {"INVALID", "MATCHED", "NO_MATCHES"} =>
    /\ b.records = Cardinality(LinesOf(b))
    /\ (b.status = "INVALID") = (BadOf(b) # {})
    /\ b.violations = Cardinality(BadOf(b))
    /\ b.matches = IF BadOf(b) = {} THEN Cardinality(HighOf(b)) ELSE 0
    /\ b.unmatched = IF BadOf(b) = {} THEN Cardinality(LinesOf(b)) - Cardinality(HighOf(b)) ELSE 0

(* The inductive invariant of the JSONL evaluators. *)
BatchSound(b) ==
  /\ Sound(b)
  /\ b.phase \in {"read", "drain"} => InFlight(b)
  /\ WholeReport(b)

(* At the end of the stream every line has been counted, so the report is about the whole batch. *)
LEMMA ConcludeStep ==
  ASSUME NEW b, Sound(b), b.phase = "read", InFlight(b), Readline(b.rest, MaxRecord + 1) = <<>>
  PROVE  BatchSound(Concluded(b))
<1>0. b \in BatchType /\ b.input \in Seq(Text)
  BY BatchFields DEF Sound
<1>1. PICK p \in 0..Len(b.input), q \in 0..Len(b.input) : Pending(b, p, q)
  BY DEF InFlight
<1>2. ReadTo(b, p) /\ Counted(b, p)
  BY <1>1 DEF Pending
<1>3. PieceAt(b.input, p, MaxRecord + 1, <<>>)
  BY <1>2, PieceFacts
<1>4. p = Len(b.input) /\ Len(b.input) \in Nat
  BY <1>0, <1>3, LenProperties DEF PieceAt
<1> DEFINE A == LinesOf(b)
           B == BadOf(b)
           H == HighOf(b)
<1>5. A \in SUBSET LineStarts(b.input) /\ B \in SUBSET LineStarts(b.input) /\ H \in SUBSET LineStarts(b.input)
      /\ H \in SUBSET A /\ B \in SUBSET A
  BY LineSets
<1>6. ASSUME NEW X \in SUBSET LineStarts(b.input) PROVE Upto(X, p) = X /\ IsFiniteSet(X) /\ Cardinality(X) \in Nat
  <2>1. X \in SUBSET (1..Len(b.input)) /\ IsFiniteSet(X)
    BY <1>0, UptoFacts
  <2>2. \A i \in X : i <= p
    BY <2>1, <1>4
  <2>3. Upto(X, p) = X
    BY <2>2 DEF Upto
  <2> QED BY <2>1, <2>3, FS_CardinalityType
<1>7. b.records = Cardinality(A) /\ b.violations = Cardinality(B)
      /\ b.matches = Cardinality(H \ B) /\ b.unmatched = Cardinality(A \ (H \cup B))
      /\ (b.reasons = {} <=> b.violations = 0)
  <2>1. H \ B \in SUBSET LineStarts(b.input) /\ A \ (H \cup B) \in SUBSET LineStarts(b.input)
    BY <1>5
  <2>2. Upto(A, p) = A /\ Upto(B, p) = B /\ Upto(H \ B, p) = H \ B /\ Upto(A \ (H \cup B), p) = A \ (H \cup B)
    BY <1>5, <1>6, <2>1
  <2> QED BY <1>2, <2>2 DEF Counted
<1>8. b.reasons = {} <=> B = {}
  <2>1. IsFiniteSet(B)
    BY <1>5, <1>6
  <2> QED BY <2>1, <1>7, FS_EmptySet
<1>9. B = {} => Cardinality(H \ B) = Cardinality(H) /\ Cardinality(A \ (H \cup B)) = Cardinality(A) - Cardinality(H)
  <2> SUFFICES ASSUME B = {} PROVE Cardinality(H \ B) = Cardinality(H)
                                   /\ Cardinality(A \ (H \cup B)) = Cardinality(A) - Cardinality(H)
    OBVIOUS
  <2>1. H \ B = H /\ A \ (H \cup B) = A \ H /\ A \cap H = H
    BY <1>5
  <2>2. Cardinality(A \ H) = Cardinality(A) - Cardinality(A \cap H)
    BY <1>5, <1>6, FS_Difference
  <2> QED BY <2>1, <2>2
<1> HIDE DEF A, B, H
<1>10. PICK nb : nb = Concluded(b)
  OBVIOUS
<1>11. "done" \in Phases /\ "INVALID" \in Results /\ "MATCHED" \in Results /\ "NO_MATCHES" \in Results /\ 0 \in Nat
  BY DEF Phases, Results
<1>12. CASE B # {}
  <2>1. nb = [b EXCEPT !.phase = "done", !.status = "INVALID", !.matches = 0, !.unmatched = 0]
    BY <1>8, <1>10, <1>12 DEF Concluded
  <2>2. nb \in BatchType
    BY <1>0, <1>11, <2>1 DEF BatchType
  <2>3. nb.input = b.input /\ nb.e = b.e /\ nb.routed = b.routed /\ nb.mode = b.mode /\ nb.phase = "done"
    BY <1>0, <2>1 DEF BatchType
  <2>4. nb.status = "INVALID" /\ nb.records = b.records /\ nb.violations = b.violations
        /\ nb.matches = 0 /\ nb.unmatched = 0
    BY <1>0, <2>1 DEF BatchType
  <2>5. LinesOf(nb) = A /\ BadOf(nb) = B /\ HighOf(nb) = H
    BY <2>3, AlikeLines DEF Alike, A, B, H
  <2>6. WholeReport(nb)
    BY <1>7, <1>12, <2>4, <2>5 DEF WholeReport
  <2>7. Sound(nb)
    BY <2>2, <2>3 DEF Sound
  <2> QED BY <1>10, <2>3, <2>6, <2>7 DEF BatchSound
<1>13. CASE B = {}
  <2>0. PICK st \in {"MATCHED", "NO_MATCHES"} : nb = [b EXCEPT !.phase = "done", !.status = st]
    BY <1>8, <1>10, <1>13 DEF Concluded
  <2>1. st \in Results /\ st # "INVALID"
    BY <1>11
  <2>2. nb \in BatchType
    BY <1>0, <1>11, <2>0, <2>1 DEF BatchType
  <2>3. nb.input = b.input /\ nb.e = b.e /\ nb.routed = b.routed /\ nb.mode = b.mode /\ nb.phase = "done"
    BY <1>0, <2>0 DEF BatchType
  <2>4. nb.status = st /\ nb.records = b.records /\ nb.violations = b.violations
        /\ nb.matches = b.matches /\ nb.unmatched = b.unmatched
    BY <1>0, <2>0 DEF BatchType
  <2>5. LinesOf(nb) = A /\ BadOf(nb) = B /\ HighOf(nb) = H
    BY <2>3, AlikeLines DEF Alike, A, B, H
  <2>6. WholeReport(nb)
    BY <1>7, <1>9, <1>13, <2>1, <2>4, <2>5 DEF WholeReport
  <2>7. Sound(nb)
    BY <2>2, <2>3 DEF Sound
  <2> QED BY <1>10, <2>3, <2>6, <2>7 DEF BatchSound
<1> QED BY <1>12, <1>13

(* The streams the model enumerates are sequences of its characters. *)
LEMMA StreamFacts ==
  ASSUME NEW mode \in StreamModes, NEW s \in Streams(mode)
  PROVE  s \in Seq(Text) /\ (mode = "bytes" => \A i \in 1..Len(s) : s[i] # "w")
<1>1. PICK n \in 0..MaxStream : s \in [1..n -> Alphabet(mode)]
  BY DEF Streams
<1>2. n \in Nat
  BY OperationsAssumption
<1>3. Alphabet(mode) \subseteq Text /\ (mode = "bytes" => "w" \notin Alphabet(mode))
  BY DEF Alphabet, Text
<1>4. s \in [1..n -> Text]
  BY <1>1, <1>3
<1>5. s \in Seq(Text) /\ DOMAIN s = 1..n
  BY <1>2, <1>4, SeqDef
<1>6. Len(s) = n
  BY <1>2, <1>5
<1> QED BY <1>1, <1>3, <1>5, <1>6

(* Only the event evaluator may be without a route. *)
LEMMA RoutingFacts ==
  ASSUME NEW e \in Evaluators, NEW r \in Routings(e)
  PROVE  r \in BOOLEAN /\ (e # EventAlerts => r)
<1>1. e # EventAlerts => e.threshold = TRUE \/ e = Capacity
  BY DEF Evaluators, SessionFailure, SessionRestart, AssetFailure, BillingWebhook, EgressFailure, EgressReconnect,
         IngestUnavailable, NodeResourcePressure, Evaluator
<1>2. PICK c : r = (e.threshold \/ e = Capacity \/ "T" \in DOMAIN BuildEventAlertIndex(c))
  BY DEF Routings
<1> QED BY <1>1, <1>2

(* The state main starts from, and the two ways it stops before the stream. *)
LEMMA FreshFacts ==
  ASSUME NEW e \in Evaluators
  PROVE  /\ Fresh(e) \in BatchType /\ Fresh(e).e = e /\ Fresh(e).routed = TRUE /\ Fresh(e).phase = "start"
         /\ Fresh(e).status = "none" /\ Fresh(e).mode = "bytes" /\ Fresh(e).input = <<>> /\ Fresh(e).rest = <<>>
         /\ Fresh(e).records = 0 /\ Fresh(e).violations = 0 /\ Fresh(e).matches = 0 /\ Fresh(e).unmatched = 0
         /\ Fresh(e).reasons = {}
<1>1. <<>> \in Seq(Text)
  BY EmptySeq
<1>2. "start" \in Phases /\ "none" \in Results /\ "bytes" \in StreamModes
  BY DEF Phases, Results, StreamModes
<1>3. {} \in SUBSET Codes
  OBVIOUS
<1> QED BY <1>1, <1>2, <1>3 DEF Fresh, NoStream, BatchType

LEMMA FreshSound ==
  ASSUME NEW e \in Evaluators
  PROVE  /\ BatchSound(Fresh(e))
         /\ \A status \in {"INVALID_CATALOG", "INVALID_THRESHOLD"} :
               BatchSound([Fresh(e) EXCEPT !.phase = "done", !.status = status])
<1>0. Len(<<>>) = 0
  BY EmptySeq
<1>1. Sound(Fresh(e))
  <2>1. Fresh(e) \in BatchType /\ Fresh(e).routed = TRUE /\ Len(Fresh(e).input) = 0
    BY <1>0, FreshFacts
  <2>2. \A i \in 1..Len(Fresh(e).input) : FALSE
    BY <2>1
  <2> QED BY <2>1, <2>2 DEF Sound
<1>2. BatchSound(Fresh(e))
  BY <1>1, FreshFacts DEF BatchSound, WholeReport
<1>3. ASSUME NEW status \in {"INVALID_CATALOG", "INVALID_THRESHOLD"}
      PROVE  BatchSound([Fresh(e) EXCEPT !.phase = "done", !.status = status])
  <2>1. PICK f \in BatchType : f = Fresh(e)
    BY FreshFacts
  <2>2. PICK nb : nb = [f EXCEPT !.phase = "done", !.status = status]
    OBVIOUS
  <2>3. "done" \in Phases /\ status \in Results /\ status \notin {"INVALID", "MATCHED", "NO_MATCHES"}
    BY DEF Phases, Results
  <2>4. nb \in BatchType
    BY <2>2, <2>3 DEF BatchType
  <2>5. nb.input = f.input /\ nb.e = f.e /\ nb.routed = f.routed /\ nb.mode = f.mode
        /\ nb.phase = "done" /\ nb.status = status
    BY <2>2 DEF BatchType
  <2>6. Sound(nb)
    BY <1>1, <2>1, <2>4, <2>5 DEF Sound
  <2>7. BatchSound(nb)
    BY <2>3, <2>5, <2>6 DEF BatchSound, WholeReport
  <2> QED BY <2>1, <2>2, <2>7
<1> QED BY <1>2, <1>3

(* A stream that has not been read yet: nothing counted, nothing consumed. *)
LEMMA OpenedSound ==
  ASSUME NEW e \in Evaluators, NEW mode \in StreamModes, NEW routed \in Routings(e), NEW s \in Streams(mode)
  PROVE  BatchSound([Fresh(e) EXCEPT !.phase = "read", !.mode = mode, !.routed = routed, !.input = s, !.rest = s])
<1>0. s \in Seq(Text) /\ (mode = "bytes" => \A i \in 1..Len(s) : s[i] # "w") /\ Len(s) \in Nat
  BY StreamFacts, LenProperties
<1>1. PICK f \in BatchType : f = Fresh(e)
  BY FreshFacts
<1>2. PICK nb : nb = [f EXCEPT !.phase = "read", !.mode = mode, !.routed = routed, !.input = s, !.rest = s]
  OBVIOUS
<1>3. routed \in BOOLEAN /\ (e # EventAlerts => routed)
  BY RoutingFacts
<1>4. "read" \in Phases
  BY DEF Phases
<1>5. nb \in BatchType
  BY <1>0, <1>2, <1>3, <1>4 DEF BatchType
<1>6. nb.input = s /\ nb.rest = s /\ nb.e = f.e /\ nb.routed = routed /\ nb.mode = mode /\ nb.phase = "read"
  BY <1>2 DEF BatchType
<1>7. nb.records = f.records /\ nb.violations = f.violations /\ nb.matches = f.matches
      /\ nb.unmatched = f.unmatched /\ nb.reasons = f.reasons
  BY <1>2 DEF BatchType
<1>8. nb.e = e /\ nb.records = 0 /\ nb.violations = 0 /\ nb.matches = 0 /\ nb.unmatched = 0 /\ nb.reasons = {}
  BY <1>1, <1>6, <1>7, FreshFacts
<1>9. Sound(nb)
  BY <1>0, <1>3, <1>5, <1>6, <1>8 DEF Sound
<1>10. ASSUME NEW X \in SUBSET LineStarts(s) PROVE Cardinality(Upto(X, 0)) = 0
  <2>1. X \in SUBSET (1..Len(s))
    BY <1>0, UptoFacts
  <2>2. \A i \in X : ~(i <= 0)
    BY <1>0, <2>1
  <2>3. Upto(X, 0) = {}
    BY <2>2 DEF Upto
  <2> QED BY <2>3, FS_EmptySet
<1>11. LinesOf(nb) \in SUBSET LineStarts(s) /\ BadOf(nb) \in SUBSET LineStarts(s)
       /\ HighOf(nb) \ BadOf(nb) \in SUBSET LineStarts(s)
       /\ LinesOf(nb) \ (HighOf(nb) \cup BadOf(nb)) \in SUBSET LineStarts(s)
  BY <1>6, LineSets
<1>12. Counted(nb, 0)
  BY <1>8, <1>10, <1>11 DEF Counted
<1>13. Remains(s, 0, s)
  <2>1. Len(s) = Len(s) - 0
    BY <1>0
  <2>2. \A i \in 1..Len(s) : 0 + i = i
    BY <1>0
  <2> QED BY <2>1, <2>2 DEF Remains
<1>14. Pending(nb, 0, 0)
  BY <1>6, <1>12, <1>13 DEF Pending, ReadTo
<1>15. 0 \in 0..Len(nb.input)
  BY <1>0, <1>6
<1>16. InFlight(nb)
  BY <1>14, <1>15 DEF InFlight
<1>17. BatchSound(nb)
  BY <1>6, <1>9, <1>16 DEF BatchSound, WholeReport
<1> QED BY <1>1, <1>2, <1>17

(* Every step of every JSONL evaluator keeps the batch sound. *)
LEMMA BatchStep ==
  ASSUME BatchSound(batch), NEW e \in Evaluators, Main(e) \/ EvaluateLines(e)
  PROVE  BatchSound(batch')
<1>1. CASE Main(e)
  <2>1. CASE \E c \in Catalogs(e) :
               ~CatalogAccepted(e, c) /\ batch' = [Fresh(e) EXCEPT !.phase = "done", !.status = "INVALID_CATALOG"]
    BY <2>1, FreshSound
  <2>2. CASE e.threshold /\ batch' = [Fresh(e) EXCEPT !.phase = "done", !.status = "INVALID_THRESHOLD"]
    BY <2>2, FreshSound
  <2>3. CASE \E mode \in {"bytes", "text"}, routed \in Routings(e) : \E s \in Streams(mode) :
               batch' = [Fresh(e) EXCEPT !.phase = "read", !.mode = mode, !.routed = routed, !.input = s, !.rest = s]
    <3>1. PICK mode \in StreamModes, routed \in Routings(e) : \E s \in Streams(mode) :
               batch' = [Fresh(e) EXCEPT !.phase = "read", !.mode = mode, !.routed = routed, !.input = s, !.rest = s]
      BY <2>3 DEF StreamModes
    <3>2. PICK s \in Streams(mode) :
               batch' = [Fresh(e) EXCEPT !.phase = "read", !.mode = mode, !.routed = routed, !.input = s, !.rest = s]
      BY <3>1
    <3> QED BY <3>2, OpenedSound
  <2> QED BY <1>1, <2>1, <2>2, <2>3 DEF Main
<1>2. CASE ReadOn(e)
  <2>0. Sound(batch) /\ batch.phase = "read" /\ InFlight(batch)
    BY <1>2 DEF ReadOn, BatchSound
  <2>1. PICK line : line = Readline(batch.rest, MaxRecord + 1)
    OBVIOUS
  <2>2. PICK later : later = [batch EXCEPT !.rest = After(batch.rest, line)]
    OBVIOUS
  <2>3. CASE line = <<>>
    <3>1. batch' = Concluded(batch)
      BY <1>2, <2>1, <2>3 DEF ReadOn
    <3>2. BatchSound(Concluded(batch))
      BY <2>0, <2>1, <2>3, ConcludeStep
    <3> QED BY <3>1, <3>2
  <2>4. CASE line # <<>>
    <3>1. batch' = IF WholeLine(line) THEN EvaluateLine(later, Yielded(batch.mode, line))
                                      ELSE [later EXCEPT !.phase = "drain"]
      BY <1>2, <2>1, <2>2, <2>4 DEF ReadOn, Yielded
    <3>2. Sound(batch') /\ batch'.phase \in {"read", "drain"} /\ InFlight(batch')
      BY <2>0, <2>1, <2>2, <2>4, <3>1, ReadStep
    <3> QED BY <3>2 DEF BatchSound, WholeReport
  <2> QED BY <2>3, <2>4
<1>3. CASE DrainOn(e)
  <2>0. Sound(batch) /\ batch.phase = "drain" /\ InFlight(batch)
    BY <1>3 DEF DrainOn, BatchSound
  <2>1. PICK line : line = Readline(batch.rest, MaxRecord + 1)
    OBVIOUS
  <2>2. PICK later : later = [batch EXCEPT !.rest = After(batch.rest, line)]
    OBVIOUS
  <2>3. batch' = IF line # <<>> /\ ~Newline(line) THEN later
                 ELSE EvaluateLine([later EXCEPT !.phase = "read"], <<"OVERSIZED">>)
    BY <1>3, <2>1, <2>2 DEF DrainOn
  <2>4. Sound(batch') /\ batch'.phase \in {"read", "drain"} /\ InFlight(batch')
    BY <2>0, <2>1, <2>2, <2>3, DrainStep
  <2> QED BY <2>4 DEF BatchSound, WholeReport
<1> QED BY <1>1, <1>2, <1>3 DEF EvaluateLines

(* The evaluator of the Nodes: its clock was read before the authority, and its report is about that copy. *)
NodeType == [desired : {"RUNNING", "STOPPED"}, status : Statuses, beat : Nat]

Copied == inspect.copy \in [AlertNodes -> NodeType] /\ inspect.readAt \in Nat

FleetInv ==
  /\ fleet \in [AlertNodes -> NodeType] /\ clock \in Nat
  /\ inspect.phase \in {"clock", "read"} => inspect.now \in Nat /\ inspect.now <= clock
  /\ inspect.phase = "read" => Copied /\ inspect.now <= inspect.readAt
  /\ inspect.phase = "done" => inspect.report.stale \in SUBSET AlertNodes
  /\ StaleWasSilent /\ SilentFleetIsCritical

AlertInv == BatchSound(batch) /\ FleetInv

(* The clock was read first, so an age never exceeds the silence at the time of the copy. *)
LEMMA StaleFacts ==
  ASSUME NEW i, i.copy \in [AlertNodes -> NodeType], i.now \in Nat, i.readAt \in Nat, i.now <= i.readAt,
         NEW n \in StaleNodes(i)
  PROVE  n \in AlertNodes /\ i.readAt - i.copy[n].beat >= Grace
<1>1. n \in AlertNodes /\ AgeOf(i, n) >= Grace
  BY DEF StaleNodes
<1>2. i.copy[n].beat \in Nat
  BY <1>1 DEF NodeType
<1>3. AgeOf(i, n) = IF i.now < i.copy[n].beat THEN 0 ELSE i.now - i.copy[n].beat
  BY DEF AgeOf, EvaluationNow
<1>4. Grace \in Nat \ {0}
  BY OperationsAssumption
<1> QED BY <1>1, <1>2, <1>3, <1>4

(* Every step of the Nodes and of the authority evaluators keeps FleetInv. *)
LEMMA FleetStep ==
  ASSUME FleetInv, FleetNext
  PROVE  FleetInv'
<1> USE DEF FleetInv
<1>1. ASSUME NEW n \in AlertNodes, Beat(n) PROVE FleetInv'
  <2>1. fleet' \in [AlertNodes -> NodeType]
    BY <1>1 DEF Beat, NodeType
  <2> QED BY <1>1, <2>1 DEF Beat, NotRead, Copied, StaleWasSilent, SilentFleetIsCritical
<1>2. ASSUME NEW n \in AlertNodes, NEW d \in {"RUNNING", "STOPPED"}, NEW s \in Statuses, SetNode(n, d, s)
      PROVE  FleetInv'
  <2>1. fleet' \in [AlertNodes -> NodeType]
    BY <1>2 DEF SetNode, NodeType
  <2> QED BY <1>2, <2>1 DEF SetNode, NotRead, Copied, StaleWasSilent, SilentFleetIsCritical
<1>3. CASE AlertTick
  BY <1>3 DEF AlertTick, Copied, StaleWasSilent, SilentFleetIsCritical
<1>4. CASE InspectionNow
  BY <1>4 DEF InspectionNow, Copied, StaleWasSilent, SilentFleetIsCritical
<1>5. CASE ReadNodeAuthority
  BY <1>5 DEF ReadNodeAuthority, Copied, StaleWasSilent, SilentFleetIsCritical
<1>6. ASSUME NEW report, inspect.phase = "read", inspect' = Reported(inspect, report), fleet' = fleet, clock' = clock,
             report.stale = StaleNodes(inspect),
             report.alert = "availability" =>
               report.matched = (AvailableNodes(inspect) = {} /\ \E n \in AlertNodes : inspect.copy[n].desired = "RUNNING")
      PROVE  FleetInv'
  <2>1. Copied /\ inspect.now \in Nat /\ inspect.now <= inspect.readAt
    BY <1>6
  <2>2. inspect'.phase = "done" /\ inspect'.copy = inspect.copy /\ inspect'.readAt = inspect.readAt
        /\ inspect'.report = report
    BY <1>6 DEF Reported
  <2>3. \A n \in StaleNodes(inspect) : n \in AlertNodes /\ inspect.readAt - inspect.copy[n].beat >= Grace
    BY <2>1, StaleFacts DEF Copied
  <2>4. StaleWasSilent'
    BY <1>6, <2>2, <2>3 DEF StaleWasSilent
  <2>5. SilentFleetIsCritical'
    BY <1>6, <2>2 DEF SilentFleetIsCritical, AvailableNodes
  <2> QED BY <1>6, <2>2, <2>3, <2>4, <2>5
<1>7. CASE HeartbeatMain
  <2>1. EvaluateHeartbeats(inspect).stale = StaleNodes(inspect) /\ EvaluateHeartbeats(inspect).alert # "availability"
    BY DEF EvaluateHeartbeats
  <2> QED BY <1>6, <1>7, <2>1 DEF HeartbeatMain
<1>8. CASE AvailabilityMain
  <2>1. /\ EvaluateAvailability(inspect).stale = StaleNodes(inspect)
        /\ EvaluateAvailability(inspect).matched =
             (AvailableNodes(inspect) = {} /\ \E n \in AlertNodes : inspect.copy[n].desired = "RUNNING")
    BY DEF EvaluateAvailability
  <2> QED BY <1>6, <1>8, <2>1 DEF AvailabilityMain
<1>9. CASE InspectFails
  BY <1>9 DEF InspectFails, Copied, StaleWasSilent, SilentFleetIsCritical
<1> QED BY <1>1, <1>2, <1>3, <1>4, <1>5, <1>7, <1>8, <1>9 DEF FleetNext

(***************************************************************************)
(* The alert evaluators, for every limit on a record, every stream, every   *)
(* set of Nodes and every grace period: a batch is reported whole however   *)
(* its lines fall across the reader's limit, a Node reported stale was      *)
(* silent for the grace period, and a silent fleet raises the critical one. *)
(***************************************************************************)
THEOREM AlertsHold == AlertsSpec => []AlertPromise
<1>1. AlertsInit => AlertInv
  <2> SUFFICES ASSUME AlertsInit PROVE AlertInv
    OBVIOUS
  <2>1. SessionFailure \in Evaluators
    BY DEF Evaluators
  <2>2. BatchSound(batch)
    BY <2>1, FreshSound DEF AlertsInit, BatchInit
  <2>3. FleetInv
    BY DEF AlertsInit, FleetInit, FleetInv, NodeType, Statuses, StaleWasSilent, SilentFleetIsCritical
  <2> QED BY <2>2, <2>3 DEF AlertInv
<1>2. AlertInv /\ [AlertsNext]_<<batchVars, fleetVars>> => AlertInv'
  <2> SUFFICES ASSUME AlertInv, [AlertsNext]_<<batchVars, fleetVars>> PROVE AlertInv'
    OBVIOUS
  <2>1. ASSUME BatchNext PROVE BatchSound(batch')
    <3>1. PICK e \in Evaluators : Main(e) \/ EvaluateLines(e)
      BY <2>1 DEF BatchNext, Evaluators, SessionFailureMain, SessionRestartMain, AssetFailureMain, BillingWebhookMain,
                  EgressFailureMain, EgressReconnectMain, IngestUnavailableMain, NodeResourcePressureMain, CapacityMain,
                  EventMain, SessionFailureLines, SessionRestartLines, AssetFailureLines, BillingWebhookLines,
                  EgressFailureLines, EgressReconnectLines, IngestUnavailableLines, NodeResourcePressureLines,
                  CapacityLines, EventLines
    <3> QED BY <3>1, BatchStep DEF AlertInv
  <2>2. UNCHANGED batchVars => BatchSound(batch')
    BY DEF AlertInv, batchVars
  <2>3. FleetNext => FleetInv'
    BY FleetStep DEF AlertInv
  <2>4. UNCHANGED fleetVars => FleetInv'
    BY DEF AlertInv, fleetVars, FleetInv, Copied, StaleWasSilent, SilentFleetIsCritical
  <2> QED BY <2>1, <2>2, <2>3, <2>4 DEF AlertsNext, AlertInv
<1>3. AlertInv => AlertPromise
  <2>1. WholeReport(batch) => BatchIsWhole
    BY DEF WholeReport, BatchIsWhole
  <2> QED BY <2>1 DEF AlertInv, BatchSound, FleetInv, AlertPromise
<1> QED BY <1>1, <1>2, <1>3, PTL DEF AlertsSpec
=============================================================================
