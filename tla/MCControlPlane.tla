------------------------------ MODULE MCControlPlane ------------------------------
(***************************************************************************)
(* The Control API's stores around the Session, for TLC: event log and      *)
(* audio command, the control authority on disk, destinations, their probe, *)
(* assets, the readers of files that others replace, and the operators'     *)
(* alert evaluators.  The parts share no state, so a behaviour takes the    *)
(* steps of one of them and the others rest.                                *)
(***************************************************************************)
EXTENDS SessionEvents, AuthorityFile, DestinationCatalog, AssetCatalog, DestinationProbe, StableRead,
        OperationsAlerts

VARIABLE part

catalogsVars == <<catalogVars, assetVars, probeVars>>
storesVars == <<eventVars, fileVars, stableVars>>
alertVars == <<batchVars, fleetVars>>

vars == <<part, catalogsVars, storesVars, alertVars>>

Init ==
  /\ part \in {"operator", "heartbeat", "file", "catalog", "asset", "probe", "read", "batch", "fleet"}
  /\ EventsInit /\ FileInit /\ CatalogInit /\ AssetInit /\ ProbeInit /\ StableInit /\ BatchInit /\ FleetInit
  /\ part \notin {"operator", "heartbeat"} => nextSeq = 1
  /\ part # "file" => names.file = NoFile
  /\ part # "probe" => probe.kind = "rtmp"
  /\ part # "read" => named = NoInode /\ reading.by = CHOOSE r \in Readers : TRUE

Next ==
  /\ UNCHANGED part
  /\ \/ part = "operator" /\ OperatorNext /\ UNCHANGED <<catalogsVars, alertVars, fileVars, stableVars>>
     \/ part = "heartbeat" /\ HeartbeatNext /\ UNCHANGED <<catalogsVars, alertVars, fileVars, stableVars>>
     \/ part = "file" /\ FileNext /\ UNCHANGED <<catalogsVars, alertVars, eventVars, stableVars>>
     \/ part = "read" /\ StableNext /\ UNCHANGED <<catalogsVars, alertVars, eventVars, fileVars>>
     \/ part = "catalog" /\ CatalogNext /\ UNCHANGED <<storesVars, alertVars, assetVars, probeVars>>
     \/ part = "asset" /\ AssetNext /\ UNCHANGED <<storesVars, alertVars, catalogVars, probeVars>>
     \/ part = "probe" /\ ProbeNext /\ UNCHANGED <<storesVars, alertVars, catalogVars, assetVars>>
     \/ part = "batch" /\ BatchNext /\ UNCHANGED <<storesVars, catalogsVars, fleetVars>>
     \/ part = "fleet" /\ FleetNext /\ UNCHANGED <<storesVars, catalogsVars, batchVars>>

Spec == Init /\ [][Next]_vars
=============================================================================
