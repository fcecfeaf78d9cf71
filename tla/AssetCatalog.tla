------------------------------- MODULE AssetCatalog -------------------------------
(***************************************************************************)
(* Standby assets in catalog_store.py: the legacy metadata record, and the  *)
(* upload intent, its completion and the end of processing, by any user at  *)
(* any time and in any order, each under the catalogue's exclusive lock.    *)
(***************************************************************************)
EXTENDS Integers

CONSTANTS AssetUsers, AssetIds

VARIABLE assets     \* id -> the stored asset; an id is issued once

assetVars == <<assets>>

NoAsset == [status |-> "NONE"]

(* The server-derived object key of an owner and an asset. *)
SourceObjectKey(user, id) == <<user, id>>

ObjectKeys == AssetUsers \X AssetIds

IsOwnerBoundKeyAny(user, id, key) == TRUE
IsOwnerBoundKey(user, id, key) == key = SourceObjectKey(user, id)

AssetInit == assets = [i \in AssetIds |-> NoAsset]

Owned(user, id) == assets[id].status \notin {"NONE", "DELETED"} /\ assets[id].user = user

(* The metadata-only path: the caller names the key, the asset stays PENDING. *)
CreateAsset(user, id, key) ==
  /\ assets[id] = NoAsset
  /\ assets' = [assets EXCEPT ![id] = [status |-> "PENDING", user |-> user, key |-> key, type |-> "none"]]

CreateAssetUploadIntent(user, id, type) ==
  /\ assets[id] = NoAsset
  /\ assets' = [assets EXCEPT ![id] =
       [status |-> "UPLOADING", user |-> user, key |-> SourceObjectKey(user, id), type |-> type]]

AwaitingUploadAny(id) == assets[id].type # "none"
AwaitingUpload(id) == assets[id].status = "UPLOADING"

(* The size and the checksum are checked in the same call; a bad one changes nothing. *)
CompleteAssetUpload(user, id, type, key) ==
  /\ Owned(user, id) /\ AwaitingUpload(id)
  /\ assets[id].type = type
  /\ IsOwnerBoundKey(user, id, key) /\ IsOwnerBoundKey(user, id, assets[id].key)
  /\ assets' = [assets EXCEPT ![id].status = "PROCESSING", ![id].key = key]

(* Without a failure reason the call is refused: nothing becomes READY here. *)
CompleteAssetProcessing(user, id) ==
  /\ Owned(user, id) /\ assets[id].status = "PROCESSING"
  /\ assets' = [assets EXCEPT ![id].status = "FAILED"]

DeleteAsset(user, id) ==
  /\ Owned(user, id)
  /\ assets' = [assets EXCEPT ![id].status = "DELETED"]

AssetNext == \E user \in AssetUsers, id \in AssetIds :
  \/ \E key \in ObjectKeys : CreateAsset(user, id, key)
  \/ \E type \in {"png", "webp"} : \/ CreateAssetUploadIntent(user, id, type)
                                   \/ \E key \in ObjectKeys : CompleteAssetUpload(user, id, type, key)
  \/ CompleteAssetProcessing(user, id)
  \/ DeleteAsset(user, id)

AssetSpec == AssetInit /\ [][AssetNext]_assetVars
-----------------------------------------------------------------------------
(***************************************************************************)
(* Only an uploaded object of its owner is processed: an asset that entered *)
(* PROCESSING has the key derived from its own user and id, however the     *)
(* caller-named keys of the metadata path were chosen.                      *)
(***************************************************************************)
ProcessedIsOwn ==
  \A i \in AssetIds : assets[i].status \in {"PROCESSING", "FAILED"} => assets[i].key = <<assets[i].user, i>>

(***************************************************************************)
(* A finished asset is never armed again: a repeated or late completion     *)
(* cannot take an asset from FAILED, or from deletion, back to an earlier   *)
(* stage (complete_asset_upload accepts UPLOADING only).                    *)
(***************************************************************************)
Stage(status) ==
  CASE status = "NONE" -> 0 [] status \in {"PENDING", "UPLOADING"} -> 1
    [] status = "PROCESSING" -> 2 [] status = "FAILED" -> 3 [] OTHER -> 4

AssetNeverRearmed == [][\A i \in AssetIds : Stage(assets[i].status) <= Stage(assets'[i].status)]_assets

(***************************************************************************)
(* What the asset lifecycle promises (catalog_store.py).                    *)
(***************************************************************************)
AssetPromise == []ProcessedIsOwn /\ AssetNeverRearmed
=============================================================================
