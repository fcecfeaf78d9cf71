-------------------------------- MODULE StandbyAsset --------------------------------
(***************************************************************************)
(* Which standby image viewers see: Continuity takes a private snapshot of    *)
(* the customer's image, checks its header and, when a digest is configured,  *)
(* its bytes, and falls back to the Node's default and to black.  The decoder *)
(* is given an alias of the snapshot's descriptor.  Others may replace or      *)
(* damage the image files at any time; StableRead is how one is copied.       *)
(***************************************************************************)
EXTENDS Integers, FiniteSets

CONSTANTS
  Images        \* contents of well-formed images

VARIABLES
  files,       \* what the paths hold now: custom and fallback
  settings,    \* is a custom path set, and the digest it must have, or "none"
  selection,   \* StandbyAssetSelection
  engine,      \* start-up: "custom", "verify", "fallback", "status", "build", "running"
  standbyJson, \* standby.json
  decoder,     \* what the output pipeline decodes
  verifying    \* the digest check has failed: the custom image was discarded

standbyVars == <<files, settings, selection, engine, standbyJson, decoder, verifying>>

(* A file may be missing, be no image the header checks accept, or one they do. *)
Contents == Images \cup {"missing", "malformed"}
Black == [source |-> "SYNTHETIC_BLACK", bytes |-> "black", reason |-> "unavailable"]
Nothing == [source |-> "none", bytes |-> "none", reason |-> "none"]

StandbyInit ==
  /\ files \in [custom : Contents, fallback : Contents]
  /\ settings \in [custom : BOOLEAN, digest : Images \cup {"none", "bad", "otherSize"}]
  /\ selection = Nothing /\ standbyJson = Nothing /\ decoder = Nothing
  /\ engine = "custom" /\ verifying = FALSE

-----------------------------------------------------------------------------
(* resolve_standby_asset *)

(* A copy is refused when the file is not stable, its header or its dimensions are not
   accepted, or the descriptor has no alias for the decoder. *)
Snapshots(content) == IF content \in Images THEN {content, "unusable"} ELSE {"unusable"}

SnapshotCustom ==
  /\ engine = "custom"
  /\ \E bytes \in IF settings.custom THEN Snapshots(files.custom) ELSE {"unusable"} :
       IF bytes = "unusable" THEN engine' = "fallback" /\ UNCHANGED selection
       ELSE /\ engine' = "verify"
            /\ selection' = [source |-> "CUSTOM", bytes |-> bytes, reason |-> "none"]
  /\ UNCHANGED <<files, settings, standbyJson, decoder, verifying>>

(* A bug: the bytes at the path are verified, not those of the snapshot. *)
VerifiedBytesAtPath == files.custom

(* verify_selected_snapshot reads the pinned descriptor. *)
VerifiedBytes == selection.bytes

(* A malformed digest, or a size without a digest or another one, fails. *)
VerifySnapshot ==
  /\ engine = "verify"
  /\ IF settings.digest \in {"none", VerifiedBytes}
     THEN engine' = "status" /\ UNCHANGED <<selection, verifying>>
     ELSE engine' = "fallback" /\ selection' = Nothing /\ verifying' = TRUE
  /\ UNCHANGED <<files, settings, standbyJson, decoder>>

(* A bug: the reason is given only for an image that could not be opened. *)
FallbackReasonQuiet == IF settings.custom /\ ~verifying THEN "ASSET_UNAVAILABLE" ELSE "none"

FallbackReason ==
  IF verifying THEN "ASSET_INTEGRITY_CHECK_FAILED"
  ELSE IF settings.custom THEN "ASSET_UNAVAILABLE" ELSE "none"

SnapshotFallback ==
  /\ engine = "fallback"
  /\ \E bytes \in Snapshots(files.fallback) :
       selection' = IF bytes = "unusable" THEN Black
                    ELSE [source |-> "NODE_DEFAULT", bytes |-> bytes, reason |-> FallbackReason]
  /\ engine' = "status"
  /\ UNCHANGED <<files, settings, standbyJson, decoder, verifying>>

(* _write_standby_status; an unusable clock stops the start. *)
WriteStandbyStatus ==
  /\ engine = "status"
  /\ \/ standbyJson' = selection /\ engine' = "build"
     \/ engine' = "stopped" /\ UNCHANGED standbyJson
  /\ UNCHANGED <<files, settings, selection, decoder, verifying>>

(* _output_description with gst_standby_source *)
BuildStandby ==
  /\ engine = "build"
  /\ decoder' = selection /\ engine' = "running"
  /\ UNCHANGED <<files, settings, selection, standbyJson, verifying>>

(* run's finally closes the snapshot; the container starts again with what is there. *)
StandbyRestarts ==
  /\ engine \in {"running", "stopped"}
  /\ selection' = Nothing /\ decoder' = Nothing /\ verifying' = FALSE /\ engine' = "custom"
  /\ UNCHANGED <<files, settings, standbyJson>>

FileChanges(which, content) ==
  /\ files[which] # content
  /\ files' = [files EXCEPT ![which] = content]
  /\ UNCHANGED <<settings, selection, engine, standbyJson, decoder, verifying>>

StandbyNext ==
  \/ SnapshotCustom \/ VerifySnapshot \/ SnapshotFallback \/ WriteStandbyStatus \/ BuildStandby \/ StandbyRestarts
  \/ \E which \in {"custom", "fallback"}, content \in Contents : FileChanges(which, content)

StandbySpec == StandbyInit /\ [][StandbyNext]_standbyVars

-----------------------------------------------------------------------------
(* With a digest configured, the customer's image reaches the viewers only with exactly those
   bytes, though its file changes between the copy, the check and the decoder. *)
CustomIsVerified ==
  decoder.source = "CUSTOM" /\ settings.digest # "none" => decoder.bytes = settings.digest

(* While the pipeline runs, standby.json names what the decoder shows, and a configured
   image that viewers do not see is reported with a reason. *)
StatusIsTrue ==
  engine = "running" =>
    /\ standbyJson = decoder
    /\ settings.custom /\ decoder.source # "CUSTOM" => standbyJson.reason # "none"

(* What the standby image promises (standby_asset.py): the customer's bytes or the default,
   and a status that says which. *)
StandbyPromise == CustomIsVerified /\ StatusIsTrue
=============================================================================
