------------------------------- MODULE AuthorityFile -------------------------------
(***************************************************************************)
(* How a store keeps an authority file: a temporary file, the marker that   *)
(* forbids taking a lost file for a first start, the rename, the directory   *)
(* sync.  The store is ControlStore with its audio command; the others       *)
(* write in the same way.  The readiness inspection looks at the same two    *)
(* names without the store's lock.                                          *)
(*                                                                         *)
(* names is what the kernel shows, disk what a power loss leaves for sure.   *)
(* The temporary file is synced before it is renamed, so contents are never  *)
(* torn.  Writers hold the store's lock, so there is one at a time.          *)
(***************************************************************************)
EXTENDS Naturals, FiniteSets

CONSTANTS
  CommandKeys,   \* idempotency keys
  MaxVersion,    \* bound on versions
  MaxInode       \* bound on files written

VARIABLES
  names,    \* [file, marker]: file is "none" or a record
  disk,     \* the same, durably
  up,       \* the Control API has started
  writer,   \* a write in progress
  inodes,   \* files created
  acked,    \* history: version of the last acknowledged write
  kept,     \* history: the store has confirmed that the authority exists
  unsynced, \* history: a rename whose directory was not synced since
  inspection     \* an inspection in progress

fileVars == <<names, disk, up, writer, inodes, acked, kept, unsynced, inspection>>

AudioModes == {"LIVE", "MUTED"}
NoFile == [ino |-> 0]
NoWrite == [step |-> "none"]
NoProbe == [step |-> "none"]

Contents(v, m, k) == [version |-> v, mode |-> m, key |-> k]
DefaultControl == Contents(0, "LIVE", "none")

File(i, c) == [ino |-> i, valid |-> TRUE, c |-> c]

(* A first start, or the file of a release without markers. *)
FileInit ==
  /\ names \in {[file |-> f, marker |-> FALSE] : f \in {NoFile, File(1, DefaultControl)}}
  /\ disk = names
  /\ up = FALSE /\ writer = NoWrite /\ inspection = NoProbe
  /\ inodes = names.file.ino
  /\ acked = 0 /\ kept = FALSE /\ unsynced = FALSE

Present == names.file # NoFile
Readable == Present /\ names.file.valid

-----------------------------------------------------------------------------
(* _write and mark_initialized *)

BeginWrite(c) ==
  /\ inodes < MaxInode
  /\ inodes' = inodes + 1
  /\ writer' = [step |-> "mark", c |-> c]

WriteAt(step) == writer.step = step

(* A bug: the marker follows the file. *)
MarkAfterReplace ==
  /\ WriteAt("mark")
  /\ names' = [names EXCEPT !.file = File(inodes, writer.c)]
  /\ writer' = [writer EXCEPT !.step = "marksync"]
  /\ UNCHANGED <<disk, up, inodes, acked, kept, unsynced, inspection>>

MarkInitialized ==
  /\ WriteAt("mark")
  /\ names' = [names EXCEPT !.marker = TRUE]
  /\ writer' = [writer EXCEPT !.step = "marksync"]
  /\ UNCHANGED <<disk, up, inodes, acked, kept, unsynced, inspection>>

MarkSync ==
  /\ WriteAt("marksync")
  /\ disk' = names
  /\ unsynced' = FALSE
  /\ writer' = [writer EXCEPT !.step = "replace"]
  /\ UNCHANGED <<names, up, inodes, acked, kept, inspection>>

Replace ==
  /\ WriteAt("replace")
  /\ names' = [names EXCEPT !.file = File(inodes, writer.c)]
  /\ writer' = [writer EXCEPT !.step = "sync"]
  /\ UNCHANGED <<disk, up, inodes, acked, kept, unsynced, inspection>>

(* The caller is answered; ensure lets the process start. *)
Answered ==
  /\ acked' = writer.c.version
  /\ kept' = TRUE /\ up' = TRUE /\ unsynced' = FALSE
  /\ writer' = NoWrite
  /\ UNCHANGED <<names, inodes, inspection>>

Sync == WriteAt("sync") /\ disk' = names /\ Answered

(* A call fails, or the process dies: what has been written stays.  A request that
   fails leaves the process running. *)
WriteFails ==
  /\ writer # NoWrite
  /\ writer' = NoWrite
  /\ up' \in {up, FALSE}
  /\ unsynced' = (unsynced \/ WriteAt("sync"))
  /\ UNCHANGED <<names, disk, inodes, acked, kept, inspection>>

-----------------------------------------------------------------------------
(* ensure, at start *)

(* A bug: an absent file is always created. *)
FirstStartAlways == ~Present

FirstStart == ~Present /\ ~names.marker

EnsureCreates ==
  /\ ~up /\ writer = NoWrite
  /\ FirstStart
  /\ BeginWrite(DefaultControl)
  /\ UNCHANGED <<names, disk, up, acked, kept, unsynced, inspection>>

EnsureExisting ==
  /\ ~up /\ writer = NoWrite
  /\ Readable
  /\ names' = [names EXCEPT !.marker = TRUE]
  /\ disk' = names'
  /\ up' = TRUE /\ kept' = TRUE /\ unsynced' = FALSE
  /\ UNCHANGED <<writer, inodes, acked, inspection>>

(* update.  An expected_version that does not match is answered without a write. *)
Known(k) == names.file.c.key = k

UpdateControl(m, k) ==
  /\ up /\ writer = NoWrite
  /\ Readable
  /\ ~Known(k)
  /\ names.file.c.version < MaxVersion
  /\ BeginWrite(Contents(names.file.c.version + 1, m, k))
  /\ UNCHANGED <<names, disk, up, acked, kept, unsynced, inspection>>

(* A retry of the last command is answered with what the file says.  Nothing is synced: when
   the directory sync of the first attempt failed, the answer is about a rename that a power
   loss may still take back, and acked does not count it. *)
ReplayControl(m, k) ==
  /\ up /\ writer = NoWrite
  /\ Readable
  /\ Known(k) /\ names.file.c.mode = m
  /\ acked' = IF unsynced THEN acked ELSE names.file.c.version
  /\ UNCHANGED <<names, disk, up, writer, inodes, kept, unsynced, inspection>>

-----------------------------------------------------------------------------
(* What happens to the volume *)

Stop ==
  /\ up /\ writer = NoWrite
  /\ up' = FALSE
  /\ UNCHANGED <<names, disk, writer, inodes, acked, kept, unsynced, inspection>>

PowerLoss ==
  /\ names' \in [file : {names.file, disk.file}, marker : {names.marker, disk.marker}]
  /\ disk' = names'
  /\ up' = FALSE /\ writer' = NoWrite /\ inspection' = NoProbe /\ unsynced' = FALSE
  /\ UNCHANGED <<inodes, acked, kept>>

(* The file is removed or damaged; nobody touches the marker. *)
FileLost ==
  /\ Present /\ writer = NoWrite
  /\ names' = [names EXCEPT !.file = NoFile]
  /\ disk' = [disk EXCEPT !.file = NoFile]
  /\ UNCHANGED <<up, writer, inodes, acked, kept, unsynced, inspection>>

FileDamaged ==
  /\ Readable
  /\ names' = [names EXCEPT !.file.valid = FALSE]
  /\ disk' = IF disk.file = names.file THEN [disk EXCEPT !.file.valid = FALSE] ELSE disk
  /\ UNCHANGED <<up, writer, inodes, acked, kept, unsynced, inspection>>

-----------------------------------------------------------------------------
(* _inspect_authority, and the optional form of the legacy token fuse.  intact is a
   history: the path named a valid file when it was validated. *)

ProbeStart(optional) ==
  /\ inspection = NoProbe
  /\ \/ optional
     \/ names.marker
  /\ inspection' = IF optional /\ ~Present
                THEN IF names.marker THEN NoProbe
                     ELSE [step |-> "ready", intact |-> TRUE, optional |-> optional]
                ELSE [step |-> "open", marker |-> names.marker, optional |-> optional]
  /\ UNCHANGED <<names, disk, up, writer, inodes, acked, kept, unsynced>>

ProbeOpen ==
  /\ inspection.step = "open"
  /\ inspection' = IF Present
                THEN [step |-> "read", marker |-> inspection.marker, optional |-> inspection.optional,
                      ino |-> names.file.ino]
                ELSE NoProbe
  /\ UNCHANGED <<names, disk, up, writer, inodes, acked, kept, unsynced>>

(* The descriptor is read: after a rename or a removal it still shows the old file, whose
   contents were valid unless the path still names it and it is damaged. *)
ProbeRead ==
  LET named == Present /\ names.file.ino = inspection.ino IN
  /\ inspection.step = "read"
  /\ inspection' = IF named /\ ~names.file.valid THEN NoProbe
              ELSE [step |-> "again", marker |-> inspection.marker, optional |-> inspection.optional,
                    ino |-> inspection.ino, intact |-> named]
  /\ UNCHANGED <<names, disk, up, writer, inodes, acked, kept, unsynced>>

(* A bug: the name must exist, not name the same file. *)
StillNamedAny == Present

StillNamed == Present /\ names.file.ino = inspection.ino

ProbeAgain ==
  /\ inspection.step = "again"
  /\ inspection' = IF StillNamed /\ names.marker = inspection.marker
                THEN [step |-> "ready", intact |-> inspection.intact, optional |-> inspection.optional]
                ELSE NoProbe
  /\ UNCHANGED <<names, disk, up, writer, inodes, acked, kept, unsynced>>

ProbeAnswered ==
  /\ inspection.step = "ready"
  /\ inspection' = NoProbe
  /\ UNCHANGED <<names, disk, up, writer, inodes, acked, kept, unsynced>>

-----------------------------------------------------------------------------
FileNext ==
  \/ MarkInitialized \/ MarkSync \/ Replace \/ Sync \/ WriteFails
  \/ EnsureCreates \/ EnsureExisting
  \/ \E m \in AudioModes, k \in CommandKeys : UpdateControl(m, k) \/ ReplayControl(m, k)
  \/ Stop \/ PowerLoss \/ FileLost \/ FileDamaged
  \/ \E optional \in BOOLEAN : ProbeStart(optional)
  \/ ProbeOpen \/ ProbeRead \/ ProbeAgain \/ ProbeAnswered

FileSpec == FileInit /\ [][FileNext]_fileVars

-----------------------------------------------------------------------------
(* Once the store has confirmed that the authority exists, no start takes its loss for a
   first start, whatever the power or the operator does to the file. *)
NeverReset == kept /\ ~Present => ~FirstStart

(* What a client was told is what the store serves: a power loss between any two system
   calls takes back no acknowledged command, and a readable file is never older.  The retry
   of a command counts too, except one whose first attempt failed after the rename, at the
   directory sync: ReplayControl answers it without another sync. *)
AckedIsKept == Readable => names.file.c.version >= acked

(* Readiness vouches only for a file that was valid under its name at some moment of the
   inspection, though the store replaces it without asking. *)
ReadyWasIntact == inspection.step = "ready" => inspection.intact

(* What the control authority promises (control_store.py, state_safety.py): a loss is never taken for a first
   start, an acknowledged command survives the power, and readiness is not guessed. *)
AuthorityPromise == NeverReset /\ AckedIsKept /\ ReadyWasIntact
=============================================================================
