------------------------------- MODULE FileProofs -------------------------------
(***************************************************************************)
(* The control authority on disk and the readers of files that others      *)
(* replace: what they promise, for every number of commands, files, writes *)
(* and ticks.                                                               *)
(***************************************************************************)
EXTENDS AuthorityFile, StableRead, FiniteSetTheorems, TLAPS

ControlType == [version: Nat, mode: AudioModes, key: CommandKeys \cup {"none"}]
FileType == [ino: Nat \ {0}, valid: BOOLEAN, c: ControlType]
DirType == [file: FileType \cup {NoFile}, marker: BOOLEAN]
WriteType == [step: {"mark", "marksync", "replace", "sync"}, c: ControlType]
InspectionType ==
  [step: {"open"}, marker: BOOLEAN, optional: BOOLEAN]
    \cup [step: {"read"}, marker: BOOLEAN, optional: BOOLEAN, ino: Nat \ {0}]
    \cup [step: {"again"}, marker: BOOLEAN, optional: BOOLEAN, ino: Nat \ {0}, intact: BOOLEAN]
    \cup [step: {"ready"}, intact: BOOLEAN, optional: BOOLEAN]

FileTypeOK ==
  /\ names \in DirType /\ disk \in DirType
  /\ writer \in {NoWrite} \cup WriteType
  /\ inodes \in Nat /\ acked \in Nat
  /\ up \in BOOLEAN /\ kept \in BOOLEAN /\ unsynced \in BOOLEAN
  /\ inspection \in {NoProbe} \cup InspectionType

(* The marker is on disk before the file, and stays.  A process that runs has confirmed the
   authority. *)
MarkerInv ==
  /\ up => kept
  /\ kept \/ writer.step \in {"replace", "sync"} => names.marker /\ disk.marker
  /\ writer.step = "marksync" => names.marker

(* Whatever a power loss may show, and whatever is being written, is no older than the
   last answer. *)
Valid(dir) == dir.file # NoFile /\ dir.file.valid

VersionInv ==
  /\ ~kept => acked = 0
  /\ Valid(names) => names.file.c.version >= acked
  /\ Valid(disk) => disk.file.c.version >= acked
  /\ writer # NoWrite => writer.c.version >= acked
  /\ writer.step = "sync" /\ Valid(names) => names.file.c = writer.c

(* A file that is written has a number of its own, so a descriptor that has lost its
   name does not get it back. *)
Numbered(dir, n) == dir.file # NoFile => dir.file.ino <= n

InodeInv ==
  /\ Numbered(names, inodes) /\ Numbered(disk, inodes)
  /\ writer # NoWrite => inodes # 0
  /\ writer.step \in {"mark", "marksync", "replace"} => Numbered(names, inodes - 1)
  /\ inspection.step \in {"read", "again"} =>
       /\ inspection.ino <= inodes
       /\ writer.step \in {"mark", "marksync", "replace"} => inspection.ino < inodes
  /\ inspection.step = "again" /\ ~inspection.intact => names.file.ino # inspection.ino
  /\ inspection.step = "ready" => inspection.intact

(* Without a failed directory sync the path shows a file that is on disk. *)
SyncInv == ~unsynced /\ writer.step # "sync" => disk.file = names.file

FileInv == FileTypeOK /\ MarkerInv /\ VersionInv /\ SyncInv /\ InodeInv

-----------------------------------------------------------------------------
(* The states in which nothing is written and nothing is inspected, and the tag of a
   file that is there. *)
LEMMA FileTags ==
  /\ NoFile \notin FileType /\ NoFile.ino = 0
  /\ NoWrite \notin WriteType /\ NoWrite.step = "none"
  /\ NoProbe \notin InspectionType /\ NoProbe.step = "none"
  /\ DefaultControl \in ControlType /\ DefaultControl.version = 0
  /\ \A c \in ControlType, n \in Nat \ {0} : /\ File(n, c) \in FileType
                                             /\ File(n, c).ino = n /\ File(n, c).c = c
<1>1. NoFile.ino = 0 /\ \A f \in FileType : f.ino # 0
  BY DEF NoFile, FileType
<1>2. NoWrite.step = "none" /\ \A w \in WriteType : w.step # "none"
  BY DEF NoWrite, WriteType
<1>3. NoProbe.step = "none" /\ \A i \in InspectionType : i.step # "none"
  BY DEF NoProbe, InspectionType
<1>4. DefaultControl \in ControlType /\ DefaultControl.version = 0
  BY DEF DefaultControl, Contents, ControlType, AudioModes
<1>5. \A c \in ControlType, n \in Nat \ {0} : /\ File(n, c) \in FileType
                                              /\ File(n, c).ino = n /\ File(n, c).c = c
  BY DEF File, FileType
<1> QED
  BY <1>1, <1>2, <1>3, <1>4, <1>5

LEMMA FileInitInv == FileInit => FileInv
<1> SUFFICES ASSUME FileInit PROVE FileInv
  OBVIOUS
<1>1. PICK f \in {NoFile, File(1, DefaultControl)} : names = [file |-> f, marker |-> FALSE]
  BY DEF FileInit
<1>2. /\ f \in FileType \cup {NoFile} /\ f.ino \in Nat
      /\ f # NoFile => f.c.version = 0
  BY <1>1, FileTags
<1>3. /\ names.file = f /\ ~names.marker /\ disk = names /\ names \in DirType
      /\ writer = NoWrite /\ inspection = NoProbe /\ up = FALSE /\ kept = FALSE /\ acked = 0 /\ inodes = f.ino
      /\ unsynced = FALSE
  BY <1>1, <1>2 DEF FileInit, DirType
<1>4. FileTypeOK
  BY <1>2, <1>3 DEF FileTypeOK
<1>5. MarkerInv /\ VersionInv /\ SyncInv /\ InodeInv
  BY <1>2, <1>3, FileTags DEF MarkerInv, VersionInv, SyncInv, InodeInv, Valid, Numbered
<1> QED
  BY <1>4, <1>5 DEF FileInv

(* A write begins: the file gets the next number. *)
LEMMA BeginWriteStep ==
  ASSUME FileInv, NEW c \in ControlType, writer = NoWrite, BeginWrite(c), c.version >= acked,
         UNCHANGED <<names, disk, up, acked, kept, unsynced, inspection>>
  PROVE  FileInv'
<1>a. FileTypeOK /\ MarkerInv /\ VersionInv /\ SyncInv /\ InodeInv
  BY DEF FileInv
<1>1. writer' \in WriteType /\ writer'.step = "mark" /\ writer'.c = c /\ inodes' = inodes + 1
  BY DEF BeginWrite, WriteType
<1>2. /\ names' = names /\ disk' = disk /\ acked' = acked /\ kept' = kept
      /\ inspection' = inspection /\ up' = up /\ unsynced' = unsynced
  OBVIOUS
<1>3. FileTypeOK'
  BY <1>a, <1>1, <1>2 DEF FileTypeOK
<1>4. MarkerInv' /\ VersionInv' /\ SyncInv'
  BY <1>a, <1>1, <1>2, FileTags DEF MarkerInv, VersionInv, SyncInv, Valid
<1>5. \A dir \in {names, disk} : Numbered(dir, inodes) => Numbered(dir, inodes') /\ Numbered(dir, inodes' - 1)
  BY <1>a, <1>1 DEF Numbered, FileTypeOK, DirType, FileType
<1>6. inspection.step \in {"read", "again"} => inspection.ino \in Nat
  BY <1>a, FileTags DEF FileTypeOK, InspectionType
<1>7. InodeInv'
  BY <1>a, <1>1, <1>2, <1>5, <1>6 DEF InodeInv, FileTypeOK, Numbered
<1> QED
  BY <1>3, <1>4, <1>7 DEF FileInv

LEMMA MarkStep == ASSUME FileInv, MarkInitialized \/ MarkSync PROVE FileInv'
<1>a. FileTypeOK /\ MarkerInv /\ VersionInv /\ SyncInv /\ InodeInv
  BY DEF FileInv
<1>b. writer \in WriteType /\ writer.step \in {"mark", "marksync"} /\ writer # NoWrite
  BY <1>a, FileTags DEF MarkInitialized, MarkSync, WriteAt, FileTypeOK
<1>1. /\ writer' \in WriteType /\ writer'.c = writer.c
      /\ writer'.step = IF writer.step = "mark" THEN "marksync" ELSE "replace"
      /\ inodes' = inodes /\ acked' = acked /\ kept' = kept /\ inspection' = inspection /\ up' = up
      /\ \/ unsynced' = unsynced /\ disk' = disk
         \/ unsynced' = FALSE /\ disk'.file = names.file
  BY <1>b DEF MarkInitialized, MarkSync, WriteAt, WriteType
<1>2. /\ names' \in DirType /\ names'.file = names.file
      /\ disk' \in DirType /\ (disk'.file = disk.file \/ disk'.file = names.file)
  BY <1>a DEF MarkInitialized, MarkSync, FileTypeOK, DirType
<1>3. /\ names'.marker
      /\ disk'.marker \/ (writer.step = "mark" /\ ~kept)
  BY <1>a, <1>b DEF MarkInitialized, MarkSync, FileTypeOK, DirType, MarkerInv, WriteAt
<1>4. writer' # NoWrite
  BY <1>1, FileTags
<1>5. FileTypeOK'
  BY <1>a, <1>1, <1>2 DEF FileTypeOK
<1>6. MarkerInv'
  BY <1>a, <1>b, <1>1, <1>3 DEF MarkerInv
<1>7. VersionInv' /\ SyncInv'
  BY <1>a, <1>b, <1>1, <1>2, <1>4 DEF VersionInv, SyncInv, Valid
<1>8. InodeInv'
  BY <1>a, <1>b, <1>1, <1>2 DEF InodeInv, Numbered
<1> QED
  BY <1>5, <1>6, <1>7, <1>8 DEF FileInv

(* The rename gives the path a file no descriptor has. *)
LEMMA ReplaceStep == ASSUME FileInv, Replace PROVE FileInv'
<1>a. FileTypeOK /\ MarkerInv /\ VersionInv /\ SyncInv /\ InodeInv
  BY DEF FileInv
<1>b. writer \in WriteType /\ writer.step = "replace" /\ writer # NoWrite /\ writer.c \in ControlType
  BY <1>a, FileTags DEF Replace, WriteAt, FileTypeOK, WriteType
<1>1. /\ writer' \in WriteType /\ writer'.c = writer.c /\ writer'.step = "sync" /\ writer' # NoWrite
      /\ inodes' = inodes /\ acked' = acked /\ kept' = kept /\ inspection' = inspection /\ up' = up
      /\ disk' = disk /\ unsynced' = unsynced
  BY <1>b, FileTags DEF Replace, WriteType
<1>2. inodes \in Nat \ {0}
  BY <1>a, <1>b DEF FileTypeOK, InodeInv
<1>3. /\ names' \in DirType /\ names'.marker = names.marker
      /\ names'.file = File(inodes, writer.c) /\ names'.file \in FileType /\ names'.file # NoFile
      /\ names'.file.ino = inodes /\ names'.file.c = writer.c
  BY <1>a, <1>b, <1>2, FileTags DEF Replace, FileTypeOK, DirType
<1>4. FileTypeOK'
  BY <1>a, <1>1, <1>3 DEF FileTypeOK
<1>5. MarkerInv'
  BY <1>a, <1>b, <1>1, <1>3 DEF MarkerInv
<1>6. VersionInv' /\ SyncInv'
  BY <1>a, <1>b, <1>1, <1>3 DEF VersionInv, SyncInv, Valid
<1>7. inspection.step \in {"read", "again"} => inspection.ino \in Nat
  BY <1>a, FileTags DEF FileTypeOK, InspectionType
<1>8. InodeInv'
  BY <1>a, <1>b, <1>1, <1>2, <1>3, <1>7 DEF InodeInv, Numbered
<1> QED
  BY <1>4, <1>5, <1>6, <1>8 DEF FileInv

(* The answer is given after the directory is on disk. *)
LEMMA SyncStep == ASSUME FileInv, Sync PROVE FileInv'
<1>a. FileTypeOK /\ MarkerInv /\ VersionInv /\ SyncInv /\ InodeInv
  BY DEF FileInv
<1>b. writer \in WriteType /\ writer.step = "sync" /\ writer.c.version \in Nat
  BY <1>a, FileTags DEF Sync, WriteAt, FileTypeOK, WriteType, ControlType
<1>1. /\ disk' = names /\ names' = names /\ inodes' = inodes /\ inspection' = inspection
      /\ acked' = writer.c.version /\ kept' = TRUE /\ up' = TRUE /\ unsynced' = FALSE
      /\ writer' = NoWrite /\ writer'.step = "none"
  BY FileTags DEF Sync, Answered
<1>2. FileTypeOK' /\ MarkerInv'
  BY <1>a, <1>b, <1>1 DEF FileTypeOK, MarkerInv
<1>3. VersionInv' /\ SyncInv'
  BY <1>a, <1>b, <1>1 DEF VersionInv, SyncInv, Valid
<1>4. InodeInv'
  BY <1>a, <1>b, <1>1 DEF InodeInv, Numbered
<1> QED
  BY <1>2, <1>3, <1>4 DEF FileInv

LEMMA WriteFailsStep == ASSUME FileInv, WriteFails \/ Stop PROVE FileInv'
<1>a. FileTypeOK /\ MarkerInv /\ VersionInv /\ SyncInv /\ InodeInv
  BY DEF FileInv
<1>1. /\ names' = names /\ disk' = disk /\ inodes' = inodes /\ acked' = acked /\ kept' = kept
      /\ inspection' = inspection /\ up' \in BOOLEAN /\ (up' => up) /\ writer' = NoWrite /\ writer'.step = "none"
      /\ unsynced' \in BOOLEAN /\ (unsynced \/ writer.step = "sync" => unsynced')
  <2>1. up \in BOOLEAN /\ unsynced \in BOOLEAN /\ NoWrite.step = "none" /\ (writer.step = "sync") \in BOOLEAN
    BY <1>a, FileTags DEF FileTypeOK
  <2>2. CASE WriteFails
    BY <2>1, <2>2 DEF WriteFails, WriteAt
  <2>3. CASE Stop
    BY <2>1, <2>3 DEF Stop
  <2> QED
    BY <2>2, <2>3
<1>2. FileTypeOK' /\ MarkerInv'
  BY <1>a, <1>1 DEF FileTypeOK, MarkerInv
<1>3. VersionInv' /\ SyncInv' /\ InodeInv'
  BY <1>a, <1>1 DEF VersionInv, SyncInv, Valid, InodeInv, Numbered
<1> QED
  BY <1>2, <1>3 DEF FileInv

-----------------------------------------------------------------------------
(* An absent file is created only by a store that never answered. *)
LEMMA EnsureCreatesStep == ASSUME FileInv, EnsureCreates PROVE FileInv'
<1>1. ~kept /\ acked = 0
  BY DEF FileInv, MarkerInv, VersionInv, EnsureCreates, FirstStart
<1> QED
  BY <1>1, FileTags, BeginWriteStep DEF EnsureCreates

LEMMA EnsureExistingStep == ASSUME FileInv, EnsureExisting PROVE FileInv'
<1>a. FileTypeOK /\ MarkerInv /\ VersionInv /\ SyncInv /\ InodeInv
  BY DEF FileInv
<1>1. /\ names' \in DirType /\ names'.file = names.file /\ names'.marker /\ disk' = names'
      /\ writer = NoWrite /\ writer' = writer /\ writer.step = "none" /\ inodes' = inodes
      /\ acked' = acked /\ inspection' = inspection /\ up' = TRUE /\ kept' = TRUE
      /\ unsynced' = FALSE
  BY <1>a, FileTags DEF EnsureExisting, FileTypeOK, DirType
<1>2. FileTypeOK' /\ MarkerInv'
  BY <1>a, <1>1 DEF FileTypeOK, MarkerInv
<1>3. VersionInv' /\ SyncInv' /\ InodeInv'
  BY <1>a, <1>1 DEF VersionInv, SyncInv, Valid, InodeInv, Numbered
<1> QED
  BY <1>2, <1>3 DEF FileInv

LEMMA UpdateStep ==
  ASSUME FileInv, NEW m \in AudioModes, NEW k \in CommandKeys, UpdateControl(m, k) PROVE FileInv'
<1> DEFINE c == Contents(names.file.c.version + 1, m, k)
<1>a. FileTypeOK /\ VersionInv
  BY DEF FileInv
<1>1. names.file # NoFile /\ names.file.valid /\ names.file.c.version \in Nat
  BY <1>a DEF UpdateControl, Readable, Present, FileTypeOK, DirType, FileType, ControlType
<1>2. c \in ControlType /\ c.version >= acked
  BY <1>a, <1>1 DEF Contents, ControlType, VersionInv, Valid, FileTypeOK
<1>3. writer = NoWrite /\ BeginWrite(c) /\ UNCHANGED <<names, disk, up, acked, kept, unsynced, inspection>>
  BY DEF UpdateControl
<1> HIDE DEF c
<1> QED
  BY <1>2, <1>3, BeginWriteStep

(* What a retry is told is on disk, or is not counted. *)
LEMMA ReplayStep ==
  ASSUME FileInv, NEW m \in AudioModes, NEW k \in CommandKeys, ReplayControl(m, k) PROVE FileInv'
<1>a. FileTypeOK /\ MarkerInv /\ VersionInv /\ SyncInv /\ InodeInv
  BY DEF FileInv
<1>1. /\ names' = names /\ disk' = disk /\ up' = up /\ writer' = writer /\ inodes' = inodes /\ kept' = kept
      /\ unsynced' = unsynced /\ inspection' = inspection
      /\ writer = NoWrite /\ writer.step = "none" /\ kept
  BY <1>a, FileTags DEF ReplayControl, MarkerInv
<1>2. /\ acked' \in Nat
      /\ acked' = acked \/ (acked' = names.file.c.version /\ disk.file = names.file)
  BY <1>a, <1>1 DEF ReplayControl, Readable, Present, FileTypeOK, DirType, FileType, ControlType, SyncInv
<1>3. FileTypeOK' /\ MarkerInv' /\ SyncInv' /\ InodeInv'
  BY <1>a, <1>1, <1>2 DEF FileTypeOK, MarkerInv, SyncInv, InodeInv, Numbered
<1>4. VersionInv'
  BY <1>a, <1>1, <1>2 DEF VersionInv, Valid
<1> QED
  BY <1>3, <1>4 DEF FileInv

-----------------------------------------------------------------------------
(* A power loss shows any of the two states of the file and of the marker. *)
LEMMA PowerLossStep == ASSUME FileInv, PowerLoss PROVE FileInv'
<1>a. FileTypeOK /\ MarkerInv /\ VersionInv /\ SyncInv /\ InodeInv
  BY DEF FileInv
<1>1. /\ names' \in DirType /\ names'.file \in {names.file, disk.file}
      /\ names'.marker \in {names.marker, disk.marker} /\ disk' = names'
      /\ up' = FALSE /\ writer' = NoWrite /\ writer'.step = "none"
      /\ inspection' = NoProbe /\ inspection'.step = "none"
      /\ inodes' = inodes /\ acked' = acked /\ kept' = kept /\ unsynced' = FALSE
  BY <1>a, FileTags DEF PowerLoss, FileTypeOK, DirType
<1>2. FileTypeOK' /\ MarkerInv'
  BY <1>a, <1>1 DEF FileTypeOK, MarkerInv
<1>3. VersionInv' /\ SyncInv'
  BY <1>a, <1>1 DEF VersionInv, SyncInv, Valid
<1>4. InodeInv'
  BY <1>a, <1>1 DEF InodeInv, Numbered
<1> QED
  BY <1>2, <1>3, <1>4 DEF FileInv

LEMMA FileLostStep == ASSUME FileInv, FileLost PROVE FileInv'
<1>a. FileTypeOK /\ MarkerInv /\ VersionInv /\ SyncInv /\ InodeInv
  BY DEF FileInv
<1>1. /\ names' \in DirType /\ names'.file = NoFile /\ names'.marker = names.marker
      /\ disk' \in DirType /\ disk'.file = NoFile /\ disk'.marker = disk.marker
      /\ writer = NoWrite /\ writer.step = "none"
      /\ up' = up /\ writer' = writer /\ inodes' = inodes /\ acked' = acked /\ kept' = kept
      /\ inspection' = inspection /\ unsynced' = unsynced
  BY <1>a, FileTags DEF FileLost, FileTypeOK, DirType
<1>2. inspection.step \in {"read", "again"} => inspection.ino # 0
  BY <1>a, FileTags DEF FileTypeOK, InspectionType
<1>3. FileTypeOK' /\ MarkerInv' /\ VersionInv' /\ SyncInv'
  BY <1>a, <1>1 DEF FileTypeOK, MarkerInv, VersionInv, SyncInv, Valid
<1>4. InodeInv'
  BY <1>a, <1>1, <1>2, FileTags DEF InodeInv, Numbered
<1> QED
  BY <1>3, <1>4 DEF FileInv

LEMMA FileDamagedStep == ASSUME FileInv, FileDamaged PROVE FileInv'
<1>a. FileTypeOK /\ MarkerInv /\ VersionInv /\ SyncInv /\ InodeInv
  BY DEF FileInv
<1>b. names.file \in FileType
  BY <1>a DEF FileDamaged, Readable, Present, FileTypeOK, DirType
<1>1. /\ names' \in DirType /\ names'.file = [names.file EXCEPT !.valid = FALSE]
      /\ names'.marker = names.marker
  BY <1>a, <1>b DEF FileDamaged, FileTypeOK, DirType, FileType
<1>2. names'.file \in FileType /\ ~names'.file.valid /\ names'.file.ino = names.file.ino
  BY <1>b, <1>1 DEF FileType
<1>3. /\ \/ disk.file = names.file /\ disk' = [disk EXCEPT !.file.valid = FALSE]
         \/ disk.file # names.file /\ disk' = disk
      /\ disk' \in DirType /\ disk'.marker = disk.marker
      /\ disk'.file = names'.file \/ (disk.file # names.file /\ disk'.file = disk.file)
      /\ unsynced' = unsynced
      /\ up' = up /\ writer' = writer /\ inodes' = inodes /\ acked' = acked /\ kept' = kept
      /\ inspection' = inspection
  BY <1>a, <1>b, <1>1 DEF FileDamaged, FileTypeOK, DirType, FileType
<1>4. names'.file # NoFile /\ names.file # NoFile
  BY <1>b, <1>2, FileTags
<1>5. FileTypeOK' /\ MarkerInv'
  BY <1>a, <1>1, <1>3 DEF FileTypeOK, MarkerInv
<1>6. VersionInv' /\ SyncInv'
  BY <1>a, <1>2, <1>3 DEF VersionInv, SyncInv, Valid
<1>7. InodeInv'
  BY <1>a, <1>2, <1>3, <1>4 DEF InodeInv, Numbered
<1> QED
  BY <1>5, <1>6, <1>7 DEF FileInv

-----------------------------------------------------------------------------
(* A descriptor whose name is gone at the read cannot have it again afterwards. *)
LEMMA InspectionStep ==
  ASSUME FileInv, (\E optional \in BOOLEAN : ProbeStart(optional)) \/ ProbeOpen \/ ProbeRead \/ ProbeAgain
                    \/ ProbeAnswered
  PROVE  FileInv'
<1>a. FileTypeOK /\ MarkerInv /\ VersionInv /\ SyncInv /\ InodeInv
  BY DEF FileInv
<1>b. /\ names' = names /\ disk' = disk /\ up' = up /\ writer' = writer /\ inodes' = inodes
      /\ acked' = acked /\ kept' = kept /\ unsynced' = unsynced
  BY DEF ProbeStart, ProbeOpen, ProbeRead, ProbeAgain, ProbeAnswered
<1>c. Present => names.file \in FileType /\ names.file.ino <= inodes /\ names.file.ino \in Nat \ {0}
  BY <1>a DEF Present, FileTypeOK, DirType, InodeInv, Numbered, FileType
<1>d. names.marker \in BOOLEAN
  BY <1>a DEF FileTypeOK, DirType
<1>e. writer.step \in {"mark", "marksync", "replace"} /\ Present => names.file.ino < inodes
  BY <1>a, <1>c DEF InodeInv, Numbered, Present, FileTypeOK
<1> DEFINE Good(i) ==
      /\ i \in {NoProbe} \cup InspectionType
      /\ i.step \in {"read", "again"} =>
           /\ i.ino <= inodes
           /\ writer.step \in {"mark", "marksync", "replace"} => i.ino < inodes
      /\ i.step = "again" /\ ~i.intact => names.file.ino # i.ino
      /\ i.step = "ready" => i.intact
<1>1. Good(NoProbe)
  BY FileTags
<1>2. ASSUME NEW optional \in BOOLEAN, ProbeStart(optional) PROVE Good(inspection')
  BY <1>1, <1>2, <1>d DEF ProbeStart, InspectionType
<1>3. ASSUME ProbeOpen PROVE Good(inspection')
  <2>1. inspection.marker \in BOOLEAN /\ inspection.optional \in BOOLEAN
    BY <1>3, <1>a, FileTags DEF ProbeOpen, FileTypeOK, InspectionType
  <2> QED
    BY <1>1, <1>3, <1>c, <1>e, <2>1 DEF ProbeOpen, InspectionType
<1>4. ASSUME ProbeRead PROVE Good(inspection')
  <2>1. /\ inspection.marker \in BOOLEAN /\ inspection.optional \in BOOLEAN /\ inspection.ino \in Nat \ {0}
        /\ inspection.step = "read"
    BY <1>4, <1>a, FileTags DEF ProbeRead, FileTypeOK, InspectionType
  <2>2. ~Present => names.file.ino = 0
    BY FileTags DEF Present
  <2>3. (Present /\ names.file.ino = inspection.ino) \in BOOLEAN
    OBVIOUS
  <2> QED
    BY <1>1, <1>4, <1>a, <2>1, <2>2, <2>3 DEF ProbeRead, InspectionType, InodeInv
<1>5. ASSUME ProbeAgain PROVE Good(inspection')
  <2>1. /\ inspection.marker \in BOOLEAN /\ inspection.optional \in BOOLEAN /\ inspection.intact \in BOOLEAN
        /\ inspection.step = "again"
    BY <1>5, <1>a, FileTags DEF ProbeAgain, FileTypeOK, InspectionType
  <2> QED
    BY <1>1, <1>5, <1>a, <2>1 DEF ProbeAgain, InspectionType, InodeInv, StillNamed
<1>6. ASSUME ProbeAnswered PROVE Good(inspection')
  BY <1>1, <1>6 DEF ProbeAnswered
<1>7. Good(inspection')
  BY <1>2, <1>3, <1>4, <1>5, <1>6
<1>8. FileTypeOK' /\ MarkerInv' /\ VersionInv' /\ SyncInv'
  BY <1>a, <1>b, <1>7 DEF FileTypeOK, MarkerInv, VersionInv, SyncInv, Valid
<1>9. InodeInv'
  BY <1>a, <1>b, <1>7 DEF InodeInv, Numbered
<1> QED
  BY <1>8, <1>9 DEF FileInv

LEMMA FileInvStep == FileInv /\ [FileNext]_fileVars => FileInv'
<1> SUFFICES ASSUME FileInv, [FileNext]_fileVars PROVE FileInv'
  OBVIOUS
<1>1. CASE UNCHANGED fileVars
  BY <1>1 DEF fileVars, FileInv, FileTypeOK, MarkerInv, VersionInv, SyncInv, Valid, InodeInv, Numbered
<1> QED
  BY <1>1, MarkStep, ReplaceStep, SyncStep, WriteFailsStep, EnsureCreatesStep, EnsureExistingStep, UpdateStep,
     ReplayStep, PowerLossStep, FileLostStep, FileDamagedStep, InspectionStep DEF FileNext

(* Wherever the power fails between the system calls of a write, no acknowledged command
   is lost (the retry of one whose directory sync failed aside), no lost file is taken for
   a first start, and readiness vouches only for a file that was there. *)
THEOREM AuthorityFileHolds == FileSpec => []AuthorityPromise
<1>1. FileInit => FileInv
  BY FileInitInv
<1>2. FileInv /\ [FileNext]_fileVars => FileInv'
  BY FileInvStep
<1>3. FileInv => AuthorityPromise
  BY DEF FileInv, MarkerInv, VersionInv, InodeInv, AuthorityPromise, NeverReset, FirstStart, AckedIsKept,
         Readable, Present, Valid, ReadyWasIntact
<1> QED
  BY <1>1, <1>2, <1>3, PTL DEF FileSpec

-----------------------------------------------------------------------------
(***************************************************************************)
(* Readers.                                                                *)
(***************************************************************************)
Bytes == [1 .. 2 -> Chunk]
InodeType == [content: Bytes, stamp: Nat]
SignatureType == [inode: Inodes, stamp: Nat]
Opened == Inodes \ {NoInode}

ReadingType ==
  [by: Readers, step: {"inspect", "refused"}]
    \cup [by: Readers, step: {"open"}, inspected: SignatureType]
    \cup [by: Readers, step: {"fstat"}, inspected: SignatureType, fd: Opened]
    \cup [by: Readers, step: {"link"}, opened: SignatureType, fd: Opened]
    \cup [by: Readers, step: {"chunk"}, opened: SignatureType, fd: Opened,
          got: {<<>>} \cup {<<c>> : c \in Chunk}]
    \cup [by: Readers, step: {"after", "path"}, opened: SignatureType, fd: Opened, got: Bytes]
    \cup [by: Readers, step: {"done"}, got: Bytes]

StableTypeOK ==
  /\ named \in Inodes \cup {NoInode}
  /\ inodeTable \in [Inodes -> InodeType]
  /\ fsClock \in Nat
  /\ \A i \in Inodes : inodeTable[i].stamp <= fsClock
  /\ rewritten \in BOOLEAN /\ blurred \in BOOLEAN
  /\ reading \in ReadingType

HeldInv == named # NoInode => inodeTable[named].content \in held

(* An inode that still has the stamp of an inspection has contents which the path held,
   unless it was written twice in the tick. *)
Unwritten(sig) == ~blurred /\ inodeTable[sig.inode].stamp = sig.stamp

InspectedInv ==
  reading.step \in {"open", "fstat"} =>
    LET sig == reading.inspected IN
    /\ sig.stamp <= inodeTable[sig.inode].stamp
    /\ Unwritten(sig) => inodeTable[sig.inode].content \in held

(* The same for the open file, from the first fstat on. *)
OpenedInv ==
  reading.step \in {"link", "chunk", "after", "path"} =>
    LET sig == reading.opened IN
    /\ sig.inode = reading.fd
    /\ sig.stamp <= inodeTable[sig.inode].stamp
    /\ reading.by.opened = "signature" /\ Unwritten(sig) => inodeTable[sig.inode].content \in held

(* Without a write in place the open file is what the path held when it was opened. *)
FdInv ==
  reading.step \in {"fstat", "link", "chunk", "after", "path"} /\ ~rewritten =>
    inodeTable[reading.fd].content \in held

(* What has been read. *)
GotInv ==
  /\ reading.step = "chunk" /\ reading.got # <<>> /\ (~rewritten \/ Unwritten(reading.opened)) =>
       reading.got[1] = inodeTable[reading.fd].content[1]
  /\ reading.step = "after" /\ (~rewritten \/ Unwritten(reading.opened)) =>
       reading.got = inodeTable[reading.fd].content
  /\ reading.step = "path" =>
       /\ ~rewritten => reading.got \in held
       /\ /\ ~blurred /\ reading.by.unchanged = "signature"
          /\ reading.by.opened = "signature" \/ named = reading.fd
          => reading.got \in held

StableInv == StableTypeOK /\ HeldInv /\ InspectedInv /\ OpenedInv /\ FdInv /\ GotInv /\ ReadIsWhole

-----------------------------------------------------------------------------
(* Every reader compares the times of the open file before and after, and then the path
   or the first inspection as well; or it compares no times at all. *)
LEMMA SoundReaders ==
  ASSUME NEW r \in Readers
  PROVE  /\ r.unchanged \in {"none", "signature"}
         /\ r.opened \in {"none", "inode", "signature"}
         /\ r.still \in {"none", "inode", "signature"}
         /\ r.unchanged = "signature" /\ r.still = "none" => r.opened = "signature"
<1>1. r \in AllReaders
  BY ReadersAssumption
<1> QED
  BY <1>1 DEF AllReaders, Comparisons, NodeSecret, EgressSecret, AdminToken, VerifiedPeer, ContinuitySecret,
       StandbySnapshot, AssetChecksum, RestartBaseline, MediaMetrics, SoakReport, SoakSamples, ScenarioResult,
       CoverageManifest, HostPreflight, HostProvenance, ReviewBundle, PlannedReport, LoadPlan,
       SessionsProposal, CapacityTrials, ManualReports, CompatibilityMatrix, AcceptanceChecklist,
       RestoredAuthority, CapacityAuthority, HeartbeatAuthority, RetentionAuthority, CapacityReport

(* The fields of a reader at each of its steps. *)
LEMMA ReadingFields ==
  ASSUME StableTypeOK
  PROVE  /\ reading.by \in Readers
         /\ reading.step \in {"inspect", "refused", "open", "fstat", "link", "chunk", "after", "path", "done"}
         /\ reading.step \in {"open", "fstat"} => reading.inspected \in SignatureType
         /\ reading.step \in {"fstat", "link", "chunk", "after", "path"} =>
              reading.fd \in Opened /\ "fd" \in DOMAIN reading
         /\ reading.step \in {"link", "chunk", "after", "path"} => reading.opened \in SignatureType
         /\ reading.step = "chunk" => reading.got \in {<<>>} \cup {<<c>> : c \in Chunk}
         /\ reading.step \in {"after", "path", "done"} => reading.got \in Bytes
  BY DEF StableTypeOK, ReadingType

LEMMA WholeBytes == \A c \in Chunk : Whole(c) \in Bytes
  BY DEF Whole, Bytes

LEMMA SignatureOf ==
  ASSUME StableTypeOK, NEW i \in Inodes
  PROVE  /\ Signature(i) \in SignatureType
         /\ Signature(i).inode = i /\ Signature(i).stamp = inodeTable[i].stamp
         /\ inodeTable[i].content \in Bytes /\ inodeTable[i].stamp \in Nat
  BY DEF StableTypeOK, InodeType, Signature, SignatureType

LEMMA StableInitInv == StableInit => StableInv
<1> SUFFICES ASSUME StableInit PROVE StableInv
  OBVIOUS
<1>1. inodeTable \in [Inodes -> InodeType] /\ \A i \in Inodes : inodeTable[i].stamp <= fsClock
  BY WholeBytes DEF StableInit, InodeType, Chunk
<1>2. reading \in ReadingType /\ reading.step = "inspect"
  BY DEF StableInit, ReadingType
<1>3. StableTypeOK
  BY <1>1, <1>2 DEF StableInit, StableTypeOK
<1>4. HeldInv
  BY DEF StableInit, HeldInv
<1> QED
  BY <1>2, <1>3, <1>4 DEF StableInv, InspectedInv, OpenedInv, FdInv, GotInv, ReadIsWhole

-----------------------------------------------------------------------------
(* A step of the reader. *)
Reads == UNCHANGED <<named, inodeTable, fsClock, writes, held, rewritten, blurred>>

LEMMA RefuseStep == ASSUME StableInv, Reads, Refuse PROVE StableInv'
<1>1. reading' \in ReadingType /\ reading'.step = "refused"
  BY ReadingFields DEF StableInv, Refuse, ReadingType
<1> QED
  BY <1>1 DEF StableInv, Reads, StableTypeOK, HeldInv, InspectedInv, OpenedInv, FdInv, GotInv, ReadIsWhole

LEMMA InspectStep == ASSUME StableInv, Inspect PROVE StableInv'
<1>a. StableTypeOK /\ HeldInv /\ Reads
  BY DEF StableInv, Inspect, Reads
<1>1. CASE Refuse
  BY <1>1, <1>a, RefuseStep
<1>2. CASE named # NoInode /\ reading' = [by |-> reading.by, step |-> "open", inspected |-> Signature(named)]
  <2>1. named \in Inodes
    BY <1>2, <1>a DEF StableTypeOK
  <2>2. reading' \in ReadingType /\ reading'.step = "open" /\ reading'.inspected = Signature(named)
    BY <1>2, <2>1, <1>a, SignatureOf, ReadingFields DEF ReadingType
  <2>3. StableTypeOK' /\ HeldInv'
    BY <1>a, <2>2 DEF Reads, StableTypeOK, HeldInv
  <2>4. InspectedInv'
    BY <1>2, <1>a, <2>1, <2>2, SignatureOf DEF InspectedInv, Reads, HeldInv
  <2> QED
    BY <2>2, <2>3, <2>4 DEF StableInv, OpenedInv, FdInv, GotInv, ReadIsWhole
<1> QED
  BY <1>1, <1>2 DEF Inspect

LEMMA OpenStep == ASSUME StableInv, Open PROVE StableInv'
<1>a. StableTypeOK /\ HeldInv /\ Reads /\ reading.step = "open"
  BY DEF StableInv, Open, Reads
<1>1. CASE Refuse
  BY <1>1, <1>a, RefuseStep
<1>2. CASE /\ named # NoInode
           /\ reading' = [by |-> reading.by, step |-> "fstat", inspected |-> reading.inspected, fd |-> named]
  <2>1. named \in Opened
    BY <1>2, <1>a DEF StableTypeOK, Opened
  <2>2. /\ reading' \in ReadingType /\ reading'.step = "fstat" /\ reading'.inspected = reading.inspected
        /\ reading'.fd = named
    BY <1>2, <2>1, <1>a, ReadingFields DEF ReadingType
  <2>3. StableTypeOK' /\ HeldInv'
    BY <1>a, <2>2 DEF Reads, StableTypeOK, HeldInv
  <2>4. InspectedInv'
    BY <1>a, <2>2 DEF StableInv, InspectedInv, Reads, Unwritten
  <2>5. FdInv'
    BY <1>2, <1>a, <2>2 DEF FdInv, HeldInv, Reads
  <2> QED
    BY <2>2, <2>3, <2>4, <2>5 DEF StableInv, OpenedInv, GotInv, ReadIsWhole
<1> QED
  BY <1>1, <1>2 DEF Open

(* A reader that compares the inspection with the open file takes over what is known of
   the inspected one. *)
LEMMA FstatStep == ASSUME StableInv, Fstat PROVE StableInv'
<1>a. StableTypeOK /\ HeldInv /\ Reads /\ reading.step = "fstat"
  BY DEF StableInv, Fstat, Reads
<1>b. reading.fd \in Inodes /\ reading.fd \in Opened /\ reading.by \in Readers
  BY <1>a, ReadingFields DEF Opened
<1>1. CASE Refuse
  BY <1>1, <1>a, RefuseStep
<1>2. CASE /\ Same(reading.by.opened, reading.inspected, Signature(reading.fd))
           /\ reading' = [by |-> reading.by, step |-> "link", opened |-> Signature(reading.fd), fd |-> reading.fd]
  <2>2. /\ reading' \in ReadingType /\ reading'.step = "link" /\ reading'.opened = Signature(reading.fd)
        /\ reading'.fd = reading.fd /\ reading'.by = reading.by
    BY <1>2, <1>a, <1>b, SignatureOf DEF ReadingType
  <2>3. StableTypeOK' /\ HeldInv'
    BY <1>a, <2>2 DEF Reads, StableTypeOK, HeldInv
  <2>4. /\ Signature(reading.fd).inode = reading.fd
        /\ Signature(reading.fd).stamp = inodeTable[reading.fd].stamp
        /\ inodeTable[reading.fd].stamp \in Nat
    BY <1>a, <1>b, SignatureOf
  <2>5. reading.by.opened = "signature" => reading.inspected = Signature(reading.fd)
    BY <1>2 DEF Same
  <2>6. reading.by.opened = "signature" /\ ~blurred => inodeTable[reading.fd].content \in held
    BY <1>a, <2>4, <2>5 DEF StableInv, InspectedInv, Unwritten
  <2>7. OpenedInv'
    BY <1>a, <2>2, <2>4, <2>6 DEF OpenedInv, Unwritten, Reads
  <2>8. FdInv'
    BY <1>a, <2>2 DEF StableInv, FdInv, Reads
  <2> QED
    BY <2>2, <2>3, <2>7, <2>8 DEF StableInv, InspectedInv, GotInv, ReadIsWhole
<1> QED
  BY <1>1, <1>2 DEF Fstat

LEMMA RelinkStep == ASSUME StableInv, Relink PROVE StableInv'
<1>a. StableTypeOK /\ HeldInv /\ Reads /\ reading.step = "link"
  BY DEF StableInv, Relink, Reads
<1>1. CASE Refuse
  BY <1>1, <1>a, RefuseStep
<1>2. CASE reading' = [by |-> reading.by, step |-> "chunk", opened |-> reading.opened, fd |-> reading.fd, got |-> <<>>]
  <2>2. /\ reading' \in ReadingType /\ reading'.step = "chunk" /\ reading'.opened = reading.opened
        /\ reading'.fd = reading.fd /\ reading'.by = reading.by /\ reading'.got = <<>>
    BY <1>2, <1>a, ReadingFields DEF ReadingType
  <2>3. StableTypeOK' /\ HeldInv'
    BY <1>a, <2>2 DEF Reads, StableTypeOK, HeldInv
  <2>7. OpenedInv' /\ FdInv'
    BY <1>a, <2>2 DEF StableInv, OpenedInv, FdInv, Unwritten, Reads
  <2> QED
    BY <2>2, <2>3, <2>7 DEF StableInv, InspectedInv, GotInv, ReadIsWhole
<1> QED
  BY <1>1, <1>2 DEF Relink

(* One of the two chunks. *)
LEMMA ReadChunkStep == ASSUME StableInv, ReadChunk PROVE StableInv'
<1> DEFINE content == inodeTable[reading.fd].content
<1>a. StableTypeOK /\ HeldInv /\ Reads /\ reading.step = "chunk"
  BY DEF StableInv, ReadChunk, Reads
<1>b. reading.fd \in Inodes /\ reading.got \in {<<>>} \cup {<<c>> : c \in Chunk}
  BY <1>a, ReadingFields DEF Opened
<1>c. content \in Bytes
  BY <1>a, <1>b, SignatureOf
<1>d. content[1] \in Chunk /\ content[2] \in Chunk /\ content = <<content[1], content[2]>>
  BY <1>c DEF Bytes
<1> DEFINE next == Cardinality(DOMAIN reading.got) + 1
           gets == IF next = 1 THEN <<content[1]>> ELSE <<reading.got[1], content[2]>>
           goes == IF next = 2 THEN "after" ELSE "chunk"
<1>e. reading' = [reading EXCEPT !.got = gets, !.step = goes]
  BY DEF ReadChunk
<1>1. CASE reading.got = <<>>
  <2>1. Cardinality(DOMAIN reading.got) = 0
    BY <1>1, FS_EmptySet
  <2>2. reading' = [reading EXCEPT !.got = <<content[1]>>, !.step = "chunk"]
    <3>1. gets = <<content[1]>> /\ goes = "chunk"
      BY <2>1
    <3> HIDE DEF gets, goes, content
    <3> QED
      BY <3>1, <1>e
  <2>3. /\ reading' \in ReadingType /\ reading'.step = "chunk" /\ reading'.opened = reading.opened
        /\ reading'.fd = reading.fd /\ reading'.by = reading.by /\ reading'.got = <<content[1]>>
    BY <2>2, <1>a, <1>d DEF StableTypeOK, ReadingType
  <2>4. StableTypeOK' /\ HeldInv'
    BY <1>a, <2>3 DEF Reads, StableTypeOK, HeldInv
  <2>5. OpenedInv' /\ FdInv'
    BY <1>a, <2>3 DEF StableInv, OpenedInv, FdInv, Unwritten, Reads
  <2>6. GotInv'
    BY <1>a, <2>3 DEF GotInv, Reads
  <2> QED
    BY <2>3, <2>4, <2>5, <2>6 DEF StableInv, InspectedInv, ReadIsWhole
<1>2. CASE reading.got # <<>>
  <2>0. PICK c \in Chunk : reading.got = <<c>>
    BY <1>2, <1>b
  <2>1. Cardinality(DOMAIN reading.got) = 1
    <3>1. DOMAIN reading.got = {1}
      BY <2>0
    <3> QED
      BY <3>1, FS_Singleton
  <2>2. reading' = [reading EXCEPT !.got = <<c, content[2]>>, !.step = "after"]
    <3>1. reading.got[1] = c
      BY <2>0
    <3>2. gets = <<c, content[2]>> /\ goes = "after"
      BY <2>1, <3>1
    <3> HIDE DEF gets, goes, content
    <3> QED
      BY <3>2, <1>e
  <2>3. <<c, content[2]>> \in Bytes
    BY <1>d DEF Bytes
  <2>4. /\ reading' \in ReadingType /\ reading'.step = "after" /\ reading'.opened = reading.opened
        /\ reading'.fd = reading.fd /\ reading'.by = reading.by /\ reading'.got = <<c, content[2]>>
    BY <2>2, <2>3, <1>a DEF StableTypeOK, ReadingType
  <2>5. StableTypeOK' /\ HeldInv'
    BY <1>a, <2>4 DEF Reads, StableTypeOK, HeldInv
  <2>6. OpenedInv' /\ FdInv'
    BY <1>a, <2>4 DEF StableInv, OpenedInv, FdInv, Unwritten, Reads
  <2>7. (~rewritten \/ Unwritten(reading.opened)) => c = content[1]
    BY <1>a, <1>2, <2>0 DEF StableInv, GotInv
  <2>8. GotInv'
    BY <1>a, <1>d, <2>4, <2>7 DEF GotInv, Reads, Unwritten
  <2> QED
    BY <2>4, <2>5, <2>6, <2>8 DEF StableInv, InspectedInv, ReadIsWhole
<1> QED
  BY <1>1, <1>2

(* A reader that finds the stamp unchanged has read one state of the file. *)
LEMMA AfterReadStep == ASSUME StableInv, AfterRead PROVE StableInv'
<1>a. StableTypeOK /\ HeldInv /\ Reads /\ reading.step = "after"
  BY DEF StableInv, AfterRead, Reads
<1>b. reading.fd \in Inodes /\ reading.fd \in Opened /\ reading.by \in Readers
  BY <1>a, ReadingFields DEF Opened
<1>1. CASE Refuse
  BY <1>1, <1>a, RefuseStep
<1>2. CASE /\ Same(reading.by.unchanged, reading.opened, Signature(reading.fd))
           /\ reading' = [reading EXCEPT !.step = "path"]
  <2>1. /\ reading' \in ReadingType /\ reading'.step = "path" /\ reading'.opened = reading.opened
        /\ reading'.fd = reading.fd /\ reading'.by = reading.by /\ reading'.got = reading.got
    BY <1>2, <1>a DEF StableTypeOK, ReadingType
  <2>2. StableTypeOK' /\ HeldInv'
    BY <1>a, <2>1 DEF Reads, StableTypeOK, HeldInv
  <2>3. OpenedInv' /\ FdInv'
    BY <1>a, <2>1 DEF StableInv, OpenedInv, FdInv, Unwritten, Reads
  <2>4. ~rewritten => reading.got \in held
    BY <1>a DEF StableInv, GotInv, FdInv
  <2>5. ASSUME ~blurred, reading.by.unchanged = "signature",
               reading.by.opened = "signature" \/ named = reading.fd
        PROVE  reading.got \in held
    <3>1. reading.opened = Signature(reading.fd)
      BY <1>2, <2>5 DEF Same
    <3>2. Unwritten(reading.opened) /\ reading.opened.inode = reading.fd
      BY <3>1, <2>5, <1>a, <1>b, SignatureOf DEF Unwritten
    <3>3. reading.got = inodeTable[reading.fd].content
      BY <1>a, <3>2 DEF StableInv, GotInv
    <3>4. inodeTable[reading.fd].content \in held
      BY <1>a, <1>b, <2>5, <3>2 DEF StableInv, OpenedInv, HeldInv, Opened
    <3> QED
      BY <3>3, <3>4
  <2>6. GotInv'
    BY <1>a, <2>1, <2>4, <2>5 DEF GotInv, Reads
  <2> QED
    BY <2>1, <2>2, <2>3, <2>6 DEF StableInv, InspectedInv, ReadIsWhole
<1> QED
  BY <1>1, <1>2 DEF AfterRead

LEMMA AfterPathStep == ASSUME StableInv, AfterPath PROVE StableInv'
<1>a. StableTypeOK /\ HeldInv /\ Reads /\ reading.step = "path"
  BY DEF StableInv, AfterPath, Reads
<1>b. reading.by \in Readers
  BY <1>a, ReadingFields
<1>1. CASE Refuse
  BY <1>1, <1>a, RefuseStep
<1>2. CASE /\ ~(reading.by.still # "none" /\ (named = NoInode \/ ~Same(reading.by.still, reading.opened, Signature(named))))
           /\ reading' = [by |-> reading.by, step |-> "done", got |-> reading.got]
  <2>1. reading' \in ReadingType /\ reading'.step = "done" /\ reading'.by = reading.by /\ reading'.got = reading.got
    BY <1>2, <1>a, <1>b, ReadingFields DEF ReadingType
  <2>2. StableTypeOK' /\ HeldInv'
    BY <1>a, <2>1 DEF Reads, StableTypeOK, HeldInv
  <2>3. reading.by.still # "none" => named = reading.fd
    <3>1. ASSUME reading.by.still # "none" PROVE named = reading.fd
      <4>1. named \in Inodes /\ Same(reading.by.still, reading.opened, Signature(named))
        BY <1>2, <1>a, <3>1 DEF StableTypeOK
      <4>2. reading.opened.inode = named
        BY <4>1, <3>1, <1>a, <1>b, SoundReaders, SignatureOf DEF Same
      <4> QED
        BY <4>2, <1>a DEF StableInv, OpenedInv
    <3> QED
      BY <3>1
  <2>4. ReadIsWhole'
    BY <1>a, <1>b, <2>1, <2>3, SoundReaders DEF StableInv, GotInv, ReadIsWhole, Reads
  <2> QED
    BY <2>1, <2>2, <2>4 DEF StableInv, InspectedInv, OpenedInv, FdInv, GotInv
<1> QED
  BY <1>1, <1>2 DEF AfterPath

LEMMA ReadAgainStep == ASSUME StableInv, ReadAgain PROVE StableInv'
<1>1. /\ reading' \in ReadingType /\ reading'.step = "inspect"
      /\ named' = named /\ inodeTable' = inodeTable /\ fsClock' = fsClock /\ blurred' = blurred
      /\ rewritten' = FALSE /\ (named # NoInode => inodeTable[named].content \in held')
  BY ReadingFields DEF StableInv, ReadAgain, ReadingType
<1>2. StableTypeOK' /\ HeldInv'
  BY <1>1 DEF StableInv, StableTypeOK, HeldInv
<1> QED
  BY <1>1, <1>2 DEF StableInv, InspectedInv, OpenedInv, FdInv, GotInv, ReadIsWhole

-----------------------------------------------------------------------------
(* A file that is put in place takes an inode that neither the path nor the reader has. *)
LEMMA PutInPlaceStep == ASSUME StableInv, NEW i \in Inodes, PutInPlace(i) PROVE StableInv'
<1>a. StableTypeOK /\ reading' = reading /\ rewritten' = rewritten /\ blurred' = blurred /\ fsClock' = fsClock
  BY DEF StableInv, PutInPlace
<1>b. named' = i /\ held' = held \cup {Whole("new")} /\ i # named
  BY DEF PutInPlace, Used
<1>c. /\ inodeTable' \in [Inodes -> InodeType]
      /\ inodeTable'[i].content = Whole("new") /\ inodeTable'[i].stamp = fsClock
      /\ \A j \in Inodes : j # i => inodeTable'[j] = inodeTable[j]
  BY <1>a, WholeBytes DEF PutInPlace, StableTypeOK, InodeType, Chunk
<1>d. reading.step \in {"fstat", "link", "chunk", "after", "path"} => reading.fd # i /\ reading.fd \in Inodes
  BY <1>a, ReadingFields DEF PutInPlace, Used, Opened
<1>1. StableTypeOK' /\ HeldInv'
  BY <1>a, <1>b, <1>c DEF StableTypeOK, HeldInv
<1>2. InspectedInv'
  <2> SUFFICES ASSUME reading.step \in {"open", "fstat"}
               PROVE  LET sig == reading.inspected IN
                      /\ sig.stamp <= inodeTable'[sig.inode].stamp
                      /\ Unwritten(sig)' => inodeTable'[sig.inode].content \in held'
    BY <1>a DEF InspectedInv, Unwritten
  <2>1. /\ reading.inspected.inode \in Inodes /\ reading.inspected.stamp \in Nat
        /\ inodeTable[reading.inspected.inode].stamp \in Nat
    BY <1>a, ReadingFields DEF SignatureType, StableTypeOK, InodeType
  <2>2. reading.inspected.stamp <= inodeTable[reading.inspected.inode].stamp
    BY DEF StableInv, InspectedInv
  <2>3. CASE reading.inspected.inode = i
    BY <1>a, <1>b, <1>c, <2>1, <2>2, <2>3 DEF StableTypeOK
  <2>4. CASE reading.inspected.inode # i
    BY <1>a, <1>b, <1>c, <2>1, <2>2, <2>4 DEF StableInv, InspectedInv, Unwritten
  <2> QED
    BY <2>3, <2>4
<1>3. OpenedInv'
  BY <1>a, <1>b, <1>c, <1>d DEF StableInv, OpenedInv, Unwritten
<1>4. FdInv'
  BY <1>a, <1>b, <1>c, <1>d DEF StableInv, FdInv
<1>5. reading.step \in {"chunk", "after"} => Unwritten(reading.opened)' = Unwritten(reading.opened)
  BY <1>a, <1>c, <1>d DEF StableInv, OpenedInv, Unwritten
<1>6. GotInv'
  <2>1. reading.step \in {"chunk", "after"} => inodeTable'[reading.fd] = inodeTable[reading.fd]
    BY <1>c, <1>d
  <2>2. reading.step = "path" => named' # reading.fd
    BY <1>b, <1>d
  <2>3. held \subseteq held'
    BY <1>b
  <2> QED
    BY <1>a, <1>5, <2>1, <2>2, <2>3 DEF StableInv, GotInv, Unwritten
<1>7. ReadIsWhole'
  BY <1>a, <1>b DEF StableInv, ReadIsWhole
<1> QED
  BY <1>1, <1>2, <1>3, <1>4, <1>6, <1>7 DEF StableInv

(* A write in place moves the stamp, or is the second one in its tick. *)
LEMMA WriteInPlaceStep ==
  ASSUME StableInv, NEW i \in Inodes, NEW n \in 1 .. 2, WriteInPlace(i, n) PROVE StableInv'
<1>a. /\ StableTypeOK /\ reading' = reading /\ named' = named /\ fsClock' = fsClock /\ rewritten' = TRUE
      /\ blurred' = (blurred \/ inodeTable[i].stamp = fsClock)
  BY DEF StableInv, WriteInPlace
<1>b. held \subseteq held' /\ (i = named => inodeTable'[i].content \in held')
  <2>1. held' = IF i = named THEN held \cup {inodeTable'[i].content} ELSE held
    BY DEF WriteInPlace
  <2> QED
    BY <2>1
<1>d. ~blurred' => ~blurred /\ inodeTable[i].stamp # fsClock
  BY <1>a
<1>c. /\ inodeTable' \in [Inodes -> InodeType] /\ inodeTable'[i].stamp = fsClock
      /\ \A j \in Inodes : j # i => inodeTable'[j] = inodeTable[j]
  <2>1. inodeTable[i] \in InodeType
    BY <1>a DEF StableTypeOK
  <2>2. [inodeTable[i].content EXCEPT ![n] = "new"] \in Bytes
    BY <2>1 DEF InodeType, Bytes, Chunk
  <2> DEFINE x == [inodeTable[i].content EXCEPT ![n] = "new"]
             z == [inodeTable[i] EXCEPT !.content = x, !.stamp = fsClock]
  <2>3. inodeTable' = [inodeTable EXCEPT ![i] = z]
    <3>1. inodeTable' = [inodeTable EXCEPT ![i] = [inodeTable[i] EXCEPT !.content[n] = "new", !.stamp = fsClock]]
      BY DEF WriteInPlace
    <3>2. [inodeTable[i] EXCEPT !.content[n] = "new", !.stamp = fsClock] = z
      OBVIOUS
    <3> QED
      BY <3>1, <3>2
  <2> HIDE DEF x
  <2>4. z \in InodeType /\ z.stamp = fsClock
    BY <1>a, <2>1, <2>2 DEF InodeType, StableTypeOK, x
  <2> HIDE DEF z
  <2> QED
    BY <1>a, <2>3, <2>4 DEF StableTypeOK
<1>1. StableTypeOK' /\ HeldInv'
  BY <1>a, <1>b, <1>c DEF StableInv, StableTypeOK, HeldInv
<1>2. ASSUME NEW sig \in SignatureType, sig.stamp <= inodeTable[sig.inode].stamp
      PROVE  /\ sig.stamp <= inodeTable'[sig.inode].stamp
             /\ Unwritten(sig)' => Unwritten(sig) /\ inodeTable'[sig.inode] = inodeTable[sig.inode]
  <2>1. sig.inode \in Inodes /\ sig.stamp \in Nat /\ inodeTable[sig.inode].stamp \in Nat
          /\ inodeTable[sig.inode].stamp <= fsClock /\ fsClock \in Nat
    BY <1>a DEF SignatureType, StableTypeOK, InodeType
  <2>2. CASE sig.inode = i
    BY <1>2, <1>d, <1>c, <2>1, <2>2 DEF Unwritten
  <2>3. CASE sig.inode # i
    BY <1>2, <1>a, <1>c, <2>1, <2>3 DEF Unwritten
  <2> QED
    BY <2>2, <2>3
<1>3. InspectedInv'
  <2> SUFFICES ASSUME reading.step \in {"open", "fstat"}
               PROVE  LET sig == reading.inspected IN
                      /\ sig.stamp <= inodeTable'[sig.inode].stamp
                      /\ Unwritten(sig)' => inodeTable'[sig.inode].content \in held'
    BY <1>a DEF InspectedInv, Unwritten
  <2>1. reading.inspected \in SignatureType
    BY <1>a, ReadingFields
  <2> QED
    BY <1>2, <1>a, <1>b, <2>1 DEF StableInv, InspectedInv, Unwritten
<1>4. reading.step \in {"link", "chunk", "after", "path"} =>
        /\ reading.opened.stamp <= inodeTable'[reading.opened.inode].stamp
        /\ reading.opened.inode = reading.fd
        /\ Unwritten(reading.opened)' => /\ Unwritten(reading.opened)
                                         /\ inodeTable'[reading.fd] = inodeTable[reading.fd]
  <2>1. reading.step \in {"link", "chunk", "after", "path"} => reading.opened \in SignatureType
    BY <1>a, ReadingFields
  <2> QED
    BY <1>2, <1>a, <2>1 DEF StableInv, OpenedInv, Unwritten
<1>5. OpenedInv'
  BY <1>a, <1>b, <1>4 DEF StableInv, OpenedInv, Unwritten
<1>6. FdInv'
  BY <1>a DEF FdInv
<1>7. GotInv'
  BY <1>a, <1>b, <1>4 DEF StableInv, GotInv, Unwritten
<1>8. ReadIsWhole'
  BY <1>a, <1>b DEF StableInv, ReadIsWhole
<1> QED
  BY <1>1, <1>3, <1>5, <1>6, <1>7, <1>8 DEF StableInv

LEMMA RemoveStep == ASSUME StableInv, RemoveFile \/ ClockTicks PROVE StableInv'
<1>1. /\ named' \in {named, NoInode} /\ fsClock' \in {fsClock, fsClock + 1}
      /\ UNCHANGED <<inodeTable, reading, held, rewritten, blurred>>
  BY DEF RemoveFile, ClockTicks
<1>2. StableTypeOK' /\ HeldInv'
  <2>1. \A i \in Inodes : inodeTable[i].stamp \in Nat
    BY DEF StableInv, StableTypeOK, InodeType
  <2> QED
    BY <1>1, <2>1 DEF StableInv, StableTypeOK, HeldInv
<1>3. InspectedInv' /\ OpenedInv' /\ FdInv' /\ ReadIsWhole'
  BY <1>1 DEF StableInv, InspectedInv, OpenedInv, FdInv, ReadIsWhole, Unwritten
<1>4. reading.step = "path" => reading.fd # NoInode
  BY ReadingFields DEF StableInv, Opened
<1>5. GotInv'
  BY <1>1, <1>4 DEF StableInv, GotInv, Unwritten
<1> QED
  BY <1>2, <1>3, <1>5 DEF StableInv

LEMMA StableInvStep == StableInv /\ [StableNext]_stableVars => StableInv'
<1> SUFFICES ASSUME StableInv, [StableNext]_stableVars PROVE StableInv'
  OBVIOUS
<1>1. CASE UNCHANGED stableVars
  BY <1>1 DEF stableVars, StableInv, StableTypeOK, HeldInv, InspectedInv, OpenedInv, FdInv, GotInv,
              ReadIsWhole, Unwritten
<1> QED
  BY <1>1, InspectStep, OpenStep, FstatStep, RelinkStep, ReadChunkStep, AfterReadStep, AfterPathStep,
     ReadAgainStep, PutInPlaceStep, WriteInPlaceStep, RemoveStep DEF StableNext

(* Whatever others replace, remove or rewrite while it reads, each of the repository's
   readers returns one state of the file, up to the resolution of the clock. *)
THEOREM ReadersHold == StableSpec => []ReadIsWhole
<1>1. StableInit => StableInv
  BY StableInitInv
<1>2. StableInv /\ [StableNext]_stableVars => StableInv'
  BY StableInvStep
<1>3. StableInv => ReadIsWhole
  BY DEF StableInv
<1> QED
  BY <1>1, <1>2, <1>3, PTL DEF StableSpec
=============================================================================
