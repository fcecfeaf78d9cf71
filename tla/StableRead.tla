-------------------------------- MODULE StableRead --------------------------------
(***************************************************************************)
(* How secrets, standby images, evidence files and authority files are read:  *)
(* the path is inspected, opened, read in chunks and inspected again, so that *)
(* a file which somebody replaces or rewrites meanwhile is not taken for a    *)
(* whole one.  A reader is the record of the comparisons it makes.           *)
(*                                                                         *)
(* A file is two chunks.  A write stamps the inode with the clock's tick      *)
(* (st_mtime_ns and st_ctime_ns), so two writes of a tick leave one stamp.    *)
(***************************************************************************)
EXTENDS Integers, FiniteSets

CONSTANTS
  Readers,       \* the readers that are checked
  Inodes,        \* inode numbers; a free one is used again
  MaxClock,      \* bound: ticks
  MaxWrites      \* bound: writes by others

ASSUME StableReadAssumption == Inodes # {} /\ {MaxClock, MaxWrites} \subseteq Nat

VARIABLES
  named,      \* the inode the path names, or 0
  inodeTable,     \* contents and stamp of every inode
  fsClock,      \* the tick of the file system's clock
  writes,     \* how often others have written
  reading,    \* the reader
  held,       \* history: what the path has held since the reader began
  rewritten,  \* history: a file was written in place since the reader began
  blurred     \* history: an inode was written twice in one tick

stableVars == <<named, inodeTable, fsClock, writes, reading, held, rewritten, blurred>>

Chunk == {"old", "new"}
Whole(c) == <<c, c>>
NoInode == 0

StableInit ==
  /\ named \in Inodes \cup {NoInode}
  /\ inodeTable = [i \in Inodes |-> [content |-> Whole("old"), stamp |-> 0]]
  /\ fsClock = 0 /\ writes = 0
  /\ \E r \in Readers : reading = [by |-> r, step |-> "inspect"]
  /\ held = IF named = NoInode THEN {} ELSE {Whole("old")}
  /\ rewritten = FALSE /\ blurred = FALSE

-----------------------------------------------------------------------------
(* The readers.  "inode" compares st_dev and st_ino, "signature" the size and the two
   times as well.  opened: the open file against the first inspection; linked: the path
   again after the open; unchanged: the open file after the read; still: the path after it. *)
Comparisons(opened, linked, unchanged, still) ==
  [opened |-> opened, linked |-> linked, unchanged |-> unchanged, still |-> still]

NodeSecret == Comparisons("signature", "none", "signature", "signature")
EgressSecret == Comparisons("signature", "none", "signature", "signature")
AdminToken == Comparisons("signature", "none", "signature", "signature")
VerifiedPeer == Comparisons("signature", "none", "signature", "none")
ContinuitySecret == Comparisons("none", "none", "none", "none")
StandbySnapshot == Comparisons("none", "inode", "signature", "inode")
AssetChecksum == Comparisons("none", "inode", "signature", "inode")
RestartBaseline == Comparisons("signature", "none", "signature", "signature")
MediaMetrics == Comparisons("signature", "none", "signature", "signature")
SoakReport == Comparisons("signature", "none", "signature", "signature")
SoakSamples == Comparisons("inode", "none", "signature", "signature")
ScenarioResult == Comparisons("inode", "none", "signature", "signature")
CoverageManifest == Comparisons("inode", "none", "signature", "signature")
HostPreflight == Comparisons("inode", "none", "signature", "signature")
HostProvenance == Comparisons("inode", "none", "signature", "signature")
ReviewBundle == Comparisons("inode", "none", "signature", "signature")
PlannedReport == Comparisons("inode", "none", "signature", "signature")
LoadPlan == Comparisons("inode", "none", "signature", "signature")
SessionsProposal == Comparisons("inode", "none", "signature", "signature")
CapacityTrials == Comparisons("inode", "none", "signature", "signature")
ManualReports == Comparisons("inode", "none", "signature", "inode")
CompatibilityMatrix == Comparisons("inode", "none", "signature", "inode")
AcceptanceChecklist == Comparisons("inode", "none", "signature", "inode")
RestoredAuthority == Comparisons("inode", "none", "none", "inode")
CapacityAuthority == Comparisons("inode", "none", "none", "none")
HeartbeatAuthority == Comparisons("inode", "none", "none", "none")
RetentionAuthority == Comparisons("inode", "none", "none", "none")
CapacityReport == Comparisons("inode", "none", "none", "none")

AllReaders ==
  {NodeSecret, EgressSecret, AdminToken, VerifiedPeer, ContinuitySecret, StandbySnapshot, AssetChecksum,
   RestartBaseline, MediaMetrics, SoakReport, SoakSamples, ScenarioResult, CoverageManifest, HostPreflight,
   HostProvenance, ReviewBundle, PlannedReport, LoadPlan, SessionsProposal, CapacityTrials, ManualReports,
   CompatibilityMatrix, AcceptanceChecklist, RestoredAuthority, CapacityAuthority, HeartbeatAuthority,
   RetentionAuthority, CapacityReport}

ASSUME ReadersAssumption == Readers \subseteq AllReaders

-----------------------------------------------------------------------------
(* One read *)

Signature(i) == [inode |-> i, stamp |-> inodeTable[i].stamp]

(* A bug: what has the same inode is the same file. *)
SameInode(how, was, is) == how # "none" => was.inode = is.inode

Same(how, was, is) ==
  CASE how = "none" -> TRUE
    [] how = "inode" -> was.inode = is.inode
    [] how = "signature" -> was = is

Refuse == reading' = [by |-> reading.by, step |-> "refused"]

(* stat or lstat of the path *)
Inspect ==
  /\ reading.step = "inspect"
  /\ IF named = NoInode THEN Refuse
     ELSE reading' = [by |-> reading.by, step |-> "open", inspected |-> Signature(named)]
  /\ UNCHANGED <<named, inodeTable, fsClock, writes, held, rewritten, blurred>>

(* open *)
Open ==
  /\ reading.step = "open"
  /\ IF named = NoInode THEN Refuse
     ELSE reading' = [by |-> reading.by, step |-> "fstat", inspected |-> reading.inspected, fd |-> named]
  /\ UNCHANGED <<named, inodeTable, fsClock, writes, held, rewritten, blurred>>

(* The first fstat, and the lstat that some make after it. *)
Fstat ==
  /\ reading.step = "fstat"
  /\ IF ~Same(reading.by.opened, reading.inspected, Signature(reading.fd)) THEN Refuse
     ELSE reading' = [by |-> reading.by, step |-> "link", opened |-> Signature(reading.fd), fd |-> reading.fd]
  /\ UNCHANGED <<named, inodeTable, fsClock, writes, held, rewritten, blurred>>

Relink ==
  /\ reading.step = "link"
  /\ IF reading.by.linked # "none" /\ (named = NoInode \/ ~Same("inode", reading.opened, Signature(named))) THEN Refuse
     ELSE reading' = [by |-> reading.by, step |-> "chunk", opened |-> reading.opened, fd |-> reading.fd, got |-> <<>>]
  /\ UNCHANGED <<named, inodeTable, fsClock, writes, held, rewritten, blurred>>

ReadChunk ==
  /\ reading.step = "chunk"
  /\ LET next == Cardinality(DOMAIN reading.got) + 1
         got == IF next = 1 THEN <<inodeTable[reading.fd].content[1]>>
                ELSE <<reading.got[1], inodeTable[reading.fd].content[2]>> IN
     reading' = [reading EXCEPT !.got = got, !.step = IF next = 2 THEN "after" ELSE "chunk"]
  /\ UNCHANGED <<named, inodeTable, fsClock, writes, held, rewritten, blurred>>

(* The second fstat *)
AfterRead ==
  /\ reading.step = "after"
  /\ IF ~Same(reading.by.unchanged, reading.opened, Signature(reading.fd)) THEN Refuse
     ELSE reading' = [reading EXCEPT !.step = "path"]
  /\ UNCHANGED <<named, inodeTable, fsClock, writes, held, rewritten, blurred>>

(* The path after the read; the descriptor is closed. *)
AfterPath ==
  /\ reading.step = "path"
  /\ IF reading.by.still # "none" /\ (named = NoInode \/ ~Same(reading.by.still, reading.opened, Signature(named)))
     THEN Refuse
     ELSE reading' = [by |-> reading.by, step |-> "done", got |-> reading.got]
  /\ UNCHANGED <<named, inodeTable, fsClock, writes, held, rewritten, blurred>>

(* A refused read is tried again: until a deadline, or in the next round of its caller. *)
ReadAgain ==
  /\ reading.step = "refused"
  /\ reading' = [by |-> reading.by, step |-> "inspect"]
  /\ held' = IF named = NoInode THEN {} ELSE {inodeTable[named].content}
  /\ rewritten' = FALSE
  /\ UNCHANGED <<named, inodeTable, fsClock, writes, blurred>>

-----------------------------------------------------------------------------
(* Everybody else *)

Used == {named} \cup (IF "fd" \in DOMAIN reading THEN {reading.fd} ELSE {})

(* A whole file is put in place, as the atomic writers do. *)
PutInPlace(i) ==
  /\ writes < MaxWrites /\ i \in Inodes \ Used
  /\ named' = i
  /\ inodeTable' = [inodeTable EXCEPT ![i] = [content |-> Whole("new"), stamp |-> fsClock]]
  /\ writes' = writes + 1
  /\ held' = held \cup {Whole("new")}
  /\ UNCHANGED <<fsClock, reading, rewritten, blurred>>

(* A chunk of a file is written where it is. *)
WriteInPlace(i, n) ==
  /\ writes < MaxWrites
  /\ inodeTable' = [inodeTable EXCEPT ![i].content[n] = "new", ![i].stamp = fsClock]
  /\ writes' = writes + 1
  /\ held' = IF i = named THEN held \cup {inodeTable'[i].content} ELSE held
  /\ rewritten' = TRUE
  /\ blurred' = (blurred \/ inodeTable[i].stamp = fsClock)
  /\ UNCHANGED <<named, fsClock, reading>>

RemoveFile ==
  /\ named # NoInode /\ writes < MaxWrites
  /\ named' = NoInode /\ writes' = writes + 1
  /\ UNCHANGED <<inodeTable, fsClock, reading, held, rewritten, blurred>>

ClockTicks ==
  /\ fsClock < MaxClock /\ fsClock' = fsClock + 1
  /\ UNCHANGED <<named, inodeTable, writes, reading, held, rewritten, blurred>>

StableNext ==
  \/ Inspect \/ Open \/ Fstat \/ Relink \/ ReadChunk \/ AfterRead \/ AfterPath \/ ReadAgain
  \/ \E i \in Inodes : PutInPlace(i)
  \/ \E i \in Inodes, n \in 1..2 : WriteInPlace(i, n)
  \/ RemoveFile \/ ClockTicks

StableSpec == StableInit /\ [][StableNext]_stableVars

-----------------------------------------------------------------------------
(* What a reader returns is what the path held, whole, at one instant of the read, whoever
   replaces, removes or rewrites the file meanwhile; only two writes within one tick of the
   file system's clock escape the comparison.  A reader that does not compare the times
   relies on writers that put a whole file in place. *)
ReadIsWhole ==
  reading.step = "done" =>
    \/ reading.got \in held
    \/ blurred
    \/ reading.by.unchanged = "none" /\ rewritten
=============================================================================
