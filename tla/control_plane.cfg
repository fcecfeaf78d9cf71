\* Two of everything that competes; a record of two bytes in a stream of four.
SPECIFICATION Spec
CONSTANTS
  Keys = {"a", "b"}
  Retention = 2
  PageLimits = {1, 3}
  MaxSeq = 4
  CommandKeys = {"a", "b"}
  MaxVersion = 2
  MaxInode = 4
  Urls = {"rtmp1", "srt1"}
  SrtUrls = {"srt1"}
  Owner = "o"
  Others = {"p"}
  Refs = {"r"}
  Peers = {"i"}
  Verifiers = {1, 2}
  MaxProbes = 2
  MaxDests = 2
  AssetUsers = {"o", "p"}
  AssetIds = {1, 2}
  ProbeTimeout = 2
  CleanupTime = 2
  TermGrace = 1
  ResolverCleanup = 1
  Readers <- AllReaders
  Inodes = {1, 2}
  MaxClock = 2
  MaxWrites = 3
  MaxRecord = 2
  MaxStream = 4
  AlertNodes = {"m", "n"}
  Grace = 1
  MaxAlertClock = 2
\* Probes, readers and evaluators end.
CHECK_DEADLOCK FALSE
INVARIANTS
  AuthorityPromise
  DestinationPromise
  ProbePromise
  ReadIsWhole
  AlertPromise
PROPERTIES
  EventLogPromise
  AssetPromise
