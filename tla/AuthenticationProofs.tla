---------------------------- MODULE AuthenticationProofs ----------------------------
(***************************************************************************)
(* Proofs about what checks a secret: the limiter of login attempts and the *)
(* key its processes count under (AuthRateLimit), accounts and their login  *)
(* sessions (AccountAuth), the credentials and relay readers of a Node      *)
(* (IngestAuthProxy), and the guard against guessing (IngestAuthGuard).     *)
(* They hold for every number of requests, addresses, processes and keys,   *)
(* and every limit and window.                                              *)
(***************************************************************************)
EXTENDS AuthRateLimit, AccountAuth, IngestAuthProxy, IngestAuthGuard, FiniteSetTheorems, TLAPS

(***************************************************************************)
(* AuthRateLimit.  Two limits in a stretch that is shorter than a window by *)
(* the longest wait follow from what the window of a pair knows of the      *)
(* attempts of the last n ticks: all since it began are in its count, and   *)
(* earlier ones are at most a limit.  A pair with no entry is as one whose  *)
(* windows are over and full: the purge that dropped them may have had a    *)
(* later clock than the next attempt.                                       *)
(***************************************************************************)
Reset(k, w) == IF k \in DOMAIN shard THEN shard[k][w].reset ELSE 0
Count(k, w) == IF k \in DOMAIN shard THEN shard[k][w].count ELSE LimitOf[w]

(* The ticks between the beginnings of two windows, at least. *)
Apart(w) == LengthOf[w] - MaxWait

WindowOK(t, c, a, w) ==
  /\ t \in 0 .. LengthOf[w] + MaxWait /\ c \in 0 .. LimitOf[w]
  /\ \A n \in 0 .. Apart(w) - 1 : a[n] <= c + LimitOf[w] /\ (n < LengthOf[w] - t => a[n] <= c)

Counts == [0 .. Longest - 1 -> Nat]
WindowType == [reset : Nat, count : Nat]

TableInv ==
  /\ IsFiniteSet(DOMAIN shard) /\ Cardinality(DOMAIN shard) <= MaxTrackedKeys
  /\ \A k \in DOMAIN shard : shard[k] \in [Windows -> WindowType]

WindowInv ==
  /\ admitted \in [Pairs -> Counts]
  /\ \A k \in Pairs, w \in Windows : WindowOK(Reset(k, w), Count(k, w), admitted[k], w)

WaitInv ==
  /\ wait \in [Pairs -> {NotWaiting} \cup [told : {TRUE}, until : Nat]]
  /\ \A k \in Pairs, w \in Windows :
       wait[k].told /\ Count(k, w) >= LimitOf[w] => Reset(k, w) <= wait[k].until

RateInv == TableInv /\ WindowInv /\ WaitInv

LEMMA WindowSizes ==
  /\ Longest \in Nat \ {0} /\ MaxWait \in Nat
  /\ \A w \in Windows : /\ LengthOf[w] \in Nat \ {0} /\ LengthOf[w] <= Longest
                        /\ LimitOf[w] \in Nat \ {0}
                        /\ Apart(w) \in 1 .. LengthOf[w] /\ Apart(w) = LengthOf[w] - MaxWait
<1>1. BurstWindow \in Nat \ {0} /\ SustainedWindow \in Nat \ {0}  BY RateAssumption
<1>2. \E m \in {BurstWindow, SustainedWindow} : \A y \in {BurstWindow, SustainedWindow} : m >= y
  <2>1. CASE BurstWindow >= SustainedWindow  BY <1>1, <2>1
  <2>2. CASE ~(BurstWindow >= SustainedWindow)  BY <1>1, <2>2
  <2> QED  BY <2>1, <2>2
<1>3. /\ Longest \in {BurstWindow, SustainedWindow}
      /\ \A y \in {BurstWindow, SustainedWindow} : Longest >= y
  BY <1>2 DEF Longest, Max
<1>4. /\ MaxWait \in Nat
      /\ \A w \in Windows : LengthOf[w] \in Nat \ {0} /\ LengthOf[w] <= Longest
                            /\ LimitOf[w] \in Nat \ {0} /\ MaxWait < LengthOf[w]
  BY <1>1, <1>3, RateAssumption DEF Windows, LengthOf, LimitOf
<1> QED  BY <1>1, <1>3, <1>4 DEF Apart

LEMMA WindowTicks ==
  ASSUME NEW w \in Windows, NEW n \in 0 .. Apart(w) - 1
  PROVE  n \in Nat /\ n \in 0 .. Longest - 1 /\ n < LengthOf[w]
  BY WindowSizes

(* What an attempt does to a window it begins, to one it is counted in, and what the purge
   and a tick do. *)
LEMMA WindowBegins ==
  ASSUME NEW w \in Windows, NEW t, NEW c, NEW a \in Counts, WindowOK(t, c, a, w),
         NEW now \in Clocks, t <= now
  PROVE  WindowOK(now + LengthOf[w], 0, a, w)
<1>1. now \in 0 .. MaxWait  BY DEF Clocks
<1>2. \A n \in 0 .. Apart(w) - 1 : a[n] \in Nat  BY WindowTicks DEF Counts
<1>3. ASSUME NEW n \in 0 .. Apart(w) - 1 PROVE a[n] <= LimitOf[w]
  <2>1. n < LengthOf[w] - t  BY <1>1, WindowSizes DEF WindowOK
  <2> QED  BY <1>2, <2>1, WindowSizes DEF WindowOK
<1>4. now + LengthOf[w] \in 0 .. LengthOf[w] + MaxWait  BY <1>1, WindowSizes
<1>5. ASSUME NEW n \in 0 .. Apart(w) - 1 PROVE ~(n < LengthOf[w] - (now + LengthOf[w]))
  BY <1>1, WindowSizes
<1> QED  BY <1>2, <1>3, <1>4, <1>5, WindowSizes DEF WindowOK

LEMMA WindowCounts ==
  ASSUME NEW w \in Windows, NEW t, NEW c, NEW a \in Counts, WindowOK(t, c, a, w), c < LimitOf[w]
  PROVE  WindowOK(t, c + 1, [n \in 0 .. Longest - 1 |-> a[n] + 1], w)
<1> DEFINE b == [n \in 0 .. Longest - 1 |-> a[n] + 1]
<1>1. ASSUME NEW n \in 0 .. Apart(w) - 1 PROVE b[n] = a[n] + 1 /\ a[n] \in Nat
  BY WindowTicks DEF Counts
<1>2. LengthOf[w] \in Nat \ {0} /\ LimitOf[w] \in Nat \ {0}  BY WindowSizes
<1> HIDE DEF b
<1>3. WindowOK(t, c + 1, b, w)  BY <1>1, <1>2 DEF WindowOK
<1> QED  BY <1>3 DEF b

LEMMA WindowForgets ==
  ASSUME NEW w \in Windows, NEW t, NEW c, NEW a \in Counts, WindowOK(t, c, a, w),
         NEW now \in Clocks, t <= now
  PROVE  WindowOK(0, LimitOf[w], a, w)
<1>1. now \in 0 .. MaxWait  BY DEF Clocks
<1>2. \A n \in 0 .. Apart(w) - 1 : a[n] \in Nat  BY WindowTicks DEF Counts
<1>3. ASSUME NEW n \in 0 .. Apart(w) - 1 PROVE a[n] <= LimitOf[w]
  <2>1. n < LengthOf[w] - t  BY <1>1, WindowSizes DEF WindowOK
  <2> QED  BY <1>2, <2>1, WindowSizes DEF WindowOK
<1> QED  BY <1>2, <1>3, WindowSizes DEF WindowOK

LEMMA WindowAges ==
  ASSUME NEW w \in Windows, NEW t, NEW c, NEW a \in Counts, WindowOK(t, c, a, w)
  PROVE  WindowOK(Earlier(t), c, [n \in 0 .. Longest - 1 |-> IF n = 0 THEN 0 ELSE a[n - 1]], w)
<1> DEFINE b == [n \in 0 .. Longest - 1 |-> IF n = 0 THEN 0 ELSE a[n - 1]]
<1>1. /\ b[0] = 0
      /\ \A n \in 1 .. Apart(w) - 1 : b[n] = a[n - 1]
      /\ \A n \in 0 .. Apart(w) - 1 : a[n] \in Nat
  <2>1. b[0] = 0  BY WindowSizes
  <2>2. ASSUME NEW n \in 1 .. Apart(w) - 1 PROVE b[n] = a[n - 1]
    <3>1. n \in 0 .. Apart(w) - 1 /\ n # 0  BY WindowSizes
    <3>2. n \in 0 .. Longest - 1  BY <3>1, WindowTicks
    <3> QED  BY <3>1, <3>2
  <2>3. ASSUME NEW n \in 0 .. Apart(w) - 1 PROVE a[n] \in Nat  BY WindowTicks DEF Counts
  <2> QED  BY <2>1, <2>2, <2>3
<1>2. LengthOf[w] \in Nat \ {0} /\ LimitOf[w] \in Nat \ {0} /\ MaxWait \in Nat /\ Apart(w) \in 1 .. LengthOf[w]
  BY WindowSizes
<1> HIDE DEF b
<1>3. t \in 0 .. LengthOf[w] + MaxWait /\ c \in 0 .. LimitOf[w]  BY DEF WindowOK
<1>4. Earlier(t) \in 0 .. LengthOf[w] + MaxWait /\ (Earlier(t) = t - 1 \/ (t = 0 /\ Earlier(t) = 0))
  <2>1. CASE t = 0  BY <1>2, <2>1 DEF Earlier
  <2>2. CASE t # 0
    <3> DEFINE e == Earlier(t)
               m == LengthOf[w] + MaxWait
    <3>1. e = t - 1  BY <2>2 DEF Earlier
    <3>2. m \in Nat /\ t \in 0 .. m  BY <1>2, <1>3
    <3> HIDE DEF e, m
    <3>3. e \in 0 .. m /\ e = t - 1  BY <2>2, <3>1, <3>2
    <3> QED  BY <3>3 DEF e, m
  <2> QED  BY <2>1, <2>2
<1>5. ASSUME NEW n \in 0 .. Apart(w) - 1
      PROVE  b[n] <= c + LimitOf[w] /\ (n < LengthOf[w] - Earlier(t) => b[n] <= c)
  <2>1. CASE n = 0  BY <1>1, <1>2, <1>3, <2>1
  <2>2. CASE n # 0
    <3>1. n \in 1 .. Apart(w) - 1 /\ n - 1 \in 0 .. Apart(w) - 1  BY <1>2, <2>2
    <3>2. b[n] = a[n - 1]  BY <1>1, <3>1
    <3>3. a[n - 1] <= c + LimitOf[w] /\ (n - 1 < LengthOf[w] - t => a[n - 1] <= c)
      BY <3>1 DEF WindowOK
    <3>4. n < LengthOf[w] - Earlier(t) => n - 1 < LengthOf[w] - t  BY <1>2, <1>3, <1>4, <3>1
    <3> QED  BY <3>2, <3>3, <3>4
  <2> QED  BY <2>1, <2>2
<1>6. WindowOK(Earlier(t), c, b, w)  BY <1>3, <1>4, <1>5 DEF WindowOK
<1> QED  BY <1>6 DEF b

(* The purge forgets only windows that are over by its clock. *)
LEMMA PurgeKeepsLive ==
  ASSUME TableInv, NEW now \in Clocks
  PROVE  /\ DOMAIN Purged(now) \subseteq DOMAIN shard
         /\ IsFiniteSet(DOMAIN Purged(now)) /\ Cardinality(DOMAIN Purged(now)) <= MaxTrackedKeys
         /\ \A k \in DOMAIN Purged(now) : Purged(now)[k] = shard[k]
         /\ \A k : \A w \in Windows : k \notin DOMAIN Purged(now) => Reset(k, w) <= now
<1>1. /\ DOMAIN Purged(now) \subseteq DOMAIN shard
      /\ \A k \in DOMAIN Purged(now) : Purged(now)[k] = shard[k]
  BY DEF Purged, Restrict
<1>2. IsFiniteSet(DOMAIN Purged(now)) /\ Cardinality(DOMAIN Purged(now)) <= Cardinality(DOMAIN shard)
  BY <1>1, FS_Subset DEF TableInv
<1>3. Cardinality(DOMAIN Purged(now)) \in Nat /\ Cardinality(DOMAIN shard) \in Nat /\ MaxTrackedKeys \in Nat
  BY <1>2, FS_CardinalityType, RateAssumption DEF TableInv
<1>4. ASSUME NEW k, NEW w \in Windows, k \notin DOMAIN Purged(now) PROVE Reset(k, w) <= now
  <2>0. now \in Nat  BY WindowSizes DEF Clocks
  <2>1. CASE k \notin DOMAIN shard  BY <2>0, <2>1 DEF Reset
  <2>2. CASE k \in DOMAIN shard
    <3>1. ~(shard[k][w].reset > now)  BY <1>4, <2>2 DEF Purged, Restrict
    <3>2. shard[k][w].reset \in Nat  BY <2>2 DEF TableInv, WindowType
    <3> QED  BY <2>0, <2>2, <3>1, <3>2 DEF Reset
  <2> QED  BY <2>1, <2>2
<1> QED  BY <1>1, <1>2, <1>3, <1>4 DEF TableInv

(* The windows an attempt sees: the ones of the entry, begun anew when they are over. *)
LEMMA WindowsSeen ==
  ASSUME TableInv, NEW k, NEW now \in Clocks
  PROVE  /\ WindowsOf(k, now) \in [Windows -> WindowType]
         /\ \A w \in Windows :
              /\ WindowsOf(k, now)[w].reset = IF Reset(k, w) <= now THEN now + LengthOf[w] ELSE Reset(k, w)
              /\ WindowsOf(k, now)[w].count = IF Reset(k, w) <= now THEN 0 ELSE Count(k, w)
<1>0. now \in Nat  BY WindowSizes DEF Clocks
<1>1. ASSUME NEW v \in Windows
      PROVE  /\ WindowsOf(k, now)[v] \in WindowType
             /\ WindowsOf(k, now)[v].reset = IF Reset(k, v) <= now THEN now + LengthOf[v] ELSE Reset(k, v)
             /\ WindowsOf(k, now)[v].count = IF Reset(k, v) <= now THEN 0 ELSE Count(k, v)
  <2>1. CASE k \in DOMAIN Purged(now)
    <3>1. k \in DOMAIN shard  BY <2>1, PurgeKeepsLive
    <3>2. shard[k][v] \in WindowType  BY <3>1 DEF TableInv, WindowType
    <3>3. WindowsOf(k, now)[v] = Refreshed(shard[k][v], v, now)  BY <2>1 DEF WindowsOf
    <3>4. Reset(k, v) = shard[k][v].reset /\ Count(k, v) = shard[k][v].count  BY <3>1 DEF Reset, Count
    <3> QED  BY <1>0, <3>2, <3>3, <3>4, WindowSizes DEF Refreshed, WindowType
  <2>2. CASE k \notin DOMAIN Purged(now)
    <3>1. WindowsOf(k, now)[v] = [reset |-> now + LengthOf[v], count |-> 0]
      BY <1>0, <2>2 DEF WindowsOf, Refreshed
    <3>2. Reset(k, v) <= now  BY <2>2, PurgeKeepsLive
    <3> QED  BY <1>0, <3>1, <3>2, WindowSizes DEF WindowType
  <2> QED  BY <2>1, <2>2
<1>2. WindowsOf(k, now) = [v \in Windows |-> WindowsOf(k, now)[v]]  BY DEF WindowsOf
<1> QED  BY <1>1, <1>2

LEMMA ToldType ==
  ASSUME WaitInv, NEW k \in Pairs, wait[k].told
  PROVE  wait[k].until \in Nat
<1>1. CASE wait[k] = NotWaiting
  <2>1. wait[k].told = FALSE  BY <1>1 DEF NotWaiting
  <2> QED  BY <2>1
<1>2. CASE wait[k] \in [told : {TRUE}, until : Nat]  BY <1>2
<1> QED  BY <1>1, <1>2 DEF WaitInv

(* What is left of a pair that somebody else's request has purged, or left alone. *)
Rests(j, now, w) ==
  \/ Reset(j, w)' = Reset(j, w) /\ Count(j, w)' = Count(j, w)
  \/ Reset(j, w) <= now /\ Reset(j, w)' = 0 /\ Count(j, w)' = LimitOf[w]

LEMMA RestKeeps ==
  ASSUME RateInv, NEW j \in Pairs, NEW w \in Windows, NEW now \in Clocks, Rests(j, now, w)
  PROVE  WindowOK(Reset(j, w)', Count(j, w)', admitted[j], w)
<1>1. WindowOK(Reset(j, w), Count(j, w), admitted[j], w) /\ admitted[j] \in Counts
  BY DEF RateInv, WindowInv
<1>2. CASE Reset(j, w)' = Reset(j, w) /\ Count(j, w)' = Count(j, w)  BY <1>1, <1>2
<1>3. CASE Reset(j, w) <= now /\ Reset(j, w)' = 0 /\ Count(j, w)' = LimitOf[w]
  BY <1>1, <1>3, WindowForgets
<1> QED  BY <1>2, <1>3 DEF Rests

LEMMA RestWaits ==
  ASSUME RateInv, NEW j \in Pairs, NEW w \in Windows, NEW now \in Clocks, Rests(j, now, w),
         wait'[j] = wait[j], wait[j].told, Count(j, w)' >= LimitOf[w]
  PROVE  Reset(j, w)' <= wait'[j].until
<1>1. CASE Reset(j, w)' = Reset(j, w) /\ Count(j, w)' = Count(j, w)
  BY <1>1 DEF RateInv, WaitInv
<1>2. CASE Reset(j, w)' = 0
  <2>1. wait[j].until \in Nat  BY ToldType DEF RateInv
  <2> QED  BY <1>2, <2>1
<1> QED  BY <1>1, <1>2 DEF Rests

(* An attempt writes the windows of its pair, and of the others purges what is over. *)
LEMMA AttemptWrites ==
  ASSUME TableInv, NEW k, NEW now \in Clocks, HasRoom(k, now), NEW ws \in [Windows -> WindowType],
         shard' = With(k, ws, now)
  PROVE  /\ TableInv'
         /\ \A w \in Windows : Reset(k, w)' = ws[w].reset /\ Count(k, w)' = ws[w].count
         /\ \A j, w : j # k /\ w \in Windows => Rests(j, now, w)
<1>1. DOMAIN shard' = DOMAIN Purged(now) \cup {k}  BY DEF With
<1>2. IsFiniteSet(DOMAIN shard') /\ Cardinality(DOMAIN shard') <= MaxTrackedKeys
  <2> DEFINE P == DOMAIN Purged(now)
  <2>1. IsFiniteSet(P) /\ Cardinality(P) <= MaxTrackedKeys  BY PurgeKeepsLive
  <2>2. Cardinality(P) \in Nat /\ MaxTrackedKeys \in Nat
    BY <2>1, FS_CardinalityType, RateAssumption
  <2>3. /\ IsFiniteSet(P \cup {k})
        /\ Cardinality(P \cup {k}) = IF k \in P THEN Cardinality(P) ELSE Cardinality(P) + 1
    BY <2>1, FS_AddElement
  <2>4. k \in P \/ Cardinality(P) < MaxTrackedKeys  BY DEF HasRoom
  <2> HIDE DEF P
  <2>5. Cardinality(P \cup {k}) <= MaxTrackedKeys  BY <2>1, <2>2, <2>3, <2>4
  <2> QED  BY <1>1, <2>3, <2>5 DEF P
<1>3. shard'[k] = ws /\ \A j \in DOMAIN Purged(now) : j # k => shard'[j] = shard[j]
  BY DEF With
<1>4. \A j \in DOMAIN shard' : shard'[j] \in [Windows -> WindowType]
  BY <1>1, <1>3, PurgeKeepsLive DEF TableInv
<1>5. ASSUME NEW j, NEW w \in Windows, j # k
      PROVE  Rests(j, now, w)
  <2>1. CASE j \in DOMAIN Purged(now)
    BY <1>1, <1>3, <1>5, <2>1, PurgeKeepsLive DEF Reset, Count, Rests
  <2>2. CASE j \notin DOMAIN Purged(now)
    <3>1. j \notin DOMAIN shard'  BY <1>1, <1>5, <2>2
    <3>2. Reset(j, w) <= now  BY <2>2, PurgeKeepsLive
    <3>3. Reset(j, w)' = 0 /\ Count(j, w)' = LimitOf[w]  BY <3>1 DEF Reset, Count
    <3> QED  BY <3>2, <3>3 DEF Rests
  <2> QED  BY <2>1, <2>2
<1>6. \A w \in Windows : Reset(k, w)' = ws[w].reset /\ Count(k, w)' = ws[w].count
  BY <1>1, <1>3 DEF Reset, Count
<1> QED  BY <1>2, <1>4, <1>5, <1>6 DEF TableInv

(* An empty table knows nothing of attempts, and none are remembered. *)
LEMMA EmptyIsFresh ==
  ASSUME NEW a \in Counts, \A n \in 0 .. Longest - 1 : a[n] = 0, NEW w \in Windows
  PROVE  WindowOK(0, LimitOf[w], a, w)
<1>1. \A n \in 0 .. Apart(w) - 1 : a[n] = 0  BY WindowSizes
<1> QED  BY <1>1, WindowSizes DEF WindowOK

LEMMA RateInitial == ASSUME RateInit PROVE RateInv
<1>1. DOMAIN shard = {}  BY DEF RateInit, EmptyShard
<1>2. TableInv
  <2>1. IsFiniteSet({}) /\ Cardinality({}) = 0  BY FS_EmptySet
  <2> QED  BY <1>1, <2>1, RateAssumption DEF TableInv
<1>3. \A k, w : Reset(k, w) = 0 /\ Count(k, w) = LimitOf[w]  BY <1>1 DEF Reset, Count
<1>4. WindowInv
  <2>1. admitted \in [Pairs -> Counts]  BY DEF RateInit, NoAdmission, Counts
  <2>2. \A k \in Pairs : \A n \in 0 .. Longest - 1 : admitted[k][n] = 0  BY DEF RateInit, NoAdmission
  <2>3. \A k \in Pairs, w \in Windows : WindowOK(0, LimitOf[w], admitted[k], w)
    BY <2>1, <2>2, EmptyIsFresh
  <2> QED  BY <1>3, <2>1, <2>3 DEF WindowInv
<1>5. WaitInv  BY DEF RateInit, WaitInv, NotWaiting
<1> QED  BY <1>2, <1>4, <1>5 DEF RateInv

LEMMA AdmittedStep ==
  ASSUME RateInv, NEW k \in Pairs, NEW now \in Clocks, AttemptAdmitted(k, now)
  PROVE  RateInv'
<1> USE DEF RateInv
<1> DEFINE old == WindowsOf(k, now)
           ws == [w \in Windows |-> [old[w] EXCEPT !.count = @ + 1]]
           a == [n \in 0 .. Longest - 1 |-> admitted[k][n] + 1]
<1>0. old \in [Windows -> WindowType]  BY WindowsSeen
<1>1. ws \in [Windows -> WindowType]
      /\ \A w \in Windows : ws[w].reset = old[w].reset /\ ws[w].count = old[w].count + 1
  <2> HIDE DEF old
  <2>1. ASSUME NEW w \in Windows
        PROVE  /\ ws[w] \in WindowType
               /\ ws[w].reset = old[w].reset /\ ws[w].count = old[w].count + 1
    <3>1. old[w] \in WindowType  BY <1>0
    <3>2. ws[w] = [old[w] EXCEPT !.count = old[w].count + 1]  BY <3>1 DEF WindowType
    <3> QED  BY <3>1, <3>2 DEF WindowType
  <2> QED  BY <2>1
<1>2. HasRoom(k, now) /\ shard' = With(k, ws, now)  BY DEF AttemptAdmitted
<1>3. admitted' = [admitted EXCEPT ![k] = a] /\ wait' = [wait EXCEPT ![k] = NotWaiting]
  BY DEF AttemptAdmitted, WindowInv
<1>4. a \in Counts
  <2>1. \A n \in 0 .. Longest - 1 : admitted[k][n] \in Nat  BY DEF WindowInv, Counts
  <2> QED  BY <2>1 DEF Counts
<1>5. \A w \in Windows : old[w].count < LimitOf[w]
  <2> TAKE w \in Windows
  <2>1. ~(old[w].count >= LimitOf[w])  BY DEF AttemptAdmitted, Exhausted
  <2>2. old[w].count \in Nat /\ LimitOf[w] \in Nat  BY <1>0, WindowSizes DEF WindowType
  <2> HIDE DEF old
  <2> QED  BY <2>1, <2>2
<1>6. \A w \in Windows : WindowOK(old[w].reset, old[w].count + 1, a, w)
  <2> TAKE w \in Windows
  <2>1. WindowOK(Reset(k, w), Count(k, w), admitted[k], w) /\ admitted[k] \in Counts  BY DEF WindowInv
  <2>2. /\ old[w].reset = IF Reset(k, w) <= now THEN now + LengthOf[w] ELSE Reset(k, w)
        /\ old[w].count = IF Reset(k, w) <= now THEN 0 ELSE Count(k, w)
    BY WindowsSeen
  <2> HIDE DEF old
  <2>3. WindowOK(old[w].reset, old[w].count, admitted[k], w)
    <3>1. CASE Reset(k, w) <= now  BY <2>1, <2>2, <3>1, WindowBegins
    <3>2. CASE ~(Reset(k, w) <= now)  BY <2>1, <2>2, <3>2
    <3> QED  BY <3>1, <3>2
  <2> QED  BY <1>5, <2>1, <2>3, WindowCounts
<1> HIDE DEF old, ws, a
<1>7. /\ TableInv'
      /\ \A w \in Windows : Reset(k, w)' = ws[w].reset /\ Count(k, w)' = ws[w].count
      /\ \A j, w : j # k /\ w \in Windows => Rests(j, now, w)
  BY <1>1, <1>2, AttemptWrites
<1>8. WindowInv'
  <2>1. admitted' \in [Pairs -> Counts]  BY <1>3, <1>4 DEF WindowInv
  <2>2. ASSUME NEW j \in Pairs, NEW w \in Windows
        PROVE  WindowOK(Reset(j, w)', Count(j, w)', admitted'[j], w)
    <3>1. CASE j = k  BY <1>1, <1>3, <1>6, <1>7, <3>1 DEF WindowInv
    <3>2. CASE j # k
      <4>1. admitted'[j] = admitted[j]  BY <1>3, <3>2 DEF WindowInv
      <4> QED  BY <1>7, <3>2, <4>1, RestKeeps
    <3> QED  BY <3>1, <3>2
  <2> QED  BY <2>1, <2>2 DEF WindowInv
<1>9. WaitInv'
  <2>1. wait' \in [Pairs -> {NotWaiting} \cup [told : {TRUE}, until : Nat]]  BY <1>3 DEF WaitInv
  <2>2. ASSUME NEW j \in Pairs, NEW w \in Windows, wait'[j].told, Count(j, w)' >= LimitOf[w]
        PROVE  Reset(j, w)' <= wait'[j].until
    <3>1. j # k  BY <1>3, <2>2 DEF WaitInv, NotWaiting
    <3>2. wait'[j] = wait[j] /\ Rests(j, now, w)  BY <1>3, <1>7, <3>1 DEF WaitInv
    <3> QED  BY <2>2, <3>2, RestWaits
  <2> QED  BY <2>1, <2>2 DEF WaitInv
<1> QED  BY <1>7, <1>8, <1>9

LEMMA DeniedStep ==
  ASSUME RateInv, NEW k \in Pairs, NEW now \in Clocks, AttemptDenied(k, now)
  PROVE  RateInv'
<1> USE DEF RateInv
<1> DEFINE ws == WindowsOf(k, now)
           r == MaxWait + RetryAfter(ws, now)
<1>1. /\ ws \in [Windows -> WindowType]
      /\ \A w \in Windows :
           /\ ws[w].reset = IF Reset(k, w) <= now THEN now + LengthOf[w] ELSE Reset(k, w)
           /\ ws[w].count = IF Reset(k, w) <= now THEN 0 ELSE Count(k, w)
  BY WindowsSeen
<1>2. HasRoom(k, now) /\ shard' = With(k, ws, now)  BY DEF AttemptDenied
<1>3. /\ admitted' = admitted
      /\ wait' = [wait EXCEPT ![k] = [told |-> TRUE, until |-> r]]
  BY DEF AttemptDenied
<1>4. r \in Nat /\ \A w \in Exhausted(ws) : ws[w].reset <= r
  <2> DEFINE L == {ws[w].reset : w \in Exhausted(ws)}
             top == Max(L)
  <2>1. Exhausted(ws) # {} /\ Exhausted(ws) \subseteq Windows  BY DEF AttemptDenied, Exhausted
  <2>2. \A w \in Windows : ws[w].reset \in Nat  BY <1>1 DEF WindowType
  <2>3. \E m \in L : \A y \in L : m >= y
    <3> HIDE DEF ws
    <3>1. CASE Exhausted(ws) = Windows
      <4>1. ws["burst"].reset \in Nat /\ ws["sustained"].reset \in Nat  BY <2>2 DEF Windows
      <4>2. L = {ws["burst"].reset, ws["sustained"].reset}  BY <3>1 DEF Windows
      <4> HIDE DEF L
      <4>3. CASE ws["burst"].reset >= ws["sustained"].reset  BY <4>1, <4>2, <4>3
      <4>4. CASE ~(ws["burst"].reset >= ws["sustained"].reset)  BY <4>1, <4>2, <4>4
      <4> QED  BY <4>3, <4>4
    <3>2. CASE Exhausted(ws) # Windows
      <4>1. PICK w \in Windows : Exhausted(ws) = {w}  BY <2>1, <3>2 DEF Windows
      <4>2. L = {ws[w].reset}  BY <4>1
      <4> HIDE DEF L
      <4> QED  BY <2>2, <4>2
    <3> QED  BY <3>1, <3>2
  <2>4. top \in L /\ \A y \in L : top >= y  BY <2>3 DEF Max
  <2>5. r = MaxWait + (top - now)  BY DEF RetryAfter
  <2>6. top \in Nat /\ L \subseteq Nat  BY <2>1, <2>2, <2>4
  <2> HIDE DEF top, r
  <2>7. r \in Nat /\ top <= r  BY <2>5, <2>6, WindowSizes DEF Clocks
  <2>8. ASSUME NEW w \in Exhausted(ws) PROVE ws[w].reset <= r
    <3> DEFINE x == ws[w].reset
    <3>1. x \in L  OBVIOUS
    <3> HIDE DEF L, ws, x
    <3>2. top >= x /\ x \in Nat  BY <2>4, <2>6, <3>1
    <3>3. x <= r  BY <2>6, <2>7, <3>2
    <3> QED  BY <3>3 DEF x
  <2> QED  BY <2>7, <2>8
<1> HIDE DEF ws, r
<1>5. /\ TableInv'
      /\ \A w \in Windows : Reset(k, w)' = ws[w].reset /\ Count(k, w)' = ws[w].count
      /\ \A j, w : j # k /\ w \in Windows => Rests(j, now, w)
  BY <1>1, <1>2, AttemptWrites
<1>6. WindowInv'
  <2>1. ASSUME NEW j \in Pairs, NEW w \in Windows
        PROVE  WindowOK(Reset(j, w)', Count(j, w)', admitted[j], w)
    <3>1. WindowOK(Reset(j, w), Count(j, w), admitted[j], w) /\ admitted[j] \in Counts
      BY DEF WindowInv
    <3>2. CASE j = k
      <4>1. CASE Reset(k, w) <= now
        <5>1. WindowOK(now + LengthOf[w], 0, admitted[k], w)  BY <3>1, <3>2, <4>1, WindowBegins
        <5> QED  BY <1>1, <1>5, <3>2, <4>1, <5>1
      <4>2. CASE ~(Reset(k, w) <= now)  BY <1>1, <1>5, <3>1, <3>2, <4>2
      <4> QED  BY <4>1, <4>2
    <3>3. CASE j # k  BY <1>5, <3>3, RestKeeps
    <3> QED  BY <3>2, <3>3
  <2> QED  BY <1>3, <2>1 DEF WindowInv
<1>7. WaitInv'
  <2>1. wait' \in [Pairs -> {NotWaiting} \cup [told : {TRUE}, until : Nat]]  BY <1>3, <1>4 DEF WaitInv
  <2>2. ASSUME NEW j \in Pairs, NEW w \in Windows, wait'[j].told, Count(j, w)' >= LimitOf[w]
        PROVE  Reset(j, w)' <= wait'[j].until
    <3>1. CASE j = k
      <4>1. w \in Exhausted(ws)  BY <1>5, <2>2, <3>1 DEF Exhausted
      <4>2. wait'[k].until = r  BY <1>3 DEF WaitInv
      <4> QED  BY <1>4, <1>5, <3>1, <4>1, <4>2
    <3>2. CASE j # k
      <4>1. wait'[j] = wait[j] /\ Rests(j, now, w)  BY <1>3, <1>5, <3>2 DEF WaitInv
      <4> QED  BY <2>2, <4>1, RestWaits
    <3> QED  BY <3>1, <3>2
  <2> QED  BY <2>1, <2>2 DEF WaitInv
<1> QED  BY <1>5, <1>6, <1>7

LEMMA FullStep ==
  ASSUME RateInv, NEW k \in Pairs, NEW now \in Clocks, TableFull(k, now)
  PROVE  RateInv'
<1> USE DEF RateInv
<1>1. shard' = Purged(now) /\ admitted' = admitted /\ wait' = [wait EXCEPT ![k] = NotWaiting]
  BY DEF TableFull
<1>2. TableInv'  BY <1>1, PurgeKeepsLive DEF TableInv
<1>3. ASSUME NEW j, NEW w \in Windows
      PROVE  Rests(j, now, w)
  <2>1. CASE j \in DOMAIN Purged(now)  BY <1>1, <2>1, PurgeKeepsLive DEF Reset, Count, Rests
  <2>2. CASE j \notin DOMAIN Purged(now)
    <3>1. Reset(j, w) <= now  BY <2>2, PurgeKeepsLive
    <3>2. Reset(j, w)' = 0 /\ Count(j, w)' = LimitOf[w]  BY <1>1, <2>2 DEF Reset, Count
    <3> QED  BY <3>1, <3>2 DEF Rests
  <2> QED  BY <2>1, <2>2
<1>4. WindowInv'
  <2>1. \A j \in Pairs, w \in Windows : WindowOK(Reset(j, w)', Count(j, w)', admitted[j], w)
    BY <1>3, RestKeeps
  <2> QED  BY <1>1, <2>1 DEF WindowInv
<1>5. WaitInv'
  <2>1. wait' \in [Pairs -> {NotWaiting} \cup [told : {TRUE}, until : Nat]]  BY <1>1 DEF WaitInv
  <2>2. ASSUME NEW j \in Pairs, NEW w \in Windows, wait'[j].told, Count(j, w)' >= LimitOf[w]
        PROVE  Reset(j, w)' <= wait'[j].until
    <3>1. j # k  BY <1>1, <2>2 DEF WaitInv, NotWaiting
    <3>2. wait'[j] = wait[j]  BY <1>1, <3>1 DEF WaitInv
    <3> QED  BY <1>3, <2>2, <3>2, RestWaits
  <2> QED  BY <2>1, <2>2 DEF WaitInv
<1> QED  BY <1>2, <1>4, <1>5

LEMMA DamagedStep == ASSUME RateInv, ShardDamaged PROVE RateInv'
<1>1. DOMAIN shard' = {}  BY DEF ShardDamaged, EmptyShard
<1>2. TableInv'
  <2>1. IsFiniteSet({}) /\ Cardinality({}) = 0  BY FS_EmptySet
  <2> QED  BY <1>1, <2>1, RateAssumption DEF TableInv
<1>3. \A k, w : Reset(k, w)' = 0 /\ Count(k, w)' = LimitOf[w]  BY <1>1 DEF Reset, Count
<1>4. WindowInv'
  <2>1. admitted' \in [Pairs -> Counts]  BY DEF ShardDamaged, NoAdmission, Counts
  <2>2. \A k \in Pairs : \A n \in 0 .. Longest - 1 : admitted'[k][n] = 0  BY DEF ShardDamaged, NoAdmission
  <2>3. \A k \in Pairs, w \in Windows : WindowOK(0, LimitOf[w], admitted'[k], w)
    BY <2>1, <2>2, EmptyIsFresh
  <2> QED  BY <1>3, <2>1, <2>3 DEF WindowInv
<1>5. WaitInv'
  <2>1. wait' = wait  BY DEF ShardDamaged
  <2>2. ASSUME NEW k \in Pairs, NEW w \in Windows, wait[k].told PROVE Reset(k, w)' <= wait[k].until
    <3>1. wait[k].until \in Nat  BY <2>2, ToldType DEF RateInv
    <3> QED  BY <1>3, <3>1
  <2> QED  BY <2>1, <2>2 DEF WaitInv, RateInv
<1> QED  BY <1>2, <1>4, <1>5 DEF RateInv

LEMMA RateTickStep == ASSUME RateInv, RateTick PROVE RateInv'
<1> USE DEF RateInv
<1>1. DOMAIN shard' = DOMAIN shard  BY DEF RateTick
<1>2. ASSUME NEW k \in DOMAIN shard, NEW w \in Windows
      PROVE  /\ shard'[k][w] \in WindowType
             /\ shard'[k][w].reset = Earlier(shard[k][w].reset)
             /\ shard'[k][w].count = shard[k][w].count
  <2>1. shard[k][w] \in WindowType  BY DEF TableInv, WindowType
  <2>2. shard'[k][w] = [shard[k][w] EXCEPT !.reset = Earlier(shard[k][w].reset)]
    BY <2>1 DEF RateTick, WindowType
  <2>3. Earlier(shard[k][w].reset) \in Nat  BY <2>1 DEF Earlier, WindowType
  <2> QED  BY <2>1, <2>2, <2>3 DEF WindowType
<1>3. TableInv'
  <2>1. \A k \in DOMAIN shard : shard'[k] = [w \in Windows |-> shard'[k][w]]  BY DEF RateTick
  <2>2. \A k \in DOMAIN shard : shard'[k] \in [Windows -> WindowType]  BY <1>2, <2>1
  <2> QED  BY <1>1, <2>2 DEF TableInv
<1>4. ASSUME NEW k, NEW w \in Windows
      PROVE  Reset(k, w)' = Earlier(Reset(k, w)) /\ Count(k, w)' = Count(k, w)
  <2>1. CASE k \in DOMAIN shard  BY <1>1, <1>2, <2>1 DEF Reset, Count
  <2>2. CASE k \notin DOMAIN shard  BY <1>1, <2>2 DEF Reset, Count, Earlier
  <2> QED  BY <2>1, <2>2
<1>5. WindowInv'
  <2>1. \A k \in Pairs : admitted'[k] = [n \in 0 .. Longest - 1 |-> IF n = 0 THEN 0 ELSE admitted[k][n - 1]]
    BY DEF RateTick
  <2>2. admitted' \in [Pairs -> Counts]
    <3>1. ASSUME NEW k \in Pairs PROVE admitted'[k] \in Counts
      <4>1. \A n \in 0 .. Longest - 1 : (IF n = 0 THEN 0 ELSE admitted[k][n - 1]) \in Nat
        BY WindowSizes DEF WindowInv, Counts
      <4> QED  BY <2>1, <4>1 DEF Counts
    <3>2. admitted' = [k \in Pairs |-> admitted'[k]]  BY DEF RateTick
    <3> QED  BY <3>1, <3>2
  <2>3. ASSUME NEW k \in Pairs, NEW w \in Windows
        PROVE  WindowOK(Reset(k, w)', Count(k, w)', admitted'[k], w)
    <3>1. WindowOK(Reset(k, w), Count(k, w), admitted[k], w) /\ admitted[k] \in Counts  BY DEF WindowInv
    <3>2. WindowOK(Earlier(Reset(k, w)), Count(k, w),
                   [n \in 0 .. Longest - 1 |-> IF n = 0 THEN 0 ELSE admitted[k][n - 1]], w)
      BY <3>1, WindowAges
    <3> QED  BY <1>4, <2>1, <3>2
  <2> QED  BY <2>2, <2>3 DEF WindowInv
<1>6. WaitInv'
  <2>1. ASSUME NEW k \in Pairs
        PROVE  /\ wait'[k] \in {NotWaiting} \cup [told : {TRUE}, until : Nat]
               /\ wait'[k].told => /\ wait[k].told /\ wait[k].until \in Nat
                                   /\ wait'[k].until = Earlier(wait[k].until)
    <3>1. wait[k] = NotWaiting \/ wait[k] \in [told : {TRUE}, until : Nat]  BY DEF WaitInv
    <3>2. wait'[k] = IF wait[k].told THEN [wait[k] EXCEPT !.until = Earlier(wait[k].until)] ELSE wait[k]
      BY <3>1 DEF RateTick, NotWaiting
    <3>3. CASE wait[k] = NotWaiting  BY <3>2, <3>3 DEF NotWaiting
    <3>4. CASE wait[k] \in [told : {TRUE}, until : Nat]
      <4>1. wait[k].told = TRUE /\ wait[k].until \in Nat  BY <3>4
      <4>2. wait'[k] = [wait[k] EXCEPT !.until = Earlier(wait[k].until)]  BY <3>2, <4>1
      <4>3. Earlier(wait[k].until) \in Nat  BY <4>1 DEF Earlier
      <4> QED  BY <3>4, <4>1, <4>2, <4>3
    <3> QED  BY <3>1, <3>3, <3>4
  <2>2. wait' \in [Pairs -> {NotWaiting} \cup [told : {TRUE}, until : Nat]]
    <3>1. wait' = [k \in Pairs |-> wait'[k]]  BY DEF RateTick
    <3> QED  BY <2>1, <3>1
  <2>3. ASSUME NEW k \in Pairs, NEW w \in Windows, wait'[k].told, Count(k, w)' >= LimitOf[w]
        PROVE  Reset(k, w)' <= wait'[k].until
    <3>1. Reset(k, w) \in Nat  BY WindowSizes DEF WindowInv, WindowOK
    <3>2. wait[k].told /\ wait[k].until \in Nat /\ wait'[k].until = Earlier(wait[k].until)
      BY <2>1, <2>3, Zenon
    <3>3. Count(k, w) >= LimitOf[w]
      <4>1. Count(k, w)' = Count(k, w)  BY <1>4
      <4> QED  BY <2>3, <4>1, Zenon
    <3>4. Reset(k, w) <= wait[k].until  BY <3>2, <3>3, Zenon DEF WaitInv
    <3>5. Reset(k, w)' = Earlier(Reset(k, w))  BY <1>4
    <3> QED  BY <3>1, <3>2, <3>4, <3>5 DEF Earlier
  <2> QED  BY <2>2, <2>3 DEF WaitInv
<1> QED  BY <1>3, <1>5, <1>6

LEMMA RateStep == ASSUME RateInv, [RateNext]_rateVars PROVE RateInv'
<1>1. CASE RateNext  BY <1>1, AdmittedStep, DeniedStep, FullStep, DamagedStep, RateTickStep DEF RateNext
<1>2. CASE UNCHANGED rateVars
  BY <1>2 DEF rateVars, RateInv, TableInv, WindowInv, WaitInv, Reset, Count
<1> QED  BY <1>1, <1>2

LEMMA RateInvImplies == ASSUME RateInv PROVE AttemptsBounded /\ RetryAfterIsEnough
<1>1. AttemptsBounded
  <2>1. ASSUME NEW k \in Pairs, NEW w \in Windows
        PROVE  admitted[k][LengthOf[w] - MaxWait - 1] <= 2 * LimitOf[w]
    <3> DEFINE n == LengthOf[w] - MaxWait - 1
    <3>1. n \in 0 .. Apart(w) - 1 /\ n \in 0 .. Longest - 1 /\ LimitOf[w] \in Nat
      BY WindowSizes
    <3> HIDE DEF n
    <3>2. admitted[k][n] \in Nat  BY <3>1 DEF RateInv, WindowInv, Counts
    <3>3. WindowOK(Reset(k, w), Count(k, w), admitted[k], w)  BY DEF RateInv, WindowInv
    <3>4. admitted[k][n] <= 2 * LimitOf[w]  BY <3>1, <3>2, <3>3 DEF WindowOK
    <3> QED  BY <3>4 DEF n
  <2> QED  BY <2>1 DEF RateInv, TableInv, AttemptsBounded
<1>2. RetryAfterIsEnough
  <2>1. ASSUME NEW k \in Pairs, NEW now \in Clocks, wait[k].told, wait[k].until <= now, NEW w \in Windows
        PROVE  w \notin Exhausted(WindowsOf(k, now))
    <3>1. Reset(k, w) \in Nat /\ Count(k, w) \in Nat /\ LimitOf[w] \in Nat \ {0}
      BY WindowSizes DEF RateInv, WindowInv, WindowOK
    <3>2. wait[k].until \in Nat /\ now \in Nat
      <4>1. wait[k].until \in Nat  BY <2>1, ToldType DEF RateInv
      <4> QED  BY <4>1, WindowSizes DEF Clocks
    <3>3. ~(Reset(k, w) <= now) => ~(Count(k, w) >= LimitOf[w])
      BY <2>1, <3>1, <3>2 DEF RateInv, WaitInv
    <3>4. WindowsOf(k, now)[w].count = IF Reset(k, w) <= now THEN 0 ELSE Count(k, w)
      BY WindowsSeen DEF RateInv
    <3> QED  BY <3>1, <3>3, <3>4 DEF Exhausted
  <2> QED  BY <2>1 DEF RetryAfterIsEnough, Exhausted
<1> QED  BY <1>1, <1>2

(***************************************************************************)
(* The limiter of login attempts, for every limit, window and table size,   *)
(* and every bound on a request's wait that is below the windows: in a      *)
(* stretch that is shorter than a window by that wait a pair is admitted at *)
(* most twice its limit, the table keeps its size, and a client that waited *)
(* as long as Retry-After said finds its windows open, although requests    *)
(* count by clocks they read before they had the lock.                      *)
(***************************************************************************)
THEOREM LimiterHolds == RateSpec => [](AttemptsBounded /\ RetryAfterIsEnough)
<1>1. RateInit => RateInv  BY RateInitial
<1>2. RateInv /\ [RateNext]_rateVars => RateInv'  BY RateStep
<1>3. RateInv => AttemptsBounded /\ RetryAfterIsEnough  BY RateInvImplies
<1> QED  BY <1>1, <1>2, <1>3, PTL DEF RateSpec
-----------------------------------------------------------------------------
(***************************************************************************)
(* The secret the processes count under.  At most one process ever fills    *)
(* the file, and only what it wrote completely is used.                     *)
(***************************************************************************)
LoaderType ==
  [step : {"start", "write", "unavailable"}] \cup [step : {"read"}, tries : Nat]
    \cup [step : {"has"}, key : Seq(RateWorkers)]

SecretInv ==
  /\ secret \in [made : BOOLEAN, by : Seq(RateWorkers)]
  /\ loader \in [RateWorkers -> LoaderType]
  /\ ~secret.made => secret.by = <<>>
  /\ \A p \in RateWorkers :
       /\ loader[p].step = "write" => secret.made /\ (secret.by = <<>> \/ secret.by = <<p>>)
       /\ loader[p].step = "has" => loader[p].key = secret.by /\ Len(secret.by) = 2
  /\ \A p, q \in RateWorkers : loader[p].step = "write" /\ loader[q].step = "write" => p = q

LEMMA SecretStep == ASSUME SecretInv, [SecretNext]_secretVars PROVE SecretInv'
<1> USE DEF SecretInv
<1>1. ASSUME NEW p \in RateWorkers, SecretCreate(p) PROVE SecretInv'
  BY <1>1 DEF SecretCreate, LoaderType
<1>2. ASSUME NEW p \in RateWorkers, SecretExists(p) PROVE SecretInv'
  BY <1>2 DEF SecretExists, LoaderType
<1>3. ASSUME NEW p \in RateWorkers, SecretWrite(p) PROVE SecretInv'
  <2>1. secret.made /\ loader[p].step = "write"  BY <1>3 DEF SecretWrite
  <2>2. secret' = [secret EXCEPT !.by = Append(secret.by, p)]  BY <1>3 DEF SecretWrite
  <2>3. \A q \in RateWorkers : q # p => loader[q].step # "write" /\ loader[q].step # "has"
    BY <2>1
  <2>4. CASE secret.by = <<>>
    <3>1. Append(secret.by, p) = <<p>> /\ <<p>> \in Seq(RateWorkers)  BY <2>4
    <3>2. secret'.by = <<p>> /\ secret'.made /\ secret' \in [made : BOOLEAN, by : Seq(RateWorkers)]
      BY <2>1, <2>2, <3>1
    <3>3. loader' = [loader EXCEPT ![p] = loader[p]]
      <4>1. Len(secret'.by) # 2  BY <3>2
      <4> QED  BY <1>3, <4>1 DEF SecretWrite
    <3>4. loader' = loader  BY <3>3
    <3> QED  BY <2>1, <2>3, <3>2, <3>4
  <2>5. CASE secret.by = <<p>>
    <3>1. Append(secret.by, p) = <<p, p>> /\ <<p, p>> \in Seq(RateWorkers)
      <4>1. Append(<<p>>, p) = [i \in 1 .. 2 |-> p] /\ <<p, p>> = [i \in 1 .. 2 |-> p]  OBVIOUS
      <4>2. <<p, p>> \in Seq(RateWorkers)  OBVIOUS
      <4> QED  BY <2>5, <4>1, <4>2
    <3>2. secret'.by = <<p, p>> /\ secret'.made /\ secret' \in [made : BOOLEAN, by : Seq(RateWorkers)]
      BY <2>1, <2>2, <3>1
    <3> DEFINE l == [step |-> "has", key |-> <<p, p>>]
    <3>3. loader' = [loader EXCEPT ![p] = l]  BY <1>3, <3>2 DEF SecretWrite
    <3>4. l \in LoaderType /\ l.step = "has" /\ l.key = <<p, p>>  BY <3>1 DEF LoaderType
    <3> HIDE DEF l
    <3>5. \A q \in RateWorkers : loader'[q] = IF q = p THEN l ELSE loader[q]  BY <3>3
    <3>6. loader' \in [RateWorkers -> LoaderType]  BY <3>3, <3>4
    <3>7. Len(<<p, p>>) = 2  OBVIOUS
    <3> QED  BY <2>3, <3>2, <3>4, <3>5, <3>6, <3>7
  <2> QED  BY <2>1, <2>4, <2>5
<1>4. ASSUME NEW p \in RateWorkers, NEW l \in LoaderType, loader' = [loader EXCEPT ![p] = l], secret' = secret,
             l.step # "write", l.step = "has" => l.key = secret.by /\ Len(secret.by) = 2
      PROVE  SecretInv'
  <2>1. \A q \in RateWorkers : loader'[q] = IF q = p THEN l ELSE loader[q]  BY <1>4
  <2>2. loader' \in [RateWorkers -> LoaderType]  BY <1>4
  <2> QED  BY <1>4, <2>1, <2>2
<1>5. ASSUME NEW p \in RateWorkers, SecretRead(p) PROVE SecretInv'
  <2>1. CASE SecretComplete(secret.by)
    <3>1. [step |-> "has", key |-> secret.by] \in LoaderType  BY DEF LoaderType
    <3> QED  BY <1>4, <1>5, <2>1, <3>1 DEF SecretRead, SecretComplete
  <2>2. CASE ~SecretComplete(secret.by) /\ loader[p].tries + 1 < SecretReads
    <3>1. loader[p] \in [step : {"read"}, tries : Nat]  BY <1>5 DEF SecretRead, LoaderType
    <3> DEFINE l == [step |-> "read", tries |-> loader[p].tries + 1]
    <3>2. l \in LoaderType /\ l.step = "read"  BY <3>1 DEF LoaderType
    <3>3. loader' = [loader EXCEPT ![p] = l] /\ secret' = secret  BY <1>5, <2>2 DEF SecretRead
    <3> HIDE DEF l
    <3> QED  BY <1>4, <3>2, <3>3
  <2>3. CASE ~SecretComplete(secret.by) /\ ~(loader[p].tries + 1 < SecretReads)
    <3>1. [step |-> "unavailable"] \in LoaderType  BY DEF LoaderType
    <3> QED  BY <1>4, <1>5, <2>3, <3>1 DEF SecretRead
  <2> QED  BY <2>1, <2>2, <2>3
<1>7. ASSUME NEW p \in RateWorkers, SecretAgain(p) \/ SecretWorkerDies(p) PROVE SecretInv'
  <2>1. [step |-> "start"] \in LoaderType  BY DEF LoaderType
  <2> QED  BY <1>4, <1>7, <2>1 DEF SecretAgain, SecretWorkerDies
<1>6. CASE UNCHANGED secretVars  BY <1>6 DEF secretVars
<1> QED  BY <1>1, <1>2, <1>3, <1>5, <1>6, <1>7 DEF SecretNext

(***************************************************************************)
(* The whole promise of the limiter, of processes that count and of         *)
(* processes that load the key they count under: no process that starts,    *)
(* or dies while it creates the secret, makes another count under a key of  *)
(* its own.                                                                 *)
(***************************************************************************)
THEOREM RateLimitHolds == RateSpec /\ SecretSpec => []RateLimitPromise
<1>1. SecretInit => SecretInv  BY DEF SecretInit, SecretInv, LoaderType
<1>2. SecretInv /\ [SecretNext]_secretVars => SecretInv'  BY SecretStep
<1>3. SecretInv => OneSecret  BY DEF SecretInv, OneSecret
<1>4. SecretSpec => []OneSecret  BY <1>1, <1>2, <1>3, PTL DEF SecretSpec
<1>5. AttemptsBounded /\ RetryAfterIsEnough /\ OneSecret => RateLimitPromise  BY DEF RateLimitPromise
<1> QED  BY <1>4, <1>5, LimiterHolds, PTL
-----------------------------------------------------------------------------
(***************************************************************************)
(* AccountAuth.  A request holds a slot in just the steps that work on a    *)
(* password, so the slots bound the work.                                   *)
(***************************************************************************)
SlotNumbers == 0 .. MaxConcurrent - 1
WorkSteps == {"work", "commit", "verify"}
Working == {p \in Logins : login[p].step \in WorkSteps}

LoginType ==
  [step : {"slot", "work", "commit"}, i : SlotNumbers, kind : {"register", "login"}, email : Emails, pw : Passwords]
    \cup [step : {"verify"}, email : Emails, pw : Passwords, stored : Passwords \cup {"none"}]
    \cup [step : {"session"}, email : Emails, late : Nat]

SessionType == [email : Emails, left : Int]

AccountTypeOK ==
  /\ users \in [Emails -> Passwords \cup {"none"}]
  /\ slots \in [SlotNumbers -> Logins \cup {"free"}]
  /\ login \in [Logins -> {NoLogin} \cup LoginType]
  /\ \A t \in DOMAIN sessions : sessions[t] \in SessionType
  /\ gc \in {NoGc} \cup [step : {"lock"}, late : Nat]

SlotInv == \A p \in Logins : login[p].step \in WorkSteps <=> Held(p) # {}

AccountInv == AccountTypeOK /\ SlotInv

LEMMA SlotsBoundWork == ASSUME AccountInv PROVE KdfBounded
<1> DEFINE S == {i \in SlotNumbers : slots[i] \in Working}
           f == [i \in S |-> slots[i]]
<1>1. IsFiniteSet(SlotNumbers) /\ Cardinality(SlotNumbers) = MaxConcurrent
  <2>1. MaxConcurrent \in Nat \ {0}  BY AccountAssumption
  <2>2. 0 \in Int /\ MaxConcurrent - 1 \in Int /\ ~(0 > MaxConcurrent - 1) /\ MaxConcurrent - 1 - 0 + 1 = MaxConcurrent
    BY <2>1
  <2> QED  BY <2>2, FS_Interval DEF SlotNumbers
<1>2. S \subseteq SlotNumbers  OBVIOUS
<1>3. IsFiniteSet(S) /\ Cardinality(S) <= MaxConcurrent  BY <1>1, <1>2, FS_Subset
<1>4. \A p \in Working : \E i \in S : f[i] = p
  <2> TAKE p \in Working
  <2>1. Held(p) # {}  BY DEF AccountInv, SlotInv, Working
  <2> QED  BY <2>1 DEF Held, AccountInv, AccountTypeOK
<1>5. f \in Surjection(S, Working)  BY <1>4 DEF Surjection
<1>6. IsFiniteSet(Working) /\ Cardinality(Working) <= Cardinality(S)  BY <1>3, <1>5, FS_Surjection
<1>7. Cardinality(Working) \in Nat /\ Cardinality(S) \in Nat /\ MaxConcurrent \in Nat
  BY <1>3, <1>6, FS_CardinalityType, AccountAssumption
<1>8. Cardinality(Working) <= MaxConcurrent  BY <1>3, <1>6, <1>7
<1>9. Working = {p \in Logins : login[p].step \in {"work", "commit", "verify"}}  BY DEF Working, WorkSteps
<1> QED  BY <1>8, <1>9 DEF KdfBounded, AccountInv, SlotInv, WorkSteps

(* A step that keeps the slots, and keeps a request working or not. *)
LEMMA SlotsKept ==
  ASSUME AccountInv, NEW p \in Logins, NEW l \in {NoLogin} \cup LoginType, login' = [login EXCEPT ![p] = l],
         slots' = slots, l.step \in WorkSteps <=> login[p].step \in WorkSteps
  PROVE  SlotInv' /\ login' \in [Logins -> {NoLogin} \cup LoginType]
<1>1. \A q \in Logins : login'[q] = IF q = p THEN l ELSE login[q]  BY DEF AccountInv, AccountTypeOK
<1>2. \A q \in Logins : Held(q)' = Held(q)  BY DEF Held
<1>3. \A q \in Logins : login'[q].step \in WorkSteps <=> login[q].step \in WorkSteps  BY <1>1
<1>4. SlotInv'  BY <1>2, <1>3 DEF AccountInv, SlotInv
<1> QED  BY <1>4 DEF AccountInv, AccountTypeOK

(* A step that ends a request's work and gives its slot back, whatever it held. *)
LEMMA SlotReleased ==
  ASSUME AccountInv, NEW p \in Logins, NEW l \in {NoLogin} \cup LoginType, login' = [login EXCEPT ![p] = l],
         slots' = Released(p), l.step \notin WorkSteps
  PROVE  /\ SlotInv' /\ login' \in [Logins -> {NoLogin} \cup LoginType]
         /\ slots' \in [SlotNumbers -> Logins \cup {"free"}]
<1>1. \A q \in Logins : login'[q] = IF q = p THEN l ELSE login[q]  BY DEF AccountInv, AccountTypeOK
<1>2. "free" \notin Logins  BY AccountAssumption
<1>3. DOMAIN slots = SlotNumbers /\ slots' \in [SlotNumbers -> Logins \cup {"free"}]
  BY DEF Released, AccountInv, AccountTypeOK
<1>4. \A i \in SlotNumbers : slots'[i] = IF slots[i] = p THEN "free" ELSE slots[i]  BY <1>3 DEF Released
<1>5. Held(p)' = {}  BY <1>2, <1>3, <1>4 DEF Held
<1>6. \A q \in Logins : q # p => Held(q)' = Held(q)  BY <1>2, <1>3, <1>4 DEF Held
<1>7. SlotInv'  BY <1>1, <1>5, <1>6 DEF AccountInv, SlotInv
<1> QED  BY <1>3, <1>7 DEF AccountInv, AccountTypeOK

LEMMA AccountStep == ASSUME AccountInv, [AccountNext]_accountVars PROVE AccountInv'
<1>0. NoLogin.step = "none" /\ NoLogin.step \notin WorkSteps  BY DEF NoLogin, WorkSteps
<1>1. ASSUME NEW p \in Logins, NEW kind \in {"register", "login"}, NEW e \in Emails, NEW pw \in Passwords,
             Arrive(p, kind, e, pw)
      PROVE AccountInv'
  <2> DEFINE l == [step |-> "slot", i |-> 0, kind |-> kind, email |-> e, pw |-> pw]
  <2>1. 0 \in SlotNumbers  BY AccountAssumption DEF SlotNumbers
  <2>2. l \in LoginType /\ l.step \notin WorkSteps  BY <2>1 DEF LoginType, WorkSteps
  <2>3. login' = [login EXCEPT ![p] = l] /\ login[p] = NoLogin /\ UNCHANGED <<users, slots, sessions, gc>>
    BY <1>1 DEF Arrive
  <2> HIDE DEF l
  <2>4. SlotInv' /\ login' \in [Logins -> {NoLogin} \cup LoginType]  BY <1>0, <2>2, <2>3, SlotsKept
  <2> QED  BY <2>3, <2>4 DEF AccountInv, AccountTypeOK
<1>2. ASSUME NEW p \in Logins, TrySlot(p) PROVE AccountInv'
  <2>1. login[p] \in [step : {"slot", "work", "commit"}, i : SlotNumbers, kind : {"register", "login"},
                      email : Emails, pw : Passwords] /\ login[p].step = "slot"
    BY <1>2 DEF TrySlot, AccountInv, AccountTypeOK, NoLogin, LoginType
  <2> DEFINE i == login[p].i
  <2>2. CASE SlotFree(i)
    <3> DEFINE l == [login[p] EXCEPT !.step = "work"]
    <3>1. l \in LoginType /\ l.step = "work"  BY <2>1 DEF LoginType
    <3>2. /\ login' = [login EXCEPT ![p] = l] /\ slots' = [slots EXCEPT ![i] = p]
          /\ UNCHANGED <<users, sessions, gc>>
      BY <1>2, <2>2 DEF TrySlot, AccountInv, AccountTypeOK
    <3>3. i \in SlotNumbers /\ slots[i] = "free" /\ "free" \notin Logins
      BY <2>1, <2>2, AccountAssumption DEF SlotFree
    <3> HIDE DEF l, i
    <3>4. \A q \in Logins : login'[q] = IF q = p THEN l ELSE login[q]
      BY <3>2 DEF AccountInv, AccountTypeOK
    <3>5. /\ DOMAIN slots' = SlotNumbers /\ DOMAIN slots = SlotNumbers
          /\ \A j \in SlotNumbers : slots'[j] = IF j = i THEN p ELSE slots[j]
      BY <3>2 DEF AccountInv, AccountTypeOK
    <3>6. Held(p)' # {} /\ \A q \in Logins : q # p => Held(q)' = Held(q)
      BY <3>3, <3>5 DEF Held
    <3>7. SlotInv'  BY <3>1, <3>4, <3>6 DEF AccountInv, SlotInv, WorkSteps
    <3>8. login' \in [Logins -> {NoLogin} \cup LoginType] /\ slots' \in [SlotNumbers -> Logins \cup {"free"}]
      BY <3>1, <3>2 DEF AccountInv, AccountTypeOK
    <3> QED  BY <3>2, <3>7, <3>8 DEF AccountInv, AccountTypeOK
  <2>3. CASE ~SlotFree(i)
    <3> DEFINE l == IF i + 1 < MaxConcurrent THEN [login[p] EXCEPT !.i = i + 1] ELSE NoLogin
    <3>1. l \in {NoLogin} \cup LoginType /\ l.step \notin WorkSteps
      <4>1. CASE i + 1 < MaxConcurrent
        <5>1. i + 1 \in SlotNumbers  BY <2>1, <4>1, AccountAssumption DEF SlotNumbers
        <5> QED  BY <2>1, <4>1, <5>1 DEF LoginType, WorkSteps
      <4>2. CASE ~(i + 1 < MaxConcurrent)  BY <1>0, <4>2
      <4> QED  BY <4>1, <4>2
    <3>2. login' = [login EXCEPT ![p] = l] /\ UNCHANGED <<users, slots, sessions, gc>>
      BY <1>2, <2>3 DEF TrySlot
    <3> HIDE DEF l
    <3>3. login[p].step \notin WorkSteps  BY <2>1 DEF WorkSteps
    <3>4. SlotInv' /\ login' \in [Logins -> {NoLogin} \cup LoginType]  BY <3>1, <3>2, <3>3, SlotsKept
    <3> QED  BY <3>2, <3>4 DEF AccountInv, AccountTypeOK
  <2> QED  BY <2>2, <2>3
<1>3. ASSUME NEW p \in Logins, HashPassword(p) PROVE AccountInv'
  <2> DEFINE l == [login[p] EXCEPT !.step = "commit"]
  <2>1. login[p] \in LoginType /\ login[p].step = "work"
    BY <1>3 DEF HashPassword, AccountInv, AccountTypeOK, NoLogin
  <2>2. l \in LoginType /\ l.step = "commit"  BY <2>1 DEF LoginType
  <2>3. login' = [login EXCEPT ![p] = l] /\ UNCHANGED <<users, slots, sessions, gc>>
    BY <1>3 DEF HashPassword, AccountInv, AccountTypeOK
  <2> HIDE DEF l
  <2>4. SlotInv' /\ login' \in [Logins -> {NoLogin} \cup LoginType]
    BY <2>1, <2>2, <2>3, SlotsKept DEF WorkSteps
  <2> QED  BY <2>3, <2>4 DEF AccountInv, AccountTypeOK
<1>4. ASSUME NEW p \in Logins, RegisterCommit(p) PROVE AccountInv'
  <2>1. login[p].pw \in Passwords
    BY <1>4 DEF RegisterCommit, AccountInv, AccountTypeOK, NoLogin, LoginType
  <2>2. users' \in [Emails -> Passwords \cup {"none"}]  BY <1>4, <2>1 DEF RegisterCommit, AccountInv, AccountTypeOK
  <2>3. login' = [login EXCEPT ![p] = NoLogin] /\ slots' = Released(p) /\ UNCHANGED <<sessions, gc>>
    BY <1>4 DEF RegisterCommit
  <2>4. /\ SlotInv' /\ login' \in [Logins -> {NoLogin} \cup LoginType]
        /\ slots' \in [SlotNumbers -> Logins \cup {"free"}]
    BY <1>0, <2>3, SlotReleased
  <2> QED  BY <2>2, <2>3, <2>4 DEF AccountInv, AccountTypeOK
<1>5. ASSUME NEW p \in Logins, LookupUser(p) PROVE AccountInv'
  <2> DEFINE l == [step |-> "verify", email |-> login[p].email, pw |-> login[p].pw, stored |-> users[login[p].email]]
  <2>1. login[p] \in LoginType /\ login[p].step = "work"
    BY <1>5 DEF LookupUser, AccountInv, AccountTypeOK, NoLogin
  <2>2. login[p].email \in Emails /\ login[p].pw \in Passwords  BY <2>1 DEF LoginType
  <2>3. l \in LoginType /\ l.step = "verify"  BY <2>2 DEF LoginType, AccountInv, AccountTypeOK
  <2>4. login' = [login EXCEPT ![p] = l] /\ UNCHANGED <<users, slots, sessions, gc>>
    BY <1>5 DEF LookupUser
  <2> HIDE DEF l
  <2>5. SlotInv' /\ login' \in [Logins -> {NoLogin} \cup LoginType]
    BY <2>1, <2>3, <2>4, SlotsKept DEF WorkSteps
  <2> QED  BY <2>4, <2>5 DEF AccountInv, AccountTypeOK
<1>6. ASSUME NEW p \in Logins, VerifyPassword(p) PROVE AccountInv'
  <2> DEFINE l == IF login[p].stored = login[p].pw THEN [step |-> "session", email |-> login[p].email, late |-> 0]
                  ELSE NoLogin
  <2>1. login[p].email \in Emails
    BY <1>6 DEF VerifyPassword, AccountInv, AccountTypeOK, NoLogin, LoginType
  <2>2. l \in {NoLogin} \cup LoginType /\ l.step \notin WorkSteps  BY <1>0, <2>1 DEF LoginType, WorkSteps
  <2>3. login' = [login EXCEPT ![p] = l] /\ slots' = Released(p) /\ UNCHANGED <<users, sessions, gc>>
    BY <1>6 DEF VerifyPassword
  <2> HIDE DEF l
  <2>4. /\ SlotInv' /\ login' \in [Logins -> {NoLogin} \cup LoginType]
        /\ slots' \in [SlotNumbers -> Logins \cup {"free"}]
    BY <2>2, <2>3, SlotReleased
  <2> QED  BY <2>3, <2>4 DEF AccountInv, AccountTypeOK
<1>7. ASSUME NEW p \in Logins, CreateSession(p) PROVE AccountInv'
  <2>1. login[p].step = "session" /\ login[p].late \in Nat /\ login[p].email \in Emails
    BY <1>7 DEF CreateSession, AccountInv, AccountTypeOK, NoLogin, LoginType
  <2>2. \A t \in DOMAIN sessions' : sessions'[t] \in SessionType
    BY <1>7, <2>1, AccountAssumption DEF CreateSession, AccountInv, AccountTypeOK, SessionType
  <2>3. login' = [login EXCEPT ![p] = NoLogin] /\ UNCHANGED <<users, slots, gc>>  BY <1>7 DEF CreateSession
  <2>4. SlotInv' /\ login' \in [Logins -> {NoLogin} \cup LoginType]
    BY <1>0, <2>1, <2>3, SlotsKept DEF WorkSteps
  <2> QED  BY <2>2, <2>3, <2>4 DEF AccountInv, AccountTypeOK
<1>8. ASSUME NEW p \in Logins, LoginDies(p) PROVE AccountInv'
  <2>1. login' = [login EXCEPT ![p] = NoLogin] /\ slots' = Released(p) /\ UNCHANGED <<users, sessions, gc>>
    BY <1>8 DEF LoginDies
  <2>2. /\ SlotInv' /\ login' \in [Logins -> {NoLogin} \cup LoginType]
        /\ slots' \in [SlotNumbers -> Logins \cup {"free"}]
    BY <1>0, <2>1, SlotReleased
  <2> QED  BY <2>1, <2>2 DEF AccountInv, AccountTypeOK
<1>9. ASSUME UNCHANGED <<users, slots, login>>,
             \A t \in DOMAIN sessions' : t \in DOMAIN sessions /\ sessions'[t] = sessions[t],
             gc' \in {NoGc} \cup [step : {"lock"}, late : Nat]
      PROVE AccountInv'
  BY <1>9 DEF AccountInv, AccountTypeOK, SlotInv, Held
<1>10. ASSUME NEW t, Logout(t) PROVE AccountInv'  BY <1>9, <1>10 DEF Logout, AccountInv, AccountTypeOK
<1>11. CASE GcStart  BY <1>9, <1>11 DEF GcStart
<1>12. CASE GcRun  BY <1>9, <1>12 DEF GcRun
<1>13. CASE AccountTick
  <2>1. \A p \in Logins : /\ login'[p] \in {NoLogin} \cup LoginType
                          /\ login'[p].step \in WorkSteps <=> login[p].step \in WorkSteps
    <3> TAKE p \in Logins
    <3>1. CASE login[p].step = "session"
      <4>1. login[p] \in [step : {"session"}, email : Emails, late : Nat]
        BY <3>1 DEF AccountInv, AccountTypeOK, NoLogin, LoginType
      <4>2. login'[p] = [login[p] EXCEPT !.late = login[p].late + 1]  BY <1>13, <3>1 DEF AccountTick
      <4>3. login'[p] \in [step : {"session"}, email : Emails, late : Nat]  BY <4>1, <4>2
      <4> QED  BY <4>1, <4>3 DEF LoginType, WorkSteps
    <3>2. CASE login[p].step # "session"
      <4>1. login'[p] = login[p]  BY <1>13, <3>2 DEF AccountTick
      <4> QED  BY <4>1 DEF AccountInv, AccountTypeOK
    <3> QED  BY <3>1, <3>2
  <2>2. login' = [p \in Logins |-> login'[p]]  BY <1>13 DEF AccountTick
  <2>3. \A t \in DOMAIN sessions' : sessions'[t] \in SessionType
    <3>1. DOMAIN sessions' = DOMAIN sessions  BY <1>13 DEF AccountTick
    <3>2. ASSUME NEW t \in DOMAIN sessions PROVE sessions'[t] \in SessionType
      <4>1. sessions[t] \in SessionType /\ MaxLag \in Nat  BY AccountAssumption DEF AccountInv, AccountTypeOK
      <4>2. sessions'[t] = [sessions[t] EXCEPT !.left = IF @ > -MaxLag THEN @ - 1 ELSE @]
        BY <1>13 DEF AccountTick
      <4> QED  BY <4>1, <4>2 DEF SessionType
    <3> QED  BY <3>1, <3>2
  <2>4. gc' \in {NoGc} \cup [step : {"lock"}, late : Nat]
    BY <1>13 DEF AccountTick, AccountInv, AccountTypeOK
  <2>5. UNCHANGED <<users, slots>>  BY <1>13 DEF AccountTick
  <2>6. SlotInv'  BY <2>1, <2>5 DEF AccountInv, SlotInv, Held
  <2>7. login' \in [Logins -> {NoLogin} \cup LoginType]  BY <2>1, <2>2
  <2> QED  BY <2>3, <2>4, <2>5, <2>6, <2>7 DEF AccountInv, AccountTypeOK
<1>14. CASE UNCHANGED accountVars  BY <1>14 DEF accountVars, AccountInv, AccountTypeOK, SlotInv, Held
<1> QED
  BY <1>1, <1>2, <1>3, <1>4, <1>5, <1>6, <1>7, <1>8, <1>10, <1>11, <1>12, <1>13, <1>14 DEF AccountNext

(* A registered password is replaced by no step. *)
LEMMA FirstComerKept ==
  ASSUME AccountInv, [AccountNext]_accountVars, NEW e \in Emails, users[e] # "none"
  PROVE  users'[e] = users[e]
<1>1. ASSUME NEW p \in Logins, RegisterCommit(p) PROVE users'[e] = users[e]
  BY <1>1 DEF RegisterCommit, EmailFree, AccountInv, AccountTypeOK
<1>2. CASE users' = users  BY <1>2
<1>3. users' = users \/ \E p \in Logins : RegisterCommit(p)
  BY DEF AccountNext, accountVars, Arrive, TrySlot, HashPassword, LookupUser, VerifyPassword, CreateSession, LoginDies,
         Logout, GcStart, GcRun, AccountTick
<1> QED  BY <1>1, <1>2, <1>3

(* A session that is gone had expired or was logged out. *)
LEMMA SessionKept ==
  ASSUME AccountInv, [AccountNext]_accountVars, NEW t \in DOMAIN sessions, t \notin DOMAIN sessions'
  PROVE  sessions[t].left <= 0 \/ Logout(t)
<1>1. CASE GcRun
  <2>1. gc.late \in Nat  BY <1>1 DEF GcRun, AccountInv, AccountTypeOK, NoGc
  <2>2. PICK S \in Selected({u \in DOMAIN sessions : Expired(u)}) :
          sessions' = [u \in DOMAIN sessions \ S |-> sessions[u]]
    BY <1>1 DEF GcRun
  <2>3. t \in S  BY <2>2
  <2>4. S \subseteq {u \in DOMAIN sessions : Expired(u)}  BY <2>2 DEF Selected, kSubset
  <2>5. sessions[t].left + gc.late <= 0 /\ sessions[t].left \in Int
    BY <2>3, <2>4 DEF Expired, AccountInv, AccountTypeOK, SessionType
  <2> QED  BY <2>1, <2>5
<1>2. ASSUME NEW u, Logout(u) PROVE Logout(t)
  <2>1. t = u  BY <1>2 DEF Logout
  <2> QED  BY <1>2, <2>1
<1>3. ASSUME NEW p \in Logins, CreateSession(p) PROVE FALSE  BY <1>3 DEF CreateSession
<1>4. CASE AccountTick  BY <1>4 DEF AccountTick
<1>5. CASE sessions' = sessions  BY <1>5
<1>6. \/ sessions' = sessions \/ GcRun \/ AccountTick
      \/ \E p \in Logins : CreateSession(p)
      \/ \E u \in 1 .. MaxSessions + 1 : Logout(u)
  BY DEF AccountNext, accountVars, Arrive, TrySlot, HashPassword, RegisterCommit, LookupUser, VerifyPassword, LoginDies,
         GcStart
<1> QED  BY <1>1, <1>2, <1>3, <1>4, <1>5, <1>6

(***************************************************************************)
(* Accounts, for every number of requests, slots and sessions: the slots    *)
(* bound the password work whoever dies, of two registrations of one email  *)
(* the first keeps the account, and the collector takes no session that is  *)
(* still good, however late it gets the lock.                               *)
(***************************************************************************)
THEOREM AccountHolds == AccountSpec => AccountPromise
<1>1. AccountInit => AccountInv
  <2> SUFFICES ASSUME AccountInit PROVE AccountInv  OBVIOUS
  <2>1. AccountTypeOK  BY DEF AccountInit, AccountTypeOK, SlotNumbers
  <2>2. \A p \in Logins : Held(p) = {} /\ login[p].step = "none"
    BY AccountAssumption DEF AccountInit, Held, NoLogin
  <2> QED  BY <2>1, <2>2 DEF AccountInv, SlotInv, WorkSteps
<1>2. AccountInv /\ [AccountNext]_accountVars => AccountInv'  BY AccountStep
<1>3. AccountInv => KdfBounded  BY SlotsBoundWork
<1>4. AccountInv /\ [AccountNext]_accountVars =>
        [\A e \in Emails : users[e] # "none" => users'[e] = users[e]]_accountVars
  BY FirstComerKept
<1>5. AccountInv /\ [AccountNext]_accountVars =>
        [\A t \in DOMAIN sessions : t \notin DOMAIN sessions' => sessions[t].left <= 0 \/ Logout(t)]_accountVars
  BY SessionKept
<1> QED  BY <1>1, <1>2, <1>3, <1>4, <1>5, PTL
  DEF AccountSpec, AccountPromise, AccountIsFirstComers, LiveSessionsKept
-----------------------------------------------------------------------------
(***************************************************************************)
(* IngestAuthProxy.  A cache entry and a grant under way are worth no more  *)
(* than the credential they stand for and the stale window that began when  *)
(* the store last accepted it; nothing that leads to an entry is left of a  *)
(* secret that is out.                                                      *)
(***************************************************************************)
CredType == [state : {"none", "active", "revoked"}, left : Nat]
EntryType == [left : Nat, after : SUBSET Secrets]
RequestType ==
  [step : {"asked", "checked", "verified", "denied"}, secret : Secrets, age : 0 .. UpTimeout]
    \cup [step : {"granted"}, secret : Secrets, age : 0 .. UpTimeout, until : Nat]
    \cup [step : {"lost"}, secret : Secrets]

CredInv ==
  /\ creds \in [Secrets -> CredType] /\ deadline \in Nat
  /\ issuing \in {NoIssue} \cup [step : {"write"}, left : Nat]
  /\ \A k, j \in Secrets : creds[k].state = "active" /\ creds[j].state = "active" => k = j
  /\ \A k \in Secrets : creds[k].left <= deadline /\ (creds[k].state = "none" => creds[k].left = 0)
  /\ issuing.step = "write" => issuing.left <= deadline

RequestOK(q) ==
  /\ q.step \in {"verified", "granted"} => seen[q.secret] <= q.age /\ q.secret \notin out
  /\ q.step = "granted" => q.until <= creds[q.secret].left /\ q.until <= CpAge

RequestInv ==
  /\ req \in [Requests -> {Idle} \cup RequestType]
  /\ \A r \in Requests : RequestOK(req[r])

EntryOK(k, e) ==
  k \in Secrets /\ e \in EntryType /\ e.left <= creds[k].left /\ seen[k] + e.left <= Stale /\ k \notin out

CacheInv ==
  /\ IsFiniteSet(DOMAIN cache) /\ Cardinality(DOMAIN cache) <= CacheMax
  /\ \A k \in DOMAIN cache : EntryOK(k, cache[k])

OutInv == out \subseteq Secrets /\ \A k \in out : Dead(k)

SeenInv == seen \in [Secrets -> 0 .. Stale]

ProxyInv == CredInv /\ RequestInv /\ CacheInv /\ OutInv /\ SeenInv

LEMMA StaleType == Stale \in Nat /\ Stale = UpTimeout + Less(CpAge, NodeAge) /\ UpTimeout \in Nat
                   /\ CpAge \in Nat /\ NodeAge \in Nat /\ CacheMax \in Nat
  BY ProxyAssumption DEF Stale, Less

(* A request that moves on, with what the invariant asks of its new step. *)
LEMMA RequestMoves ==
  ASSUME ProxyInv, NEW r \in Requests, NEW l \in {Idle} \cup RequestType, req' = [req EXCEPT ![r] = l],
         RequestOK(l), UNCHANGED <<seen, out, creds>>
  PROVE  RequestInv'
<1>1. \A s \in Requests : req'[s] = IF s = r THEN l ELSE req[s]  BY DEF ProxyInv, RequestInv
<1>2. \A s \in Requests : RequestOK(req'[s])  BY <1>1 DEF ProxyInv, RequestInv
<1>3. \A s \in Requests : RequestOK(req[s])'  BY <1>2 DEF RequestOK
<1> QED  BY <1>3 DEF ProxyInv, RequestInv

LEMMA PruneKeeps ==
  ASSUME NEW c, IsFiniteSet(DOMAIN c), \A k \in DOMAIN c : EntryOK(k, c[k]), NEW d \in Prune(c)
  PROVE  /\ IsFiniteSet(DOMAIN d) /\ Cardinality(DOMAIN d) <= CacheMax /\ DOMAIN d \subseteq Live(c)
         /\ \A k \in DOMAIN d : EntryOK(k, d[k]) /\ d[k].left > 0
<1>1. PICK K \in KeysKept(c) : d = [j \in K |-> [c[j] EXCEPT !.after = @ \cap K]]  BY DEF Prune
<1>2. K \subseteq Live(c) /\ Live(c) \subseteq DOMAIN c  BY DEF KeysKept, kSubset, Live
<1>3. IsFiniteSet(Live(c)) /\ IsFiniteSet(K)  BY <1>2, FS_Subset
<1>4. Cardinality(K) <= CacheMax  BY <1>3, StaleType DEF KeysKept, kSubset
<1>5. ASSUME NEW k \in K PROVE EntryOK(k, d[k]) /\ d[k].left > 0
  <2>1. c[k] \in EntryType /\ EntryOK(k, c[k]) /\ c[k].left > 0  BY <1>2 DEF EntryOK, Live
  <2>2. d[k] = [c[k] EXCEPT !.after = c[k].after \cap K]  BY <1>1, <2>1 DEF EntryType
  <2>3. d[k] \in EntryType /\ d[k].left = c[k].left  BY <2>1, <2>2 DEF EntryType
  <2> QED  BY <2>1, <2>3 DEF EntryOK
<1>6. DOMAIN d = K  BY <1>1
<1> QED  BY <1>2, <1>3, <1>4, <1>5, <1>6

(* Storing or touching an entry changes the order of the others only. *)
LEMMA MovedEntries ==
  ASSUME NEW c, IsFiniteSet(DOMAIN c), \A j \in DOMAIN c : EntryOK(j, c[j]),
         NEW k \in Secrets, NEW n \in Nat, EntryOK(k, [left |-> n, after |-> {}])
  PROVE  /\ IsFiniteSet(DOMAIN MoveToEnd(c, k, n)) /\ DOMAIN MoveToEnd(c, k, n) = DOMAIN c \cup {k}
         /\ \A j \in DOMAIN MoveToEnd(c, k, n) : EntryOK(j, MoveToEnd(c, k, n)[j])
<1> DEFINE m == MoveToEnd(c, k, n)
<1>1. DOMAIN m = DOMAIN c \cup {k} /\ IsFiniteSet(DOMAIN c \cup {k})  BY FS_AddElement DEF MoveToEnd
<1>2. m[k] = [left |-> n, after |-> {}]  BY DEF MoveToEnd
<1>3. ASSUME NEW j \in DOMAIN c, j # k PROVE EntryOK(j, m[j])
  <2>1. c[j] \in EntryType /\ EntryOK(j, c[j])  BY DEF EntryOK
  <2>2. m[j] = [c[j] EXCEPT !.after = c[j].after \cup {k}]  BY <1>3, <2>1 DEF MoveToEnd, EntryType
  <2>3. m[j] \in EntryType /\ m[j].left = c[j].left  BY <2>1, <2>2 DEF EntryType
  <2> QED  BY <2>1, <2>3 DEF EntryOK
<1> HIDE DEF m
<1>4. IsFiniteSet(DOMAIN m) /\ DOMAIN m = DOMAIN c \cup {k} /\ \A j \in DOMAIN m : EntryOK(j, m[j])
  BY <1>1, <1>2, <1>3
<1> QED  BY <1>4 DEF m

LEMMA ProxyInitial == ASSUME ProxyInit PROVE ProxyInv
<1>1. CredInv
  BY ProxyAssumption DEF ProxyInit, CredInv, CredType, Unissued, NoIssue
<1>2. RequestInv  BY DEF ProxyInit, RequestInv, RequestOK, Idle
<1>3. CacheInv
  <2>1. DOMAIN cache = {}  BY DEF ProxyInit, EmptyCache
  <2>2. IsFiniteSet({}) /\ Cardinality({}) = 0  BY FS_EmptySet
  <2> QED  BY <2>1, <2>2, StaleType DEF CacheInv
<1>4. OutInv  BY DEF ProxyInit, OutInv
<1>5. SeenInv  BY StaleType DEF ProxyInit, SeenInv
<1> QED  BY <1>1, <1>2, <1>3, <1>4, <1>5 DEF ProxyInv

(* Steps of the credential store: what is left of an issued secret stays, so does its end. *)
LEMMA StoreStep ==
  ASSUME ProxyInv, UNCHANGED <<req, cache, seen, out>>, CredInv',
         \A k \in Secrets : /\ creds'[k].left = creds[k].left \/ (creds[k].left = 0 /\ k \notin out)
                            /\ creds[k].state = "revoked" => creds'[k].state = "revoked"
                            /\ creds[k].state = "active" => creds'[k].state \in {"active", "revoked"}
  PROVE  ProxyInv'
<1>1. \A k \in Secrets : creds[k].left \in Nat /\ creds'[k].left \in Nat /\ creds[k].left <= creds'[k].left
  BY DEF ProxyInv, CredInv, CredType
<1>2. \A r \in Requests : req[r].step = "granted" => req[r].secret \in Secrets /\ req[r].until \in Nat
  BY DEF ProxyInv, RequestInv, RequestType, Idle
<1>3. RequestInv'
  <2>1. \A r \in Requests : RequestOK(req[r])'  BY <1>1, <1>2 DEF ProxyInv, RequestInv, RequestOK
  <2> QED  BY <2>1 DEF ProxyInv, RequestInv
<1>4. CacheInv'
  <2>1. \A k \in DOMAIN cache : EntryOK(k, cache[k])'  BY <1>1 DEF ProxyInv, CacheInv, EntryOK, EntryType
  <2> QED  BY <2>1 DEF ProxyInv, CacheInv
<1>5. OutInv'
  BY <1>1 DEF ProxyInv, OutInv, Dead, CredInv
<1> QED  BY <1>3, <1>4, <1>5 DEF ProxyInv, SeenInv

LEMMA IssueSteps ==
  ASSUME ProxyInv, \/ BeginIssue \/ SessionStops \/ RevokeSession
                   \/ \E k \in Secrets : Issue(k) \/ Revoke(k)
  PROVE  ProxyInv'
<1> USE StaleType, ProxyAssumption
<1>1. CASE BeginIssue
  <2>1. Less(Ttl, deadline) \in Nat /\ Less(Ttl, deadline) <= deadline  BY DEF Less, ProxyInv, CredInv
  <2>2. issuing' \in [step : {"write"}, left : Nat] /\ issuing'.left <= deadline
    BY <1>1, <2>1 DEF BeginIssue
  <2>3. CredInv'  BY <1>1, <2>2 DEF BeginIssue, ProxyInv, CredInv
  <2> QED  BY <1>1, <2>3, StoreStep DEF BeginIssue, ProxyInv, CredInv, CredType
<1>2. CASE SessionStops
  <2>1. CredInv'  BY <1>2 DEF SessionStops, ProxyInv, CredInv
  <2> QED  BY <1>2, <2>1, StoreStep DEF SessionStops, ProxyInv, CredInv, CredType
<1>3. ASSUME NEW k \in Secrets, Revoke(k) PROVE ProxyInv'
  <2>1. creds[k] \in CredType /\ creds[k].state = "active"  BY <1>3 DEF Revoke, ProxyInv, CredInv
  <2>2. creds' = [creds EXCEPT ![k] = [creds[k] EXCEPT !.state = "revoked"]]
    BY <1>3 DEF Revoke, ProxyInv, CredInv
  <2> DEFINE c == [creds[k] EXCEPT !.state = "revoked"]
  <2>3. c \in CredType /\ c.state = "revoked" /\ c.left = creds[k].left  BY <2>1 DEF CredType
  <2> HIDE DEF c
  <2>4. \A j \in Secrets : creds'[j] = IF j = k THEN c ELSE creds[j]  BY <2>2 DEF c, ProxyInv, CredInv
  <2>5. creds' \in [Secrets -> CredType]  BY <2>2, <2>3 DEF c, ProxyInv, CredInv
  <2>6. CredInv'  BY <1>3, <2>3, <2>4, <2>5 DEF Revoke, ProxyInv, CredInv
  <2> QED  BY <1>3, <2>1, <2>3, <2>4, <2>6, StoreStep DEF Revoke
<1>4. CASE RevokeSession
  <2>1. \A j \in Secrets : /\ creds'[j] \in CredType /\ creds'[j].left = creds[j].left /\ creds'[j].state # "active"
                           /\ creds[j].state = "active" => creds'[j].state = "revoked"
                           /\ creds[j].state # "active" => creds'[j].state = creds[j].state
    <3> TAKE j \in Secrets
    <3>1. creds[j] \in CredType  BY DEF ProxyInv, CredInv
    <3>2. creds'[j] = IF creds[j].state = "active" THEN [creds[j] EXCEPT !.state = "revoked"] ELSE creds[j]
      BY <1>4 DEF RevokeSession
    <3> QED  BY <3>1, <3>2 DEF CredType
  <2>2. creds' = [j \in Secrets |-> creds'[j]]  BY <1>4 DEF RevokeSession
  <2>3. creds' \in [Secrets -> CredType]  BY <2>1, <2>2
  <2>4. CredInv'  BY <1>4, <2>1, <2>3 DEF RevokeSession, ProxyInv, CredInv
  <2> QED  BY <1>4, <2>1, <2>4, StoreStep DEF RevokeSession, ProxyInv, CredInv, CredType
<1>5. ASSUME NEW k \in Secrets, Issue(k) PROVE ProxyInv'
  <2>1. /\ issuing.left \in Nat /\ issuing.left <= deadline /\ creds[k].state = "none" /\ creds[k].left = 0
        /\ creds[k] \in CredType
    BY <1>5 DEF Issue, ProxyInv, CredInv, NoIssue
  <2> DEFINE c == [state |-> "active", left |-> issuing.left]
             R == Rotate(creds)
  <2>2. c \in CredType /\ c.state = "active" /\ c.left = issuing.left  BY <2>1 DEF CredType
  <2>3. R \in [Secrets -> CredType]
        /\ \A j \in Secrets : /\ R[j].left = creds[j].left /\ R[j].state # "active"
                              /\ creds[j].state = "active" => R[j].state = "revoked"
                              /\ creds[j].state # "active" => R[j].state = creds[j].state
    <3>1. ASSUME NEW j \in Secrets
          PROVE /\ R[j] \in CredType /\ R[j].left = creds[j].left /\ R[j].state # "active"
                /\ creds[j].state = "active" => R[j].state = "revoked"
                /\ creds[j].state # "active" => R[j].state = creds[j].state
      <4>1. creds[j] \in CredType  BY DEF ProxyInv, CredInv
      <4>2. R[j] = IF creds[j].state = "active" THEN [creds[j] EXCEPT !.state = "revoked"] ELSE creds[j]
        BY DEF Rotate
      <4> QED  BY <4>1, <4>2 DEF CredType
    <3>2. R = [j \in Secrets |-> R[j]]  BY DEF Rotate
    <3> QED  BY <3>1, <3>2
  <2>4. creds' = [R EXCEPT ![k] = c]  BY <1>5 DEF Issue
  <2> HIDE DEF c, R
  <2>5. \A j \in Secrets : creds'[j] = IF j = k THEN c ELSE R[j]  BY <2>3, <2>4
  <2>6. creds' \in [Secrets -> CredType]  BY <2>2, <2>3, <2>4
  <2>7. CredInv'  BY <1>5, <2>1, <2>2, <2>3, <2>5, <2>6 DEF Issue, ProxyInv, CredInv, NoIssue
  <2>8. k \notin out  BY <2>1 DEF ProxyInv, OutInv, Dead
  <2> QED  BY <1>5, <2>1, <2>3, <2>5, <2>7, <2>8, StoreStep DEF Issue, ProxyInv, CredInv, CredType
<1> QED  BY <1>1, <1>2, <1>3, <1>4, <1>5

(* Steps of a request at the Control API, and the loss of its answer. *)
LEMMA AskSteps ==
  ASSUME ProxyInv, NEW r \in Requests,
         (\E k \in Secrets : Ask(r, k)) \/ CheckSession(r) \/ Answer(r) \/ NoAnswer(r)
  PROVE  ProxyInv'
<1> USE StaleType
<1>1. ASSUME NEW l \in {Idle} \cup RequestType, req' = [req EXCEPT ![r] = l], RequestOK(l),
             UNCHANGED <<deadline, creds, issuing, cache, seen, out>>
      PROVE  ProxyInv'
  <2>1. RequestInv'  BY <1>1, RequestMoves
  <2> QED  BY <1>1, <2>1 DEF ProxyInv, CredInv, CacheInv, EntryOK, OutInv, Dead, SeenInv
<1>2. ASSUME NEW k \in Secrets, Ask(r, k) PROVE ProxyInv'
  <2> DEFINE l == [step |-> "asked", secret |-> k, age |-> 0]
  <2>1. l \in RequestType /\ RequestOK(l)  BY DEF RequestType, RequestOK
  <2>2. req' = [req EXCEPT ![r] = l] /\ UNCHANGED <<deadline, creds, issuing, cache, seen, out>>
    BY <1>2 DEF Ask
  <2> HIDE DEF l
  <2> QED  BY <1>1, <2>1, <2>2
<1>3. CASE CheckSession(r)
  <2>1. req[r] \in [step : {"asked", "checked", "verified", "denied"}, secret : Secrets, age : 0 .. UpTimeout]
    BY <1>3 DEF CheckSession, ProxyInv, RequestInv, RequestType, Idle
  <2>2. PICK x \in {"checked", "denied"} : req' = [req EXCEPT ![r] = [req[r] EXCEPT !.step = x]]
    BY <1>3 DEF CheckSession, Denied, ProxyInv, RequestInv
  <2> DEFINE l == [req[r] EXCEPT !.step = x]
  <2>3. l \in RequestType /\ RequestOK(l)  BY <2>1 DEF RequestType, RequestOK
  <2> HIDE DEF l
  <2>4. req' = [req EXCEPT ![r] = l] /\ UNCHANGED <<deadline, creds, issuing, cache, seen, out>>
    BY <1>3, <2>2 DEF CheckSession, l
  <2> QED  BY <1>1, <2>3, <2>4
<1>4. CASE Answer(r)
  <2>1. /\ req[r] \in [step : {"asked", "checked", "verified", "denied"}, secret : Secrets, age : 0 .. UpTimeout]
        /\ req[r].step = "verified"
    BY <1>4 DEF Answer, ProxyInv, RequestInv, RequestType, Idle
  <2>2. creds[req[r].secret].left \in Nat  BY <2>1 DEF ProxyInv, CredInv, CredType
  <2> DEFINE u == Less(creds[req[r].secret].left, CpAge)
             l == [step |-> "granted", secret |-> req[r].secret, age |-> req[r].age, until |-> u]
  <2>3. u \in Nat /\ u <= creds[req[r].secret].left /\ u <= CpAge  BY <2>2 DEF Less
  <2>4. seen[req[r].secret] <= req[r].age /\ req[r].secret \notin out
    BY <2>1 DEF ProxyInv, RequestInv, RequestOK
  <2>5. req' = [req EXCEPT ![r] = l] /\ UNCHANGED <<deadline, creds, issuing, cache, seen, out>>
    BY <1>4 DEF Answer
  <2> HIDE DEF u
  <2>6. l \in RequestType /\ RequestOK(l)  BY <2>1, <2>3, <2>4 DEF RequestType, RequestOK
  <2> HIDE DEF l
  <2> QED  BY <1>1, <2>5, <2>6
<1>5. CASE NoAnswer(r)
  <2> DEFINE l == [step |-> "lost", secret |-> req[r].secret]
  <2>1. req[r].secret \in Secrets  BY <1>5 DEF NoAnswer, ProxyInv, RequestInv, RequestType, Idle
  <2>2. l \in RequestType /\ RequestOK(l)  BY <2>1 DEF RequestType, RequestOK
  <2>3. req' = [req EXCEPT ![r] = l] /\ UNCHANGED <<deadline, creds, issuing, cache, seen, out>>
    BY <1>5 DEF NoAnswer
  <2> HIDE DEF l
  <2> QED  BY <1>1, <2>2, <2>3
<1> QED  BY <1>2, <1>3, <1>4, <1>5

(* The store accepts a secret: its stale window begins, and it is not out. *)
LEMMA VerifyStep == ASSUME ProxyInv, NEW r \in Requests, Verify(r) PROVE ProxyInv'
<1> USE StaleType
<1> DEFINE k == req[r].secret
<1>1. /\ req[r] \in [step : {"asked", "checked", "verified", "denied"}, secret : Secrets, age : 0 .. UpTimeout]
      /\ req[r].step = "checked" /\ k \in Secrets
  BY DEF Verify, ProxyInv, RequestInv, RequestType, Idle
<1>2. UNCHANGED <<deadline, creds, issuing, cache, out>>  BY DEF Verify
<1>3. PICK x \in {"verified", "denied"} :
        /\ req' = [req EXCEPT ![r] = [req[r] EXCEPT !.step = x]]
        /\ x = "verified" => k \notin out /\ seen'[k] = 0
        /\ \A j \in Secrets : seen'[j] \in {0, seen[j]}
        /\ seen' \in [Secrets -> 0 .. Stale]
  <2>1. CASE Valid(k)
    <3>1. k \notin out  BY <1>1, <2>1 DEF Valid, ProxyInv, OutInv, Dead, CredInv, CredType
    <3>2. req' = [req EXCEPT ![r] = [req[r] EXCEPT !.step = "verified"]] /\ seen' = [seen EXCEPT ![k] = 0]
      BY <2>1 DEF Verify, ProxyInv, RequestInv
    <3> QED  BY <1>1, <3>1, <3>2 DEF ProxyInv, SeenInv
  <2>2. CASE ~Valid(k)
    BY <2>2 DEF Verify, Denied, ProxyInv, SeenInv
  <2> QED  BY <2>1, <2>2
<1> DEFINE l == [req[r] EXCEPT !.step = x]
<1>4. l \in RequestType /\ l.step = x /\ l.secret = k /\ l.age \in Nat  BY <1>1 DEF RequestType
<1>5. req' = [req EXCEPT ![r] = l]  BY <1>3
<1> HIDE DEF l, k
<1>6. \A s \in Requests : req'[s] = IF s = r THEN l ELSE req[s]  BY <1>5 DEF ProxyInv, RequestInv
<1>7. \A j \in Secrets : seen[j] \in Nat /\ seen'[j] <= seen[j]  BY <1>3 DEF ProxyInv, SeenInv
<1>8. ASSUME NEW s \in Requests PROVE RequestOK(req[s])'
  <2>1. CASE s = r
    <3>1. req'[s] = l  BY <1>6, <2>1
    <3>2. x = "verified" => seen'[l.secret] <= l.age /\ l.secret \notin out'  BY <1>2, <1>3, <1>4
    <3>3. l.step = x /\ x # "granted"  BY <1>3, <1>4
    <3> QED  BY <3>1, <3>2, <3>3 DEF RequestOK
  <2>2. CASE s # r
    <3>1. req'[s] = req[s]  BY <1>6, <2>2
    <3>2. req[s].step \in {"verified", "granted"} => req[s].secret \in Secrets /\ req[s].age \in Nat
      BY DEF ProxyInv, RequestInv, RequestType, Idle
    <3>3. RequestOK(req[s])  BY DEF ProxyInv, RequestInv
    <3>4. req[s].step \in {"verified", "granted"} => seen'[req[s].secret] <= req[s].age
      BY <1>3, <1>7, <3>2, <3>3 DEF RequestOK, ProxyInv, SeenInv
    <3> QED  BY <1>2, <3>1, <3>3, <3>4 DEF RequestOK
  <2> QED  BY <2>1, <2>2
<1>9. RequestInv'
  <2>1. req' \in [Requests -> {Idle} \cup RequestType]  BY <1>4, <1>5 DEF ProxyInv, RequestInv
  <2> QED  BY <1>8, <2>1 DEF RequestInv
<1>10. CacheInv'
  <2>1. ASSUME NEW j \in DOMAIN cache PROVE EntryOK(j, cache[j])'
    <3>1. EntryOK(j, cache[j]) /\ cache[j].left \in Nat  BY DEF ProxyInv, CacheInv, EntryOK, EntryType
    <3>2. seen'[j] + cache[j].left <= Stale  BY <1>3, <1>7, <3>1 DEF EntryOK, ProxyInv, SeenInv
    <3> QED  BY <1>2, <3>1, <3>2 DEF EntryOK
  <2> QED  BY <1>2, <2>1 DEF ProxyInv, CacheInv
<1> QED  BY <1>2, <1>3, <1>9, <1>10 DEF ProxyInv, CredInv, OutInv, Dead, SeenInv

(* A request ends, and the cache is one whose entries are all worth what they may be. *)
LEMMA CacheStep ==
  ASSUME ProxyInv, NEW r \in Requests, req' = [req EXCEPT ![r] = Idle],
         UNCHANGED <<deadline, creds, issuing, seen, out>>,
         IsFiniteSet(DOMAIN cache'), Cardinality(DOMAIN cache') <= CacheMax,
         \A k \in DOMAIN cache' : EntryOK(k, cache'[k])
  PROVE  ProxyInv'
<1>1. RequestOK(Idle)  BY DEF RequestOK, Idle
<1>2. RequestInv'  BY <1>1, RequestMoves
<1>3. CacheInv'
  <2>1. \A k \in DOMAIN cache' : EntryOK(k, cache[k])'  BY DEF EntryOK
  <2> QED  BY <2>1 DEF CacheInv
<1> QED  BY <1>2, <1>3 DEF ProxyInv, CredInv, OutInv, Dead, SeenInv

(* A denial: what is newly out has no entry and no grant under way. *)
LEMMA DenialStep == ASSUME ProxyInv, NEW r \in Requests, ReceiveDenial(r) PROVE ProxyInv'
<1> USE StaleType
<1> DEFINE k == req[r].secret
<1>1. k \in Secrets  BY DEF ReceiveDenial, ProxyInv, RequestInv, RequestType, Idle
<1>2. UNCHANGED <<deadline, creds, issuing, seen>> /\ req' = [req EXCEPT ![r] = Idle]  BY DEF ReceiveDenial
<1>3. out' \subseteq out \cup {k} /\ (k \in out' => k \in out \/ (Dead(k) /\ AloneWith(r, k)))
  BY DEF ReceiveDenial
<1>4. cache' = EvictKey(cache, k)  BY DEF ReceiveDenial, EvictOnDenial
<1> HIDE DEF k
<1>5. RequestInv'
  <2>1. \A s \in Requests : req'[s] = IF s = r THEN Idle ELSE req[s]  BY <1>2 DEF ProxyInv, RequestInv
  <2>2. ASSUME NEW s \in Requests PROVE RequestOK(req[s])'
    <3>1. CASE s = r  BY <2>1, <3>1 DEF RequestOK, Idle
    <3>2. CASE s # r
      <4>1. req'[s] = req[s] /\ RequestOK(req[s])  BY <2>1, <3>2 DEF ProxyInv, RequestInv
      <4>2. req[s].step \in {"verified", "granted"} => req[s].secret \notin out'
        BY <1>3, <3>2, <4>1 DEF RequestOK, AloneWith
      <4> QED  BY <1>2, <4>1, <4>2 DEF RequestOK
    <3> QED  BY <3>1, <3>2
  <2>3. req' \in [Requests -> {Idle} \cup RequestType]  BY <1>2 DEF ProxyInv, RequestInv
  <2> QED  BY <2>2, <2>3 DEF RequestInv
<1>6. CacheInv'
  <2>1. DOMAIN cache' = DOMAIN cache \ {k}  BY <1>4 DEF EvictKey
  <2>2. IsFiniteSet(DOMAIN cache') /\ Cardinality(DOMAIN cache') <= Cardinality(DOMAIN cache)
    BY <2>1, FS_Subset DEF ProxyInv, CacheInv
  <2>3. Cardinality(DOMAIN cache') \in Nat /\ Cardinality(DOMAIN cache) \in Nat
    BY <2>2, FS_CardinalityType DEF ProxyInv, CacheInv
  <2>4. ASSUME NEW j \in DOMAIN cache' PROVE EntryOK(j, cache[j])'
    <3>1. j \in DOMAIN cache /\ j # k /\ j \notin out'  BY <1>3, <2>1 DEF ProxyInv, CacheInv, EntryOK
    <3>2. EntryOK(j, cache[j]) /\ cache[j] \in EntryType  BY <3>1 DEF ProxyInv, CacheInv, EntryOK
    <3>3. cache'[j] = [cache[j] EXCEPT !.after = cache[j].after \ {k}]  BY <1>4, <3>1, <3>2 DEF EvictKey, EntryType
    <3>4. cache'[j] \in EntryType /\ cache'[j].left = cache[j].left  BY <3>2, <3>3 DEF EntryType
    <3> QED  BY <1>2, <3>1, <3>2, <3>4 DEF EntryOK
  <2> QED  BY <2>2, <2>3, <2>4 DEF ProxyInv, CacheInv
<1>7. OutInv'  BY <1>1, <1>2, <1>3 DEF ProxyInv, OutInv, Dead
<1> QED  BY <1>2, <1>5, <1>6, <1>7 DEF ProxyInv, CredInv, SeenInv

(* A grant: its entry ends with the credential and with the window that began at the verify. *)
LEMMA GrantStep == ASSUME ProxyInv, NEW r \in Requests, ReceiveGrant(r) PROVE ProxyInv'
<1> USE StaleType
<1> DEFINE k == req[r].secret
           u == req[r].until
           e == Less(u, NodeAge)
<1>1. k \in Secrets /\ u \in Nat /\ req[r].age \in 0 .. UpTimeout
  BY DEF ReceiveGrant, ProxyInv, RequestInv, RequestType, Idle
<1>2. seen[k] <= req[r].age /\ k \notin out /\ u <= creds[k].left /\ u <= CpAge
  BY DEF ReceiveGrant, ProxyInv, RequestInv, RequestOK
<1>3. /\ req' = [req EXCEPT ![r] = Idle] /\ UNCHANGED <<deadline, creds, issuing, seen, out>>
      /\ cache' \in IF e = 0 THEN {cache} ELSE Prune(MoveToEnd(cache, k, e))
  BY DEF ReceiveGrant, Store
<1> HIDE DEF k, u
<1>4. seen[k] \in Nat /\ creds[k].left \in Nat  BY <1>1 DEF ProxyInv, SeenInv, CredInv, CredType
<1>5. e \in Nat /\ e <= creds[k].left /\ seen[k] + e <= Stale  BY <1>1, <1>2, <1>4 DEF Less
<1> HIDE DEF e
<1>6. /\ IsFiniteSet(DOMAIN cache) /\ Cardinality(DOMAIN cache) <= CacheMax
      /\ \A j \in DOMAIN cache : EntryOK(j, cache[j])
  BY DEF ProxyInv, CacheInv
<1>7. CASE e = 0
  <2>1. cache' = cache  BY <1>3, <1>7
  <2> QED  BY <1>3, <1>6, <2>1, CacheStep
<1>8. CASE e # 0
  <2> DEFINE m == MoveToEnd(cache, k, e)
  <2>1. EntryOK(k, [left |-> e, after |-> {}])  BY <1>1, <1>2, <1>5 DEF EntryOK, EntryType
  <2>2. IsFiniteSet(DOMAIN m) /\ \A j \in DOMAIN m : EntryOK(j, m[j])
    BY <1>1, <1>5, <1>6, <2>1, MovedEntries
  <2>3. cache' \in Prune(m)  BY <1>3, <1>8
  <2> HIDE DEF m
  <2>4. /\ IsFiniteSet(DOMAIN cache') /\ Cardinality(DOMAIN cache') <= CacheMax
        /\ \A j \in DOMAIN cache' : EntryOK(j, cache'[j])
    BY <2>2, <2>3, PruneKeeps
  <2> QED  BY <1>3, <2>4, CacheStep
<1> QED  BY <1>7, <1>8

(* No answer: what the cache still has decides. *)
LEMMA FallbackSteps ==
  ASSUME ProxyInv, NEW r \in Requests
  PROVE  /\ FallbackGrant(r) \/ FallbackRefuse(r) => ProxyInv'
         /\ FallbackGrant(r) => seen[req[r].secret] < Stale /\ creds[req[r].secret].left > 0
<1> USE StaleType
<1> DEFINE k == req[r].secret
<1>1. /\ IsFiniteSet(DOMAIN cache) /\ Cardinality(DOMAIN cache) <= CacheMax
      /\ \A j \in DOMAIN cache : EntryOK(j, cache[j])
  BY DEF ProxyInv, CacheInv
<1>2. ASSUME FallbackRefuse(r) PROVE ProxyInv'
  <2>1. cache' \in Prune(cache)  BY <1>2 DEF FallbackRefuse
  <2>2. /\ IsFiniteSet(DOMAIN cache') /\ Cardinality(DOMAIN cache') <= CacheMax
        /\ \A j \in DOMAIN cache' : EntryOK(j, cache'[j])
    BY <1>1, <2>1, PruneKeeps
  <2>3. req' = [req EXCEPT ![r] = Idle] /\ UNCHANGED <<deadline, creds, issuing, seen, out>>
    BY <1>2 DEF FallbackRefuse
  <2> QED  BY <2>2, <2>3, CacheStep
<1>3. ASSUME FallbackGrant(r) PROVE ProxyInv' /\ seen[k] < Stale /\ creds[k].left > 0
  <2>1. PICK c \in Prune(cache) : k \in DOMAIN c /\ cache' = MoveToEnd(c, k, c[k].left)
    BY <1>3 DEF FallbackGrant
  <2>2. req' = [req EXCEPT ![r] = Idle] /\ UNCHANGED <<deadline, creds, issuing, seen, out>>
    BY <1>3 DEF FallbackGrant
  <2>3. /\ IsFiniteSet(DOMAIN c) /\ Cardinality(DOMAIN c) <= CacheMax
        /\ \A j \in DOMAIN c : EntryOK(j, c[j]) /\ c[j].left > 0
    BY <1>1, <2>1, PruneKeeps
  <2> DEFINE n == c[k].left
  <2>4. /\ k \in Secrets /\ n \in Nat /\ n > 0 /\ n <= creds[k].left /\ seen[k] + n <= Stale /\ k \notin out
    BY <2>1, <2>3 DEF EntryOK, EntryType
  <2>5. cache' = MoveToEnd(c, k, n) /\ k \in DOMAIN c  BY <2>1
  <2> HIDE DEF n, k
  <2>6. EntryOK(k, [left |-> n, after |-> {}])  BY <2>4 DEF EntryOK, EntryType
  <2>7. /\ IsFiniteSet(DOMAIN MoveToEnd(c, k, n)) /\ DOMAIN MoveToEnd(c, k, n) = DOMAIN c \cup {k}
        /\ \A j \in DOMAIN MoveToEnd(c, k, n) : EntryOK(j, MoveToEnd(c, k, n)[j])
    BY <2>3, <2>4, <2>6, MovedEntries
  <2>8. DOMAIN c \cup {k} = DOMAIN c  BY <2>5
  <2>9. /\ IsFiniteSet(DOMAIN cache') /\ Cardinality(DOMAIN cache') <= CacheMax
        /\ \A j \in DOMAIN cache' : EntryOK(j, cache'[j])
    BY <2>3, <2>5, <2>7, <2>8
  <2>10. ProxyInv'  BY <2>2, <2>9, CacheStep
  <2>11. seen[k] \in Nat /\ creds[k].left \in Nat  BY <2>4 DEF ProxyInv, SeenInv, CredInv, CredType
  <2>12. seen[k] < Stale /\ creds[k].left > 0  BY <2>4, <2>11
  <2> QED  BY <2>10, <2>12 DEF k
<1> QED  BY <1>2, <1>3

LEMMA RestartStep == ASSUME ProxyInv, ProxyRestart PROVE ProxyInv'
<1>1. RequestInv'  BY DEF ProxyRestart, RequestInv, RequestOK, Idle
<1>2. CacheInv'
  <2>1. DOMAIN cache' = {}  BY DEF ProxyRestart, EmptyCache
  <2>2. IsFiniteSet({}) /\ Cardinality({}) = 0  BY FS_EmptySet
  <2> QED  BY <2>1, <2>2, StaleType DEF CacheInv
<1> QED  BY <1>1, <1>2 DEF ProxyRestart, ProxyInv, CredInv, OutInv, Dead, SeenInv

LEMMA DecFacts ==
  ASSUME NEW m \in Nat, NEW n \in Nat
  PROVE  /\ Dec(m) \in Nat /\ Dec(m) <= m /\ (m = 0 => Dec(m) = 0) /\ (m > 0 => Dec(m) = m - 1)
         /\ m <= n => Dec(m) <= Dec(n)
  BY DEF Dec

(* A tick takes the same from a credential, from its entry and from a grant under way. *)
LEMMA TickStep == ASSUME ProxyInv, Tick PROVE ProxyInv'
<1> USE StaleType
<1>1. ASSUME NEW k \in Secrets
      PROVE  /\ creds[k].left \in Nat /\ creds'[k] \in CredType
             /\ creds'[k].state = creds[k].state /\ creds'[k].left = Dec(creds[k].left)
  <2>1. creds[k] \in CredType  BY DEF ProxyInv, CredInv
  <2>2. creds[k].left \in Nat /\ Dec(creds[k].left) \in Nat  BY <2>1, DecFacts DEF CredType
  <2>3. creds'[k] = [creds[k] EXCEPT !.left = Dec(creds[k].left)]  BY <2>1 DEF Tick, CredType
  <2> QED  BY <2>1, <2>2, <2>3 DEF CredType
<1>2. deadline' = Dec(deadline) /\ deadline \in Nat /\ deadline' \in Nat  BY DecFacts DEF Tick, ProxyInv, CredInv
<1>3. CredInv'
  <2>1. creds' \in [Secrets -> CredType]
    <3>1. creds' = [k \in Secrets |-> creds'[k]]  BY DEF Tick
    <3> QED  BY <1>1, <3>1
  <2>2. issuing' \in {NoIssue} \cup [step : {"write"}, left : Nat] /\ (issuing'.step = "write" => issuing'.left <= deadline')
    <3>1. CASE issuing = NoIssue  BY <3>1 DEF Tick, AgeIssue, NoIssue
    <3>2. CASE issuing # NoIssue
      <4>1. issuing \in [step : {"write"}, left : Nat] /\ issuing.left <= deadline  BY <3>2 DEF ProxyInv, CredInv
      <4>2. Dec(issuing.left) \in Nat /\ Dec(issuing.left) <= Dec(deadline)  BY <1>2, <4>1, DecFacts
      <4>3. issuing' = [issuing EXCEPT !.left = Dec(issuing.left)]  BY <3>2, <4>1 DEF Tick, AgeIssue
      <4> QED  BY <1>2, <4>1, <4>2, <4>3
    <3> QED  BY <3>1, <3>2
  <2>3. \A k \in Secrets : creds'[k].left <= deadline' /\ (creds'[k].state = "none" => creds'[k].left = 0)
    BY <1>1, <1>2, DecFacts DEF ProxyInv, CredInv
  <2>4. \A k, j \in Secrets : creds'[k].state = "active" /\ creds'[j].state = "active" => k = j
    BY <1>1 DEF ProxyInv, CredInv
  <2> QED  BY <1>2, <2>1, <2>2, <2>3, <2>4 DEF CredInv
<1>4. ASSUME NEW k \in Secrets
      PROVE  seen[k] \in Nat /\ seen'[k] \in 0 .. Stale /\ seen'[k] <= seen[k] + 1
  BY DEF Tick, ProxyInv, SeenInv, Less
<1>5. SeenInv'
  <2>1. seen' = [k \in Secrets |-> seen'[k]]  BY DEF Tick
  <2> QED  BY <1>4, <2>1 DEF SeenInv
<1>6. CacheInv'
  <2>1. DOMAIN cache' = DOMAIN cache  BY DEF Tick
  <2>2. ASSUME NEW k \in DOMAIN cache PROVE EntryOK(k, cache[k])'
    <3> DEFINE n == cache[k].left
    <3>1. EntryOK(k, cache[k]) /\ k \in Secrets /\ cache[k] \in EntryType /\ n \in Nat
      BY DEF ProxyInv, CacheInv, EntryOK, EntryType
    <3>2. cache'[k] = [cache[k] EXCEPT !.left = Dec(n)]  BY <3>1 DEF Tick, EntryType
    <3>3. Dec(n) \in Nat /\ (n = 0 => Dec(n) = 0) /\ (n > 0 => Dec(n) = n - 1)  BY <3>1, DecFacts
    <3>4. cache'[k] \in EntryType /\ cache'[k].left = Dec(n)  BY <3>1, <3>2, <3>3 DEF EntryType
    <3>5. Dec(n) <= creds'[k].left  BY <1>1, <3>1, DecFacts DEF EntryOK
    <3>6. seen[k] + n <= Stale  BY <3>1 DEF EntryOK
    <3> HIDE DEF n
    <3>7. seen'[k] + Dec(n) <= Stale  BY <1>4, <3>1, <3>3, <3>6
    <3>8. k \notin out'  BY <3>1 DEF EntryOK, Tick
    <3> QED  BY <3>1, <3>4, <3>5, <3>7, <3>8 DEF EntryOK
  <2> QED  BY <2>1, <2>2 DEF ProxyInv, CacheInv
<1>7. RequestInv'
  <2>1. ASSUME NEW r \in Requests PROVE req'[r] \in {Idle} \cup RequestType /\ RequestOK(req[r])'
    <3>1. req'[r] = AgeRequest(req[r]) /\ RequestOK(req[r]) /\ out' = out  BY DEF Tick, ProxyInv, RequestInv
    <3>2. CASE req[r].step \in {"asked", "checked", "verified", "denied"}
      <4>1. req[r] \in [step : {"asked", "checked", "verified", "denied"}, secret : Secrets, age : 0 .. UpTimeout]
        BY <3>2 DEF ProxyInv, RequestInv, RequestType, Idle
      <4>2. req[r].age < UpTimeout /\ req[r].age \in Nat  BY <3>2, <4>1 DEF Tick
      <4> DEFINE l == [req[r] EXCEPT !.age = req[r].age + 1]
      <4>3. req'[r] = l  BY <3>1, <3>2, <4>1 DEF AgeRequest
      <4>4. /\ l \in RequestType /\ l.step = req[r].step /\ l.secret = req[r].secret /\ l.age = req[r].age + 1
            /\ l.secret \in Secrets
        BY <4>1, <4>2 DEF RequestType
      <4> HIDE DEF l
      <4>5. l.step = "verified" => seen'[l.secret] <= l.age /\ l.secret \notin out
        BY <1>4, <3>1, <4>2, <4>4 DEF RequestOK
      <4>6. l.step # "granted"  BY <3>2, <4>4
      <4> QED  BY <3>1, <4>3, <4>4, <4>5, <4>6 DEF RequestOK
    <3>3. CASE req[r].step = "granted"
      <4>1. req[r] \in [step : {"granted"}, secret : Secrets, age : 0 .. UpTimeout, until : Nat]
        BY <3>3 DEF ProxyInv, RequestInv, RequestType, Idle
      <4>2. req[r].age < UpTimeout /\ req[r].age \in Nat  BY <3>3, <4>1 DEF Tick
      <4> DEFINE u == Dec(req[r].until)
                 a == req[r].age + 1
                 l == [step |-> "granted", secret |-> req[r].secret, age |-> a, until |-> u]
      <4>3. req'[r] = l
        <5>1. req'[r] = [req[r] EXCEPT !.age = a, !.until = u]  BY <3>1, <3>3, <4>1 DEF AgeRequest
        <5> HIDE DEF a, u
        <5> QED  BY <4>1, <5>1
      <4>4. u \in Nat /\ u <= req[r].until /\ u <= creds'[req[r].secret].left
        BY <1>1, <3>1, <3>3, <4>1, DecFacts DEF RequestOK
      <4> HIDE DEF u
      <4>5. /\ l \in RequestType /\ l.step = "granted" /\ l.secret = req[r].secret /\ l.age = req[r].age + 1
            /\ l.until = u /\ l.secret \in Secrets
        <5>1. a \in 0 .. UpTimeout  BY <4>2
        <5> HIDE DEF a
        <5>2. l \in RequestType  BY <4>1, <4>4, <5>1 DEF RequestType
        <5> QED  BY <4>1, <5>2 DEF a
      <4> HIDE DEF l
      <4>6. seen'[l.secret] <= l.age /\ l.secret \notin out
        BY <1>4, <3>1, <3>3, <4>2, <4>5 DEF RequestOK
      <4>7. l.until <= creds'[l.secret].left /\ l.until <= CpAge
        BY <3>1, <3>3, <4>1, <4>4, <4>5 DEF RequestOK
      <4> QED  BY <3>1, <4>3, <4>5, <4>6, <4>7 DEF RequestOK
    <3>4. CASE req[r].step \notin {"asked", "checked", "verified", "denied", "granted"}
      <4>1. req'[r] = req[r] /\ req[r] \in {Idle} \cup RequestType
        BY <3>1, <3>4 DEF AgeRequest, ProxyInv, RequestInv
      <4> QED  BY <3>4, <4>1 DEF RequestOK
    <3> QED  BY <3>2, <3>3, <3>4
  <2>2. req' = [r \in Requests |-> req'[r]]  BY DEF Tick
  <2>3. req' \in [Requests -> {Idle} \cup RequestType]  BY <2>1, <2>2
  <2> QED  BY <2>1, <2>3 DEF RequestInv
<1>8. OutInv'
  <2>1. out' = out  BY DEF Tick
  <2> QED  BY <1>1, <2>1, DecFacts DEF ProxyInv, OutInv, Dead
<1> QED  BY <1>3, <1>5, <1>6, <1>7, <1>8 DEF ProxyInv

LEMMA ProxyStep == ASSUME ProxyInv, [ProxyNext]_proxyVars PROVE ProxyInv'
<1>1. CASE UNCHANGED proxyVars
  BY <1>1 DEF proxyVars, ProxyInv, CredInv, RequestInv, RequestOK, CacheInv, EntryOK, OutInv, Dead, SeenInv
<1> QED
  BY <1>1, IssueSteps, RestartStep, TickStep, AskSteps, VerifyStep, DenialStep, GrantStep, FallbackSteps DEF ProxyNext

(* The relay: a read that was let in has looked before, so the limit is passed by the others only. *)
RelayInv ==
  /\ readers \in Nat /\ reading \subseteq Requests
  /\ readers + Cardinality(reading) <= MaxReaders + Cardinality(Requests) - 1

LEMMA RelayStep == ASSUME RelayInv, [RelayNext]_relayVars PROVE RelayInv'
<1>1. IsFiniteSet(reading) /\ IsFiniteSet(Requests)  BY ProxyAssumption, FS_Subset DEF RelayInv
<1>2. Cardinality(reading) \in Nat /\ Cardinality(Requests) \in Nat /\ MaxReaders \in Nat
  BY <1>1, ProxyAssumption, FS_CardinalityType
<1>3. ASSUME NEW r \in Requests, AskRead(r) PROVE RelayInv'
  <2>1. reading' \subseteq Requests  BY <1>3 DEF AskRead, RelayInv
  <2>2. Cardinality(reading') <= Cardinality(Requests)  BY <1>1, <2>1, FS_Subset
  <2>3. IsFiniteSet(reading')  BY <1>1, <2>1, FS_Subset
  <2>4. Cardinality(reading') \in Nat  BY <2>3, FS_CardinalityType
  <2>5. readers' = readers /\ readers < MaxReaders  BY <1>3 DEF AskRead, ReadAdmitted
  <2> QED  BY <1>2, <2>1, <2>2, <2>4, <2>5 DEF RelayInv
<1>4. ASSUME NEW r \in Requests, EndRead(r) PROVE RelayInv'
  <2>1. r \in reading /\ reading' = reading \ {r} /\ readers' \in {readers, readers + 1}  BY <1>4 DEF EndRead
  <2>2. Cardinality(reading') = Cardinality(reading) - 1  BY <1>1, <2>1, FS_RemoveElement
  <2> QED  BY <1>2, <2>1, <2>2 DEF RelayInv
<1>5. CASE ReaderLeaves  BY <1>2, <1>5 DEF ReaderLeaves, RelayInv
<1>6. CASE UNCHANGED relayVars  BY <1>6 DEF relayVars, RelayInv
<1> QED  BY <1>3, <1>4, <1>5, <1>6 DEF RelayNext

(***************************************************************************)
(* Node-local authorization, for every set of secrets and requests and all  *)
(* its times and bounds: one credential is active and the deadline bounds   *)
(* it, an outage grant follows an answer of the Control API within the      *)
(* stale window and before the credential's end, a secret that was denied   *)
(* stays out of the cache, and the relay's readers are bounded.             *)
(***************************************************************************)
THEOREM ProxyHolds == ProxySpec /\ RelaySpec => ProxyPromise
<1>1. ProxyInit => ProxyInv  BY ProxyInitial
<1>2. ProxyInv /\ [ProxyNext]_proxyVars => ProxyInv'  BY ProxyStep
<1>3. ProxyInv => CredentialsBounded
  BY DEF ProxyInv, CredInv, CacheInv, CredentialsBounded
<1>4. ProxyInv => DeniedStaysOut
  BY DEF ProxyInv, CacheInv, EntryOK, DeniedStaysOut
<1>5. ProxyInv /\ [ProxyNext]_proxyVars =>
        [\A r \in Requests : FallbackGrant(r)
           => seen[req[r].secret] < Stale /\ creds[req[r].secret].left > 0]_proxyVars
  BY FallbackSteps
<1>6. RelayInit => RelayInv
  <2>1. Cardinality({}) = 0 /\ Cardinality(Requests) \in Nat
    BY ProxyAssumption, FS_EmptySet, FS_CardinalityType
  <2> QED  BY <2>1, ProxyAssumption DEF RelayInit, RelayInv
<1>7. RelayInv /\ [RelayNext]_relayVars => RelayInv'  BY RelayStep
<1>8. RelayInv => ReadersBounded
  <2> SUFFICES ASSUME RelayInv PROVE ReadersBounded  OBVIOUS
  <2>1. IsFiniteSet(reading)  BY ProxyAssumption, FS_Subset DEF RelayInv
  <2>2. Cardinality(reading) \in Nat /\ Cardinality(Requests) \in Nat  BY <2>1, ProxyAssumption, FS_CardinalityType
  <2> QED  BY <2>2, ProxyAssumption DEF RelayInv, ReadersBounded
<1> QED
  BY <1>1, <1>2, <1>3, <1>4, <1>5, <1>6, <1>7, <1>8, PTL DEF ProxySpec, RelaySpec, ProxyPromise, GrantIsRecent

-----------------------------------------------------------------------------
(***************************************************************************)
(* IngestAuthGuard.  Once a bucket is locked nobody new passes the check    *)
(* for it, so its failures and the requests that may still add one are      *)
(* bounded together.                                                        *)
(***************************************************************************)
BucketType == [fails : [0 .. Window -> Nat], lock : Nat, unseen : Nat, quiet : Nat]
AttemptType == [step : {"blocked", "verify", "success", "failure"}, ip : Addresses, user : Usernames]

(* A shorter span holds no more failures than a longer one. *)
Nested(b) == \A m, n \in 0 .. Window : m <= n => b.fails[m] <= b.fails[n]

(* The requests that have passed the check and may still record a failure for k. *)
Passed(k) == {a \in Attempts : /\ attempt[a].step \in {"verify", "success", "failure"}
                               /\ k \in {attempt[a].ip, attempt[a].user}}

(* A bucket with room is not locked; in a locked one every failure beyond the limit was
   recorded by a request that had passed before, and each of those records one. *)
BucketOK(k) ==
  /\ Nested(buckets[k])
  /\ buckets[k].lock = 0 => Failures(buckets[k]) < Limit(k)
  /\ buckets[k].lock > 0 =>
       Failures(buckets[k]) + Cardinality(Passed(k)) <= Limit(k) + Cardinality(Attempts) - 1

GuardTypeOK ==
  /\ DOMAIN buckets \subseteq BucketKeys /\ IsFiniteSet(DOMAIN buckets)
  /\ buckets \in [DOMAIN buckets -> BucketType]
  /\ attempt \in [Attempts -> {NoAttempt} \cup AttemptType]

GuardInv ==
  /\ GuardTypeOK
  /\ Cardinality(DOMAIN buckets) <= BucketLimit
  /\ \A k \in DOMAIN buckets : BucketOK(k)

-----------------------------------------------------------------------------
LEMMA GuardConstants ==
  /\ Window \in Nat /\ BlockedInterval \in Nat
  /\ BucketLimit \in Nat \ {0} /\ Lockout \in Nat \ {0}
  /\ \A k : Limit(k) \in Nat \ {0}
  /\ IsFiniteSet(Attempts) /\ Cardinality(Attempts) \in Nat
<1>1. IsFiniteSet(Attempts) /\ Cardinality(Attempts) \in Nat
  BY GuardAssumption, FS_CardinalityType
<1> QED BY <1>1, GuardAssumption DEF Limit

LEMMA PassedFinite ==
  ASSUME NEW k
  PROVE  /\ IsFiniteSet(Passed(k)) /\ Cardinality(Passed(k)) \in Nat
         /\ Cardinality(Passed(k)) <= Cardinality(Attempts)
<1>1. Passed(k) \subseteq Attempts
  BY DEF Passed
<1> QED BY <1>1, GuardConstants, FS_Subset, FS_CardinalityType

(* A bucket is kept, and the requests that had passed for it have become no more. *)
LEMMA BucketKept ==
  ASSUME GuardInv, NEW k, k \in DOMAIN buckets, k \in DOMAIN buckets',
         buckets'[k].fails = buckets[k].fails, buckets'[k].lock = buckets[k].lock,
         buckets[k].lock > 0 => Passed(k)' \subseteq Passed(k)
  PROVE  BucketOK(k)'
<1>1. BucketOK(k) /\ buckets[k] \in BucketType
  BY DEF GuardInv, GuardTypeOK
<1>2. Nested(buckets[k])' /\ Failures(buckets[k])' = Failures(buckets[k])
  BY <1>1 DEF BucketOK, Nested, Failures
<1>3. buckets[k].lock > 0 => Cardinality(Passed(k)') <= Cardinality(Passed(k)) /\ Cardinality(Passed(k)') \in Nat
  BY PassedFinite, FS_Subset, FS_CardinalityType
<1>4. Failures(buckets[k]) \in Nat
  BY <1>1, GuardConstants DEF Failures, BucketType
<1> HIDE DEF Passed
<1> QED BY <1>1, <1>2, <1>3, <1>4, PassedFinite, GuardConstants DEF BucketOK

(* A failure more, for any bucket. *)
LEMMA FailedFacts ==
  ASSUME NEW k, NEW b \in BucketType, Nested(b)
  PROVE  /\ Failed(k, b) \in BucketType /\ Nested(Failed(k, b)) /\ Failed(k, b).unseen = 0
         /\ Failures(Failed(k, b)) = Failures(b) + 1
         /\ b.lock > 0 => Failed(k, b).lock = b.lock
         /\ b.lock = 0 => Failed(k, b).lock = IF Failures(b) + 1 >= Limit(k) THEN Lockout ELSE 0
<1> DEFINE fs == [n \in 0 .. Window |-> b.fails[n] + 1]
           f == [b EXCEPT !.fails = fs, !.unseen = 0]
<1>1. \A n \in 0 .. Window : b.fails[n] \in Nat
  BY DEF BucketType
<1>2. /\ f \in BucketType /\ f.unseen = 0 /\ f.lock = b.lock
      /\ \A n \in 0 .. Window : f.fails[n] = b.fails[n] + 1
  <2>1. fs \in [0 .. Window -> Nat] /\ \A n \in 0 .. Window : fs[n] = b.fails[n] + 1
    BY <1>1
  <2> HIDE DEF fs
  <2>2. f \in BucketType /\ f.unseen = 0 /\ f.lock = b.lock /\ f.fails = fs
    BY <2>1 DEF BucketType
  <2> QED BY <2>1, <2>2
<1>3. Failed(k, b) = IF b.lock = 0 /\ Failures(f) >= Limit(k) THEN [f EXCEPT !.lock = Lockout] ELSE f
  BY DEF Failed
<1> HIDE DEF f, fs
<1>4. Failures(f) = Failures(b) + 1 /\ Failures(b) \in Nat
  BY <1>1, <1>2, GuardConstants DEF Failures
<1>5. Nested(f)
  BY <1>1, <1>2 DEF Nested
<1>6. CASE b.lock = 0 /\ Failures(f) >= Limit(k)
  <2> DEFINE g == [f EXCEPT !.lock = Lockout]
  <2>1. g \in BucketType /\ g.fails = f.fails /\ g.unseen = 0 /\ g.lock = Lockout
    BY <1>2, GuardConstants DEF BucketType
  <2>2. Failed(k, b) = g
    BY <1>3, <1>6
  <2> HIDE DEF g
  <2> QED BY <1>4, <1>5, <1>6, <2>1, <2>2 DEF Nested, Failures
<1>7. CASE ~(b.lock = 0 /\ Failures(f) >= Limit(k))
  <2>1. Failed(k, b) = f
    BY <1>3, <1>7
  <2> QED BY <1>2, <1>4, <1>5, <1>7, <2>1
<1> QED BY <1>6, <1>7

LEMMA NewBucketFacts == NewBucket \in BucketType /\ Nested(NewBucket) /\ NewBucket.lock = 0 /\ Failures(NewBucket) = 0
  BY GuardConstants DEF NewBucket, BucketType, Nested, Failures

(* A tick more: no count grows, and the end of a lockout leaves none. *)
LEMMA PrunedFacts ==
  ASSUME NEW b \in BucketType, Nested(b)
  PROVE  /\ Pruned(b) \in BucketType /\ Nested(Pruned(b))
         /\ Failures(Pruned(b)) \in Nat /\ Failures(Pruned(b)) <= Failures(b)
         /\ b.lock = 1 => Failures(Pruned(b)) = 0
         /\ Pruned(b).lock = IF b.lock = 0 THEN 0 ELSE b.lock - 1
<1>1. \A n \in 0 .. Window : b.fails[n] \in Nat /\ (n # 0 => n - 1 \in 0 .. Window /\ b.fails[n - 1] \in Nat)
  BY GuardConstants DEF BucketType
<1>2. /\ Pruned(b) \in BucketType
      /\ Pruned(b).lock = IF b.lock = 0 THEN 0 ELSE b.lock - 1
      /\ \A n \in 0 .. Window : Pruned(b).fails[n] = IF n = 0 \/ b.lock = 1 THEN 0 ELSE b.fails[n - 1]
  <2> DEFINE p == Pruned(b)
             fs == [n \in 0 .. Window |-> IF n = 0 \/ b.lock = 1 THEN 0 ELSE b.fails[n - 1]]
             lk == IF b.lock = 0 THEN 0 ELSE b.lock - 1
             un == IF b.unseen < Window + Lockout THEN b.unseen + 1 ELSE b.unseen
             qu == IF b.quiet < BlockedInterval THEN b.quiet + 1 ELSE b.quiet
  <2>1. p = [fails |-> fs, lock |-> lk, unseen |-> un, quiet |-> qu]
    BY DEF Pruned
  <2>2. fs \in [0 .. Window -> Nat]
    BY <1>1
  <2>3. lk \in Nat /\ un \in Nat /\ qu \in Nat
    BY GuardConstants DEF BucketType
  <2>4. \A n \in 0 .. Window : fs[n] = IF n = 0 \/ b.lock = 1 THEN 0 ELSE b.fails[n - 1]
    OBVIOUS
  <2> HIDE DEF fs, un, qu, p
  <2>5. p \in BucketType /\ p.lock = lk /\ p.fails = fs
    BY <2>1, <2>2, <2>3 DEF BucketType
  <2> QED BY <2>4, <2>5 DEF p
<1>3. Nested(Pruned(b))
  <2> SUFFICES ASSUME NEW m \in 0 .. Window, NEW n \in 0 .. Window, m <= n
               PROVE  Pruned(b).fails[m] <= Pruned(b).fails[n]
    BY DEF Nested
  <2>1. CASE m = 0 \/ b.lock = 1
    BY <1>1, <1>2, <2>1
  <2>2. CASE m # 0 /\ b.lock # 1
    <3>1. n # 0 /\ m - 1 \in 0 .. Window /\ n - 1 \in 0 .. Window /\ m - 1 <= n - 1
      BY <2>2, GuardConstants
    <3>2. b.fails[m - 1] <= b.fails[n - 1]
      BY <3>1 DEF Nested
    <3> QED BY <1>2, <2>2, <3>1, <3>2
  <2> QED BY <2>1, <2>2
<1>4. /\ Failures(Pruned(b)) \in Nat /\ Failures(Pruned(b)) <= Failures(b)
      /\ b.lock = 1 => Failures(Pruned(b)) = 0
  <2>1. Window \in 0 .. Window
    BY GuardConstants
  <2>2. CASE Window = 0 \/ b.lock = 1
    BY <1>1, <1>2, <2>1, <2>2 DEF Failures
  <2>3. CASE Window # 0 /\ b.lock # 1
    <3>1. Window - 1 \in 0 .. Window /\ Window - 1 <= Window
      BY <2>3, GuardConstants
    <3>2. b.fails[Window - 1] <= b.fails[Window]
      BY <2>1, <3>1 DEF Nested
    <3> QED BY <1>1, <1>2, <2>1, <2>3, <3>1, <3>2 DEF Failures
  <2> QED BY <2>2, <2>3
<1> QED BY <1>2, <1>3, <1>4

(* Compaction keeps the table within its limit, and what it drops was seen no later
   than anything it keeps. *)
LEMMA CompactionFacts ==
  ASSUME NEW D, IsFiniteSet(D), NEW t \in [D -> BucketType], NEW u \in Compactions(t)
  PROVE  /\ DOMAIN u \subseteq D /\ IsFiniteSet(DOMAIN u) /\ u \in [DOMAIN u -> BucketType]
         /\ \A k \in DOMAIN u : u[k] = t[k]
         /\ Cardinality(DOMAIN u) <= BucketLimit
         /\ \A k \in D \ DOMAIN u : /\ Cardinality(DOMAIN u) = BucketLimit
                                    /\ \A j \in DOMAIN u : t[j].unseen <= t[k].unseen
<1>1. DOMAIN t = D
  OBVIOUS
<1>2. CASE Cardinality(D) <= BucketLimit
  <2>1. u = t
    BY <1>1, <1>2 DEF Compactions
  <2> QED BY <1>1, <1>2, <2>1
<1>3. CASE ~(Cardinality(D) <= BucketLimit)
  <2>1. PICK K \in kSubset(BucketLimit, D) : /\ u = Restrict(t, K)
                                            /\ \A k \in K, j \in D \ K : t[k].unseen <= t[j].unseen
    BY <1>1, <1>3 DEF Compactions
  <2>2. K \subseteq D /\ Cardinality(K) = BucketLimit
    BY DEF kSubset
  <2>3. IsFiniteSet(K)
    BY <2>2, FS_Subset
  <2>4. DOMAIN u = K /\ \A k \in K : u[k] = t[k]
    BY <2>1 DEF Restrict
  <2>5. u \in [K -> BucketType]
    BY <2>1, <2>2 DEF Restrict
  <2> QED BY <2>1, <2>2, <2>3, <2>4, <2>5, GuardConstants
<1> QED BY <1>2, <1>3

LEMMA GuardInitInv == GuardInit => GuardInv
<1> SUFFICES ASSUME GuardInit PROVE GuardInv
  OBVIOUS
<1>1. DOMAIN buckets = {}
  BY DEF GuardInit
<1>2. IsFiniteSet(DOMAIN buckets) /\ Cardinality(DOMAIN buckets) = 0
  BY <1>1, FS_EmptySet
<1>3. buckets \in [DOMAIN buckets -> BucketType]
  BY DEF GuardInit
<1>4. attempt \in [Attempts -> {NoAttempt} \cup AttemptType]
  BY DEF GuardInit
<1> QED BY <1>1, <1>2, <1>3, <1>4, GuardConstants DEF GuardInv, GuardTypeOK

(* A step that leaves the table: whoever passes for k finds k unlocked. *)
LEMMA TableRests ==
  ASSUME GuardInv, UNCHANGED buckets, attempt' \in [Attempts -> {NoAttempt} \cup AttemptType],
         \A k \in DOMAIN buckets : Locked(k) => Passed(k)' \subseteq Passed(k)
  PROVE  GuardInv'
<1>1. ASSUME NEW k \in DOMAIN buckets' PROVE BucketOK(k)'
  <2>1. k \in DOMAIN buckets /\ (buckets[k].lock > 0 => Passed(k)' \subseteq Passed(k))
    BY DEF Locked
  <2> QED BY <2>1, BucketKept
<1> QED BY <1>1 DEF GuardInv, GuardTypeOK

LEMMA CheckKeepsGuard ==
  ASSUME GuardInv, NEW a \in Attempts, NEW ip \in Addresses, NEW u \in Usernames, Check(a, ip, u)
  PROVE  GuardInv'
<1> DEFINE r == [step |-> IF Blocked(ip, u) THEN "blocked" ELSE "verify", ip |-> ip, user |-> u]
<1>1. attempt' = [attempt EXCEPT ![a] = r] /\ UNCHANGED buckets
  BY DEF Check
<1>2. /\ r \in AttemptType /\ r.ip = ip /\ r.user = u
      /\ r.step = IF Blocked(ip, u) THEN "blocked" ELSE "verify"
  BY DEF AttemptType
<1> HIDE DEF r
<1>3. attempt' \in [Attempts -> {NoAttempt} \cup AttemptType] /\ attempt'[a] = r
      /\ \A x \in Attempts : x # a => attempt'[x] = attempt[x]
  BY <1>1, <1>2 DEF GuardInv, GuardTypeOK
<1>4. ASSUME NEW k \in DOMAIN buckets, Locked(k) PROVE Passed(k)' \subseteq Passed(k)
  <2>1. k \in {ip, u} => r.step = "blocked"
    BY <1>2, <1>4 DEF Blocked
  <2> QED BY <1>2, <1>3, <2>1 DEF Passed
<1> QED BY <1>1, <1>3, <1>4, TableRests

LEMMA VerifiedKeepsGuard ==
  ASSUME GuardInv, NEW a \in Attempts, NEW good \in BOOLEAN, Verified(a, good)
  PROVE  GuardInv'
<1>1. /\ attempt[a].step = "verify" /\ UNCHANGED buckets
      /\ attempt' = [attempt EXCEPT ![a].step = IF good THEN "success" ELSE "failure"]
  BY DEF Verified
<1>2. attempt[a] \in AttemptType
  BY <1>1 DEF GuardInv, GuardTypeOK, NoAttempt
<1>3. /\ attempt' \in [Attempts -> {NoAttempt} \cup AttemptType]
      /\ attempt'[a].ip = attempt[a].ip /\ attempt'[a].user = attempt[a].user
      /\ \A x \in Attempts : x # a => attempt'[x] = attempt[x]
  <2>1. [attempt[a] EXCEPT !.step = IF good THEN "success" ELSE "failure"] \in AttemptType
    BY <1>2 DEF AttemptType
  <2> QED BY <1>1, <1>2, <2>1 DEF GuardInv, GuardTypeOK, AttemptType
<1>4. \A k : Passed(k)' \subseteq Passed(k)
  BY <1>1, <1>3 DEF Passed
<1> QED BY <1>1, <1>3, <1>4, TableRests

(* A request is answered: it is no longer among those that have passed. *)
LEMMA AnsweredPasses ==
  ASSUME GuardInv, NEW a \in Attempts, attempt' = [attempt EXCEPT ![a] = NoAttempt]
  PROVE  /\ attempt' \in [Attempts -> {NoAttempt} \cup AttemptType]
         /\ \A k : Passed(k)' = Passed(k) \ {a}
<1>1. /\ attempt' \in [Attempts -> {NoAttempt} \cup AttemptType] /\ attempt'[a] = NoAttempt
      /\ \A x \in Attempts : x # a => attempt'[x] = attempt[x]
  BY DEF GuardInv, GuardTypeOK
<1> QED BY <1>1 DEF Passed, NoAttempt

LEMMA BlockedKeepsGuard ==
  ASSUME GuardInv, NEW a \in Attempts, RecordBlocked(a)
  PROVE  GuardInv' /\ DOMAIN buckets' = DOMAIN buckets /\ \A k \in DOMAIN buckets : buckets'[k].lock = buckets[k].lock
<1> DEFINE due == {k \in {attempt[a].ip, attempt[a].user} :
                     Locked(k) /\ buckets[k].quiet >= BlockedInterval}
<1>1. /\ buckets' = [k \in DOMAIN buckets |-> IF k \in due THEN [buckets[k] EXCEPT !.quiet = 0] ELSE buckets[k]]
      /\ attempt' = [attempt EXCEPT ![a] = NoAttempt]
  BY DEF RecordBlocked
<1> HIDE DEF due
<1>2. DOMAIN buckets' = DOMAIN buckets
  BY <1>1
<1>3. ASSUME NEW k \in DOMAIN buckets
      PROVE  /\ buckets'[k] \in BucketType /\ buckets'[k].lock = buckets[k].lock
             /\ buckets'[k].fails = buckets[k].fails
  <2>1. buckets[k] \in BucketType
    BY DEF GuardInv, GuardTypeOK
  <2>2. [buckets[k] EXCEPT !.quiet = 0] \in BucketType
    BY <2>1 DEF BucketType
  <2> QED BY <1>1, <2>1, <2>2 DEF BucketType
<1>4. buckets' \in [DOMAIN buckets -> BucketType]
  BY <1>1, <1>2, <1>3
<1>5. \A k \in DOMAIN buckets : BucketOK(k)'
  BY <1>1, <1>2, <1>3, AnsweredPasses, BucketKept
<1> QED BY <1>1, <1>2, <1>3, <1>4, <1>5, AnsweredPasses DEF GuardInv, GuardTypeOK

LEMMA SuccessKeepsGuard ==
  ASSUME GuardInv, NEW a \in Attempts, RecordSuccess(a)
  PROVE  GuardInv' /\ \A k \in DOMAIN buckets : k # attempt[a].user =>
                        k \in DOMAIN buckets' /\ buckets'[k] = buckets[k]
<1>1. /\ buckets' = Restrict(buckets, DOMAIN buckets \ {attempt[a].user})
      /\ attempt' = [attempt EXCEPT ![a] = NoAttempt]
  BY DEF RecordSuccess, Forgiven
<1>2. /\ DOMAIN buckets' = DOMAIN buckets \ {attempt[a].user}
      /\ \A k \in DOMAIN buckets' : buckets'[k] = buckets[k]
  BY <1>1 DEF Restrict
<1>3. buckets' \in [DOMAIN buckets' -> BucketType]
  BY <1>1, <1>2 DEF Restrict, GuardInv, GuardTypeOK
<1>4. IsFiniteSet(DOMAIN buckets') /\ Cardinality(DOMAIN buckets') <= BucketLimit
  <2>1. IsFiniteSet(DOMAIN buckets) /\ Cardinality(DOMAIN buckets) <= BucketLimit /\ DOMAIN buckets' \subseteq DOMAIN buckets
    BY <1>2 DEF GuardInv, GuardTypeOK
  <2>2. /\ IsFiniteSet(DOMAIN buckets') /\ Cardinality(DOMAIN buckets') <= Cardinality(DOMAIN buckets)
        /\ Cardinality(DOMAIN buckets') \in Nat /\ Cardinality(DOMAIN buckets) \in Nat
    BY <2>1, FS_Subset, FS_CardinalityType
  <2> QED BY <2>1, <2>2, GuardConstants
<1>5. \A k \in DOMAIN buckets' : BucketOK(k)'
  BY <1>1, <1>2, AnsweredPasses, BucketKept
<1> QED BY <1>1, <1>2, <1>3, <1>4, <1>5, AnsweredPasses DEF GuardInv, GuardTypeOK

LEMMA CrashKeepsGuard ==
  ASSUME GuardInv, GuardCrash
  PROVE  GuardInv'
<1>1. attempt' = [a \in Attempts |-> NoAttempt] /\ UNCHANGED buckets
  BY DEF GuardCrash
<1>2. \A k : Passed(k)' \subseteq Passed(k)
  BY <1>1 DEF Passed, NoAttempt
<1> QED BY <1>1, <1>2, TableRests

LEMMA TickKeepsGuard ==
  ASSUME GuardInv, GuardTick
  PROVE  /\ GuardInv'
         /\ \A k \in DOMAIN buckets : /\ buckets[k].lock > 1 => k \in DOMAIN buckets' /\ buckets'[k].lock > 0
                                      /\ buckets[k].lock = 1 => k \notin DOMAIN buckets'
<1> DEFINE t == [k \in DOMAIN buckets |-> Pruned(buckets[k])]
           K == {k \in DOMAIN t : Failures(t[k]) > 0 \/ t[k].lock > 0}
<1>1. buckets' = Restrict(t, K) /\ UNCHANGED attempt
  BY DEF GuardTick, Lasting
<1>2. K \subseteq DOMAIN buckets /\ DOMAIN buckets' = K /\ \A k \in K : buckets'[k] = Pruned(buckets[k])
  BY <1>1 DEF Restrict
<1>3. ASSUME NEW k \in DOMAIN buckets
      PROVE  /\ buckets[k] \in BucketType /\ Pruned(buckets[k]) \in BucketType /\ Nested(Pruned(buckets[k]))
             /\ Failures(Pruned(buckets[k])) \in Nat /\ Failures(Pruned(buckets[k])) <= Failures(buckets[k])
             /\ buckets[k].lock = 1 => Failures(Pruned(buckets[k])) = 0
             /\ Pruned(buckets[k]).lock = IF buckets[k].lock = 0 THEN 0 ELSE buckets[k].lock - 1
  <2>1. buckets[k] \in BucketType /\ Nested(buckets[k])
    BY DEF GuardInv, GuardTypeOK, BucketOK
  <2> QED BY <2>1, PrunedFacts
<1>4. ASSUME NEW k \in DOMAIN buckets
      PROVE  /\ buckets[k].lock > 1 => k \in DOMAIN buckets' /\ buckets'[k].lock > 0
             /\ buckets[k].lock = 1 => k \notin DOMAIN buckets'
  <2>1. k \in K <=> Failures(Pruned(buckets[k])) > 0 \/ Pruned(buckets[k]).lock > 0
    OBVIOUS
  <2>2. buckets[k].lock \in Nat
    BY <1>3 DEF BucketType
  <2> HIDE DEF K
  <2> QED BY <1>2, <1>3, <2>1, <2>2
<1> HIDE DEF K
<1>5. buckets' \in [K -> BucketType]
  BY <1>1, <1>2, <1>3 DEF Restrict
<1>6. IsFiniteSet(K) /\ Cardinality(K) <= BucketLimit
  <2>1. IsFiniteSet(DOMAIN buckets) /\ Cardinality(DOMAIN buckets) <= BucketLimit
    BY DEF GuardInv, GuardTypeOK
  <2>2. /\ IsFiniteSet(K) /\ Cardinality(K) <= Cardinality(DOMAIN buckets)
        /\ Cardinality(K) \in Nat /\ Cardinality(DOMAIN buckets) \in Nat
    BY <1>2, <2>1, FS_Subset, FS_CardinalityType
  <2> QED BY <2>1, <2>2, GuardConstants
<1>7. ASSUME NEW k \in K PROVE BucketOK(k)'
  <2>1. /\ k \in DOMAIN buckets /\ buckets'[k] = Pruned(buckets[k]) /\ Passed(k)' = Passed(k)
        /\ BucketOK(k) /\ buckets[k].lock \in Nat /\ Failures(buckets[k]) \in Nat
    <3>1. k \in DOMAIN buckets /\ buckets'[k] = Pruned(buckets[k]) /\ BucketOK(k)
      BY <1>2 DEF GuardInv
    <3>2. Passed(k)' = Passed(k)
      BY <1>1 DEF Passed
    <3>3. buckets[k].lock \in Nat /\ Failures(buckets[k]) \in Nat
      BY <1>3, <3>1, GuardConstants DEF BucketType, Failures
    <3> QED BY <3>1, <3>2, <3>3
  <2>2. Failures(buckets[k])' = Failures(Pruned(buckets[k])) /\ Nested(buckets[k])'
    BY <1>3, <2>1 DEF Failures, Nested
  <2> DEFINE card == Cardinality(Passed(k))
  <2>3. card \in Nat /\ Cardinality(Passed(k))' = card
    BY <2>1, PassedFinite
  <2> HIDE DEF card
  <2>4. /\ buckets[k].lock = 0 => Failures(buckets[k]) < Limit(k)
        /\ buckets[k].lock > 0 => Failures(buckets[k]) + card <= Limit(k) + Cardinality(Attempts) - 1
    BY <2>1 DEF BucketOK, card
  <2>5. /\ buckets'[k].lock = 0 => Failures(Pruned(buckets[k])) < Limit(k)
        /\ buckets'[k].lock > 0 => Failures(Pruned(buckets[k])) + card <= Limit(k) + Cardinality(Attempts) - 1
    BY <1>3, <2>1, <2>3, <2>4, GuardConstants
  <2> QED BY <2>2, <2>3, <2>5 DEF BucketOK
<1> QED BY <1>1, <1>2, <1>4, <1>5, <1>6, <1>7 DEF GuardInv, GuardTypeOK

LEMMA FailureKeepsGuard ==
  ASSUME GuardInv, NEW a \in Attempts, RecordFailure(a)
  PROVE  /\ GuardInv'
         /\ \A k \in DOMAIN buckets :
              \/ k \in DOMAIN buckets' /\ (buckets[k].lock > 0 => buckets'[k].lock > 0)
              \/ /\ Cardinality(DOMAIN buckets') = BucketLimit
                 /\ \A j \in DOMAIN buckets' : j \in DOMAIN buckets => buckets'[j].unseen <= buckets[k].unseen
<1> DEFINE hit == {attempt[a].ip, attempt[a].user}
           old(k) == IF k \in DOMAIN buckets THEN buckets[k] ELSE NewBucket
           D == DOMAIN buckets \cup hit
           t == [k \in D |-> IF k \in hit THEN Failed(k, old(k)) ELSE old(k)]
<1>1. /\ attempt[a].step = "failure" /\ buckets' \in Compactions(t)
      /\ attempt' = [attempt EXCEPT ![a] = NoAttempt]
  BY DEF RecordFailure
<1>2. attempt[a] \in AttemptType
  BY <1>1 DEF GuardInv, GuardTypeOK, NoAttempt
<1>3. D \subseteq BucketKeys /\ IsFiniteSet(D)
  <2>1. hit \subseteq BucketKeys
    BY <1>2 DEF AttemptType, BucketKeys
  <2>2. IsFiniteSet({attempt[a].ip}) /\ IsFiniteSet({attempt[a].user})
    BY FS_Singleton
  <2>3. IsFiniteSet({attempt[a].ip} \cup {attempt[a].user})
    BY <2>2, FS_Union
  <2>4. hit = {attempt[a].ip} \cup {attempt[a].user}
    OBVIOUS
  <2>5. IsFiniteSet(D)
    BY <2>3, <2>4, FS_Union DEF GuardInv, GuardTypeOK
  <2> QED BY <2>1, <2>5 DEF GuardInv, GuardTypeOK
<1>4. ASSUME NEW k \in D
      PROVE  /\ old(k) \in BucketType /\ Nested(old(k)) /\ Failures(old(k)) \in Nat
             /\ old(k).lock = 0 => Failures(old(k)) < Limit(k)
             /\ old(k).lock > 0 => k \in DOMAIN buckets
  <2>1. CASE k \in DOMAIN buckets
    <3>1. buckets[k] \in BucketType /\ BucketOK(k)
      BY <2>1 DEF GuardInv, GuardTypeOK
    <3> QED BY <2>1, <3>1, GuardConstants DEF BucketOK, Failures, BucketType
  <2>2. CASE k \notin DOMAIN buckets
    BY <2>2, NewBucketFacts, GuardConstants
  <2> QED BY <2>1, <2>2
<1>5. ASSUME NEW k \in D
      PROVE  /\ t[k] \in BucketType /\ Nested(t[k])
             /\ k \notin hit => t[k] = old(k)
             /\ k \in hit => /\ Failures(t[k]) = Failures(old(k)) + 1 /\ t[k].unseen = 0
                             /\ old(k).lock > 0 => t[k].lock = old(k).lock
                             /\ old(k).lock = 0 => t[k].lock = IF Failures(old(k)) + 1 >= Limit(k) THEN Lockout ELSE 0
  <2>1. t[k] = IF k \in hit THEN Failed(k, old(k)) ELSE old(k)
    OBVIOUS
  <2>2. old(k) \in BucketType /\ Nested(old(k))
    BY <1>4
  <2> HIDE DEF old, t, hit
  <2> QED BY <2>1, <2>2, FailedFacts
<1>6. t \in [D -> BucketType]
  BY <1>5
<1>7. \A k \in DOMAIN buckets : old(k) = buckets[k]
  OBVIOUS
<1>8. hit = {attempt[a].ip, attempt[a].user}
  OBVIOUS
<1>9. DOMAIN buckets \subseteq D
  OBVIOUS
<1> HIDE DEF t, D, old, hit
<1>10. /\ DOMAIN buckets' \subseteq D /\ IsFiniteSet(DOMAIN buckets') /\ buckets' \in [DOMAIN buckets' -> BucketType]
       /\ \A k \in DOMAIN buckets' : buckets'[k] = t[k]
       /\ Cardinality(DOMAIN buckets') <= BucketLimit
       /\ \A k \in D \ DOMAIN buckets' : /\ Cardinality(DOMAIN buckets') = BucketLimit
                                         /\ \A j \in DOMAIN buckets' : t[j].unseen <= t[k].unseen
  BY <1>1, <1>3, <1>6, CompactionFacts
<1>11. ASSUME NEW k \in DOMAIN buckets' PROVE BucketOK(k)'
  <2>1. k \in D /\ buckets'[k] = t[k] /\ Passed(k)' = Passed(k) \ {a}
    BY <1>1, <1>10, AnsweredPasses
  <2>2. CASE k \notin hit
    <3>1. t[k] = old(k) /\ Passed(k)' \subseteq Passed(k)
      BY <1>5, <2>1, <2>2
    <3>2. CASE k \in DOMAIN buckets
      BY <1>7, <2>1, <3>1, <3>2, BucketKept
    <3>3. CASE k \notin DOMAIN buckets
      <4>1. old(k).lock = 0
        BY <1>4, <2>1, <3>3 DEF BucketType
      <4> QED BY <1>4, <1>5, <2>1, <3>1, <4>1 DEF BucketOK, Failures, Nested
    <3> QED BY <3>2, <3>3
  <2>3. CASE k \in hit
    <3> DEFINE n == Cardinality(Passed(k))
               n1 == Cardinality(Passed(k)')
               all == Cardinality(Attempts)
               f == Failures(old(k))
    <3>1. a \in Passed(k)
      BY <1>1, <1>8, <2>3 DEF Passed
    <3>2. n1 = n - 1 /\ n \in Nat /\ n1 \in Nat /\ n <= all /\ all \in Nat
      <4>1. IsFiniteSet(Passed(k)) /\ n \in Nat /\ n <= all /\ all \in Nat
        BY PassedFinite, GuardConstants
      <4>2. IsFiniteSet(Passed(k) \ {a}) /\ Cardinality(Passed(k) \ {a}) = n - 1
        BY <3>1, <4>1, FS_RemoveElement
      <4>3. n1 \in Nat
        BY <2>1, <4>2, FS_CardinalityType
      <4> QED BY <2>1, <4>1, <4>2, <4>3
    <3>3. /\ Failures(t[k]) = f + 1 /\ f \in Nat /\ old(k).lock \in Nat
          /\ old(k).lock > 0 => t[k].lock = old(k).lock
          /\ old(k).lock = 0 => f < Limit(k) /\ t[k].lock = IF f + 1 >= Limit(k) THEN Lockout ELSE 0
      BY <1>4, <1>5, <2>1, <2>3 DEF BucketType
    <3>4. old(k).lock > 0 => f + n <= Limit(k) + all - 1
      <4>1. old(k).lock > 0 => k \in DOMAIN buckets /\ old(k) = buckets[k] /\ BucketOK(k)
        BY <1>4, <1>7, <2>1 DEF GuardInv
      <4> QED BY <4>1 DEF BucketOK
    <3> HIDE DEF n, n1, all, f
    <3>5. /\ t[k].lock = 0 => f + 1 < Limit(k)
          /\ t[k].lock > 0 => (f + 1) + n1 <= Limit(k) + all - 1
      BY <3>2, <3>3, <3>4, GuardConstants
    <3>6. Failures(buckets[k])' = f + 1 /\ Nested(buckets[k])' /\ (buckets[k].lock)' = t[k].lock
      <4>1. Nested(t[k])
        BY <1>5, <2>1
      <4> QED BY <2>1, <3>3, <4>1 DEF Failures, Nested
    <3> QED BY <2>1, <3>5, <3>6 DEF BucketOK, n1, all
  <2> QED BY <2>2, <2>3
<1>12. GuardInv'
  BY <1>1, <1>3, <1>10, <1>11, AnsweredPasses DEF GuardInv, GuardTypeOK
<1>13. ASSUME NEW k \in DOMAIN buckets
       PROVE  \/ k \in DOMAIN buckets' /\ (buckets[k].lock > 0 => buckets'[k].lock > 0)
              \/ /\ Cardinality(DOMAIN buckets') = BucketLimit
                 /\ \A j \in DOMAIN buckets' : j \in DOMAIN buckets => buckets'[j].unseen <= buckets[k].unseen
  <2>1. k \in D /\ old(k) = buckets[k] /\ buckets[k] \in BucketType
    BY <1>7, <1>9 DEF GuardInv, GuardTypeOK
  <2>2. CASE k \in DOMAIN buckets'
    BY <1>5, <1>10, <2>1, <2>2
  <2>3. CASE k \notin DOMAIN buckets'
    <3>1. t[k].unseen <= buckets[k].unseen /\ t[k].unseen \in Nat /\ buckets[k].unseen \in Nat
      BY <1>5, <2>1 DEF BucketType
    <3>2. \A j \in DOMAIN buckets' : buckets'[j].unseen <= t[k].unseen /\ buckets'[j].unseen \in Nat
      BY <1>5, <1>10, <2>1, <2>3 DEF BucketType
    <3> QED BY <1>10, <2>1, <2>3, <3>1, <3>2
  <2> QED BY <2>2, <2>3
<1> QED BY <1>12, <1>13

LEMMA GuardStep == GuardInv /\ [GuardNext]_guardVars => GuardInv'
<1> SUFFICES ASSUME GuardInv, [GuardNext]_guardVars PROVE GuardInv'
  OBVIOUS
<1>1. ASSUME NEW a \in Attempts, NEW ip \in Addresses, NEW u \in Usernames, Check(a, ip, u) PROVE GuardInv'
  BY <1>1, CheckKeepsGuard
<1>2. ASSUME NEW a \in Attempts, NEW good \in BOOLEAN, Verified(a, good) PROVE GuardInv'
  BY <1>2, VerifiedKeepsGuard
<1>3. ASSUME NEW a \in Attempts, RecordBlocked(a) \/ RecordFailure(a) \/ RecordSuccess(a) PROVE GuardInv'
  BY <1>3, BlockedKeepsGuard, FailureKeepsGuard, SuccessKeepsGuard
<1>4. CASE GuardCrash \/ GuardTick
  BY <1>4, CrashKeepsGuard, TickKeepsGuard
<1>5. CASE UNCHANGED guardVars
  <2>1. UNCHANGED buckets /\ UNCHANGED attempt
    BY <1>5 DEF guardVars
  <2>2. \A k : Passed(k)' = Passed(k)
    BY <2>1 DEF Passed
  <2> QED BY <2>1, <2>2, TableRests DEF GuardInv, GuardTypeOK
<1> QED BY <1>1, <1>2, <1>3, <1>4, <1>5 DEF GuardNext

(* Table and guesses are bounded, a lockout is cut short only by a success of its own name or by
   a full table, and it ends with a clean count (ingest_auth_guard.py), for every number of
   concurrent requests, addresses and limits. *)
THEOREM GuardHolds == GuardSpec => GuardPromise
<1>1. GuardInv => GuessesBounded
  <2> SUFFICES ASSUME GuardInv, NEW k \in DOMAIN buckets
               PROVE  Failures(buckets[k]) <= Limit(k) + Cardinality(Attempts) - 1
    BY DEF GuardInv, GuessesBounded
  <2>1. BucketOK(k) /\ buckets[k].lock \in Nat /\ Failures(buckets[k]) \in Nat
    BY GuardConstants DEF GuardInv, GuardTypeOK, BucketType, Failures
  <2>2. Cardinality(Passed(k)) \in Nat
    BY PassedFinite
  <2> HIDE DEF Passed
  <2> QED BY <2>1, <2>2, GuardConstants DEF BucketOK
<1> DEFINE Free(k) == Locked(k) /\ ~(k \in DOMAIN buckets' /\ buckets'[k].lock > 0)
           Reason(k) == \/ GuardTick /\ buckets[k].lock = 1
                        \/ \E a \in Attempts : RecordSuccess(a) /\ attempt[a].user = k
                        \/ /\ Cardinality(DOMAIN buckets') = BucketLimit
                           /\ \A j \in DOMAIN buckets' : j \in DOMAIN buckets => buckets'[j].unseen <= buckets[k].unseen
<1>2. ASSUME GuardInv, [GuardNext]_guardVars, NEW k \in BucketKeys, Free(k) PROVE Reason(k)
  <2>1. k \in DOMAIN buckets /\ buckets[k].lock > 0 /\ buckets[k].lock \in Nat
    BY <1>2 DEF Locked, GuardInv, GuardTypeOK, BucketType
  <2>2. buckets' # buckets
    BY <1>2, <2>1
  <2>3. CASE GuardTick
    BY <1>2, <2>1, <2>3, TickKeepsGuard
  <2>4. ASSUME NEW a \in Attempts, RecordBlocked(a) PROVE FALSE
    BY <1>2, <2>1, <2>4, BlockedKeepsGuard
  <2>5. ASSUME NEW a \in Attempts, RecordFailure(a) PROVE Reason(k)
    BY <1>2, <2>1, <2>5, FailureKeepsGuard
  <2>6. ASSUME NEW a \in Attempts, RecordSuccess(a) PROVE Reason(k)
    BY <1>2, <2>1, <2>6, SuccessKeepsGuard
  <2> QED BY <1>2, <2>2, <2>3, <2>4, <2>5, <2>6 DEF GuardNext, Check, Verified, GuardCrash, guardVars
<1>3. ASSUME GuardInv, NEW k \in BucketKeys, GuardTick, Free(k) PROVE k \notin DOMAIN buckets'
  <2>1. k \in DOMAIN buckets /\ buckets[k].lock > 0 /\ buckets[k].lock \in Nat
    BY <1>3 DEF Locked, GuardInv, GuardTypeOK, BucketType
  <2> QED BY <1>3, <2>1, TickKeepsGuard
<1>4. GuardSpec => []GuardInv
  BY GuardInitInv, GuardStep, PTL DEF GuardSpec
<1>5. GuardSpec => LockoutLasts
  <2>1. GuardInv /\ [GuardNext]_guardVars =>
          [\A k \in BucketKeys : Locked(k) /\ ~(k \in DOMAIN buckets' /\ buckets'[k].lock > 0) =>
             \/ GuardTick /\ buckets[k].lock = 1
             \/ \E a \in Attempts : RecordSuccess(a) /\ attempt[a].user = k
             \/ /\ Cardinality(DOMAIN buckets') = BucketLimit
                /\ \A j \in DOMAIN buckets' : j \in DOMAIN buckets => buckets'[j].unseen <= buckets[k].unseen
          ]_guardVars
    BY <1>2
  <2> QED BY <1>4, <2>1, PTL DEF GuardSpec, LockoutLasts
<1>6. GuardSpec => FreshAfterLockout
  <2>1. GuardInv /\ [GuardNext]_guardVars =>
          [\A k \in BucketKeys : GuardTick /\ Locked(k) /\ ~(k \in DOMAIN buckets' /\ buckets'[k].lock > 0)
             => k \notin DOMAIN buckets']_guardVars
    BY <1>3
  <2> QED BY <1>4, <2>1, PTL DEF GuardSpec, FreshAfterLockout
<1> QED BY <1>1, <1>4, <1>5, <1>6, PTL DEF GuardPromise
=============================================================================
