-------------------------- MODULE IngestLifecycleProofs --------------------------
(***************************************************************************)
(* Holds, recoveries and health failures of a Session, for every set of    *)
(* sources and every stability window, timeout and grace, zero included.   *)
(***************************************************************************)
EXTENDS IngestLifecycle, TLAPS

(* The record of an observation and the kinds it may have. *)
LEMMA ObservationFacts ==
  /\ Offline \in Observations
  /\ NoObservation \notin Observations
  /\ \A o \in Observations : /\ o.kind \in Kinds \cup {"offline"}
                             /\ o.kind \in Usable => o.src \in Sources
  BY DEF Observations, Offline, NoObservation, Kinds, Usable, Unusable

(* Clocks start at zero, and a tick keeps every age below its cap. *)
LEMMA ClockFacts ==
  ASSUME NEW cap \in Nat
  PROVE  /\ None \in Times(cap) /\ At(0) \in Times(cap)
         /\ ~None.set /\ At(0).set /\ At(0).age = 0
         /\ \A t \in Times(cap) : /\ Older(t, cap) \in Times(cap)
                                  /\ Older(t, cap).set = t.set
                                  /\ t.age \in Nat /\ Older(t, cap).age \in Nat
                                  /\ t.age <= Older(t, cap).age
<1>1. /\ None \in Times(cap) /\ At(0) \in Times(cap)
      /\ ~None.set /\ At(0).set /\ At(0).age = 0
  BY DEF None, At, Times
<1>2. ASSUME NEW t \in Times(cap)
      PROVE  /\ Older(t, cap) \in Times(cap)
             /\ Older(t, cap).set = t.set
             /\ t.age \in Nat /\ Older(t, cap).age \in Nat
             /\ t.age <= Older(t, cap).age
  BY <1>2 DEF Times, Older
<1> QED
  BY <1>1, <1>2

(* Of two clocks the younger stays the younger. *)
LEMMA OlderKeepsOrder ==
  ASSUME NEW cap \in Nat, NEW t \in Times(cap), NEW u \in Times(cap), u.set, t.age <= u.age
  PROVE  Older(t, cap).age <= Older(u, cap).age
  BY DEF Times, Older

LEMMA CapFacts ==
  /\ Stable \in Nat /\ HealthGrace \in Nat /\ Hold \in Nat /\ NoIngest \in Nat
  /\ Hold + 1 \in Nat /\ NoIngest + 1 \in Nat
  BY TimersAssumption

LEMMA CandidateFacts ==
  /\ NoCandidate \in Candidates
  /\ ~NoCandidate.since.set
  /\ \A o \in Observations : o.kind \in Usable => [since |-> At(0), src |-> o.src] \in Candidates
<1>1. None \in Times(Stable) /\ At(0) \in Times(Stable) /\ ~None.set
  BY CapFacts, ClockFacts
<1> QED
  BY <1>1, ObservationFacts DEF Candidates, NoCandidate

(* A run of usable observations is one. *)
LEMMA GoodAfterType ==
  ASSUME NEW g \in Candidates, NEW o \in Observations PROVE GoodAfter(g, o) \in Candidates
  BY CandidateFacts DEF GoodAfter

-----------------------------------------------------------------------------
(* The three outcomes of apply_ingest_observation: the status stays and only the
   recovery candidate may change, the input is lost, or it is usable. *)
Stays(r, o, q) ==
  /\ q.status = r.status
  /\ q = [r EXCEPT !.cand = q.cand]
  /\ q.cand \in Candidates
  /\ r.status = "HOLDING" => q.cand = GoodAfter(r.cand, o)

Loses(r, o, q) ==
  /\ r.status \in {"LIVE", "DEGRADED"}
  /\ o.kind \notin Usable
  /\ q = EnterHold(r)

Gains(r, o, q) ==
  \E s \in {"LIVE", "DEGRADED"} :
    /\ s # r.status
    /\ o.kind \in Usable
    /\ r.status = "HOLDING" => CandidateReady(r, o)
    /\ q = EnterUsable(r, s)

LEMMA ObservedCases ==
  ASSUME NEW r \in SessionType, NEW o \in Observations, r.status \in Active
  PROVE  LET q == Observed(r, o) IN Stays(r, o, q) \/ Loses(r, o, q) \/ Gains(r, o, q)
<1> DEFINE q == Observed(r, o)
<1>a. o.kind \in Kinds \cup {"offline"}
  BY ObservationFacts
<1>b. UsableStatus(o) \in {"LIVE", "DEGRADED"}
  BY DEF UsableStatus
<1>1. CASE Target(r, o) = r.status
  <2>1. q = Stay(r, o)
    BY <1>1 DEF Observed
  <2>2. CASE r.status = "HOLDING" /\ o.kind \in Usable /\ SameCandidate(r, o)
    <3>1. q = r
      BY <2>1, <2>2 DEF Stay
    <3>2. GoodAfter(r.cand, o) = r.cand
      BY <2>2 DEF GoodAfter, SameCandidate
    <3> QED
      BY <3>1, <3>2 DEF Stays, SessionType
  <2>3. CASE r.status = "HOLDING" /\ o.kind \in Usable /\ ~SameCandidate(r, o)
    <3>1. q = [r EXCEPT !.cand = [since |-> At(0), src |-> o.src]]
      BY <2>1, <2>3 DEF Stay, StartCandidate
    <3>2. GoodAfter(r.cand, o) = [since |-> At(0), src |-> o.src]
      BY <2>3 DEF GoodAfter, SameCandidate
    <3>3. q.cand = [since |-> At(0), src |-> o.src] /\ q.status = r.status
      BY <3>1 DEF SessionType
    <3>4. Stays(r, o, q)
      <4> HIDE DEF q
      <4> QED
        BY <2>3, <3>1, <3>2, <3>3, CandidateFacts DEF Stays
    <3> QED
      BY <3>4
  <2>4. CASE ~(r.status = "HOLDING" /\ o.kind \in Usable)
    <3>1. q = [r EXCEPT !.cand = NoCandidate]
      BY <2>1, <2>4 DEF Stay
    <3>2. r.status = "HOLDING" => GoodAfter(r.cand, o) = NoCandidate
      BY <2>4 DEF GoodAfter
    <3>3. q.cand = NoCandidate /\ q.status = r.status
      BY <3>1 DEF SessionType
    <3>4. Stays(r, o, q)
      <4> HIDE DEF q
      <4> QED
        BY <3>1, <3>2, <3>3, CandidateFacts DEF Stays
    <3> QED
      BY <3>4
  <2> QED
    BY <2>2, <2>3, <2>4
<1>2. CASE Target(r, o) # r.status /\ Target(r, o) = "HOLDING"
  <2>1. r.status \in {"LIVE", "DEGRADED"} /\ o.kind \notin Usable
    BY <1>2, <1>a, <1>b DEF Target, Usable, Unusable, Active
  <2> QED
    BY <1>2, <2>1 DEF Observed, Loses
<1>3. CASE Target(r, o) # r.status /\ Target(r, o) # "HOLDING"
  <2>1. /\ Target(r, o) = UsableStatus(o) /\ o.kind \in Usable
        /\ r.status = "HOLDING" => CandidateReady(r, o)
    BY <1>3, <1>a DEF Target, Usable, Unusable
  <2>2. q = EnterUsable(r, UsableStatus(o))
    BY <1>3, <2>1 DEF Observed
  <2> QED
    BY <1>3, <1>b, <2>1, <2>2 DEF Gains
<1> QED
  BY <1>1, <1>2, <1>3

(* The fields of a Session after each of them. *)
LEMMA EnterFields ==
  ASSUME NEW r \in SessionType
  PROVE  /\ EnterHold(r) \in SessionType
         /\ EnterHold(r).status = "HOLDING" /\ EnterHold(r).announced = 1
         /\ EnterHold(r).last = At(0) /\ EnterHold(r).holdEvent = At(0)
         /\ EnterHold(r).deadline = r.deadline /\ EnterHold(r).cand = NoCandidate
         /\ \A s \in {"LIVE", "DEGRADED"} :
              /\ EnterUsable(r, s) \in SessionType
              /\ EnterUsable(r, s).status = s /\ EnterUsable(r, s).deadline = None
         /\ End(r) \in SessionType /\ End(r).status = "ENDED"
<1>1. None \in Times(Hold + 1) /\ At(0) \in Times(Hold + 1) /\ NoCandidate \in Candidates
  BY CapFacts, ClockFacts, CandidateFacts
<1>2. {0, 1} \subseteq 0 .. 1
  OBVIOUS
<1> QED
  BY <1>1, <1>2 DEF SessionType, EnterHold, EnterUsable, End, Active

LEMMA StaysFields ==
  ASSUME NEW r \in SessionType, NEW o, NEW q, Stays(r, o, q)
  PROVE  /\ q \in SessionType
         /\ q.status = r.status /\ q.deadline = r.deadline /\ q.last = r.last
         /\ q.holdEvent = r.holdEvent /\ q.announced = r.announced
<1>1. PICK c \in Candidates : q = [r EXCEPT !.cand = c]
  BY DEF Stays
<1> QED
  BY <1>1 DEF SessionType

(* The flag of the log is written with the rest and changes nothing else. *)
LEMMA LoggedFields ==
  ASSUME NEW q \in SessionType, NEW l \in BOOLEAN
  PROVE  LET z == [q EXCEPT !.logged = l] IN
         /\ z \in SessionType /\ z.logged = l
         /\ z.status = q.status /\ z.deadline = q.deadline /\ z.last = q.last
         /\ z.holdEvent = q.holdEvent /\ z.announced = q.announced /\ z.cand = q.cand
  BY DEF SessionType

-----------------------------------------------------------------------------
LEMMA NoHistoryType == NoHistory \in HistoryType /\ NoHistory.ran.set
<1>1. None \in Times(Hold + 1) /\ At(0) \in Times(HealthGrace) /\ NoCandidate \in Candidates /\ At(0).set
  BY CapFacts, ClockFacts, CandidateFacts
<1> QED
  BY <1>1 DEF NoHistory, HistoryType

(* The Session has just become ready and no heartbeat has come. *)
LEMMA InitInv == Init => Inv
<1> SUFFICES ASSUME Init PROVE Inv
  OBVIOUS
<1>1. /\ None \in Times(Hold + 1) /\ At(0) \in Times(NoIngest + 1) /\ NoCandidate \in Candidates
      /\ None \in Times(HealthGrace) /\ ~None.set
  BY CapFacts, ClockFacts, CandidateFacts
<1>2. TypeOK
  BY <1>1, NoHistoryType, ObservationFacts DEF Init, TypeOK, SessionType, NodeType, Active
<1>3. HoldCycle /\ HoldInv /\ LookInv
  BY <1>1 DEF Init, HoldCycle, HoldInv, LookInv
<1>4. TimerInv /\ LogInv
  BY <1>1, NoHistoryType DEF Init, TimerInv, LogInv
<1> QED
  BY <1>2, <1>3, <1>4 DEF Inv

(* Whatever ends the Session ends the hold and makes the snapshot of the reaper void. *)
LEMMA EndedInv ==
  ASSUME Inv, sess' = End(sess), hist' = NoHistory, look' \in {"none", "outdated"}, node' = node,
         txn' \in [step: {"none"}] \cup HeartbeatType,
         txn'.step = "commit" /\ txn'.ran => ~txn'.node.sick.set,
         txn'.step = "ingest" => txn'.node.ingest = node.ingest
  PROVE  Inv'
<1>1. sess' \in SessionType /\ sess'.status = "ENDED"
  BY EnterFields DEF Inv, TypeOK
<1>2. TypeOK'
  BY <1>1, NoHistoryType DEF Inv, TypeOK
<1>3. HoldCycle' /\ HoldInv' /\ LookInv'
  BY <1>1 DEF HoldCycle, HoldInv, LookInv, Active
<1>4. TimerInv' /\ LogInv'
  BY <1>1, NoHistoryType DEF TimerInv, LogInv, Active
<1> QED
  BY <1>2, <1>3, <1>4 DEF Inv

LEMMA OutdatedLook == ASSUME Inv, Outdate PROVE look' \in {"none", "outdated"}
  BY DEF Inv, TypeOK, Outdate

LEMMA ReceiveStep ==
  ASSUME Inv, ReceiveHeartbeat
  PROVE  Inv'
<1>1. /\ txn' \in HeartbeatType /\ txn'.step = "ingest" /\ txn'.node = node
      /\ sess' = sess /\ node' = node /\ look' = look /\ hist' = hist
  BY DEF Inv, TypeOK, ReceiveHeartbeat, HeartbeatType
<1>2. TypeOK'
  BY <1>1 DEF Inv, TypeOK
<1>3. HoldCycle' /\ HoldInv' /\ LookInv'
  BY <1>1 DEF Inv, HoldCycle, HoldInv, LookInv, Expired
<1>4. TimerInv' /\ LogInv'
  BY <1>1 DEF Inv, TimerInv, LogInv
<1> QED
  BY <1>2, <1>3, <1>4 DEF Inv

(* The first write of a heartbeat, or its failure. *)
LEMMA IngestStep ==
  ASSUME Inv, NEW o \in Observations \cup {NoObservation}, ApplyIngest(o)
  PROVE  Inv'
<1>a. TypeOK /\ HoldCycle /\ HoldInv /\ LookInv /\ TimerInv /\ LogInv
  BY DEF Inv
<1>b. txn \in HeartbeatType /\ txn.step = "ingest" /\ node' = node /\ txn.node \in NodeType
  BY <1>a DEF ApplyIngest, TypeOK, HeartbeatType
<1>1. CASE o = NoObservation
  <2>1. txn' = [txn EXCEPT !.step = "health"] /\ sess' = sess /\ look' = look /\ hist' = hist
    BY <1>1 DEF ApplyIngest
  <2>2. /\ txn' \in HeartbeatType /\ txn'.step = "health" /\ txn'.node = txn.node
    BY <2>1, <1>b DEF HeartbeatType
  <2>3. TypeOK'
    BY <1>a, <1>b, <2>1, <2>2 DEF TypeOK
  <2>4. HoldCycle' /\ HoldInv' /\ LookInv'
    BY <1>a, <2>1 DEF HoldCycle, HoldInv, LookInv, Expired
  <2>5. TimerInv'
    BY <1>a, <1>b, <2>1, <2>2 DEF TimerInv
  <2>6. LogInv'
    BY <1>a, <1>b, <2>1, <2>2 DEF LogInv
  <2> QED
    BY <2>3, <2>4, <2>5, <2>6 DEF Inv
<1>2. CASE o # NoObservation
  <2>1. PICK error \in BOOLEAN :
          /\ txn' = [txn EXCEPT !.step = "health", !.node.ingest = o, !.error = error]
          /\ TakeObservation(o) \/ (error /\ UNCHANGED <<sess, look, hist>>)
    BY <1>2 DEF ApplyIngest
  <2>o. o \in Observations
    BY <1>2
  <2>2. /\ txn' \in HeartbeatType /\ txn'.step = "health" /\ txn'.error = error
        /\ txn'.node.ingest = o /\ txn'.node.sick = txn.node.sick
    BY <2>1, <2>o, <1>b DEF HeartbeatType, NodeType
  <2>3. CASE sess.status \notin Active \/ ~TakeObservation(o)
    <3>1. sess' = sess /\ look' = look /\ hist' = hist
      BY <2>1, <2>3 DEF TakeObservation
    <3>2. TypeOK' /\ HoldCycle' /\ HoldInv' /\ LookInv'
      BY <1>a, <1>b, <2>2, <3>1 DEF TypeOK, HoldCycle, HoldInv, LookInv, Expired
    <3>3. TimerInv'
      BY <1>a, <1>b, <2>2, <3>1 DEF TimerInv
    <3>4. sess.status \notin Active \/ error
      BY <2>1, <2>3
    <3>5. LogInv'
      BY <2>2, <3>1, <3>4 DEF LogInv
    <3> QED
      BY <3>2, <3>3, <3>5 DEF Inv
  <2>4. CASE sess.status \in Active /\ TakeObservation(o)
    <3> DEFINE r == Observed(sess, o)
               l == LoggedAfter(sess, node.ingest, o)
    <3>1. /\ sess' = [r EXCEPT !.logged = l]
          /\ (r.status = sess.status /\ look' = look) \/ (r.status # sess.status /\ Outdate)
          /\ hist' = [hist EXCEPT !.good = GoodAfter(@, o), !.lost = LostAfter(sess.status, r.status)]
      BY <2>4 DEF TakeObservation
    <3>2. Stays(sess, o, r) \/ Loses(sess, o, r) \/ Gains(sess, o, r)
      BY <1>a, <2>o, <2>4, ObservedCases DEF TypeOK
    <3>3. l \in BOOLEAN
      BY <1>a DEF LoggedAfter, TypeOK, SessionType, Online
    <3>4. sess \in SessionType /\ hist \in HistoryType
      BY <1>a DEF TypeOK
    <3>5. /\ hist'.good = GoodAfter(hist.good, o) /\ hist'.lost = LostAfter(sess.status, r.status)
          /\ hist'.ran = hist.ran
      BY <3>1, <3>4 DEF HistoryType
    <3> HIDE DEF r, l
    <3>6. r \in SessionType
      BY <3>2, <3>4, StaysFields, EnterFields DEF Loses, Gains
    <3>7. /\ sess' \in SessionType /\ sess'.logged = l
          /\ sess'.status = r.status /\ sess'.deadline = r.deadline /\ sess'.last = r.last
          /\ sess'.holdEvent = r.holdEvent /\ sess'.announced = r.announced /\ sess'.cand = r.cand
      BY <3>1, <3>3, <3>6, LoggedFields
    <3>8. hist' \in HistoryType
      <4>1. GoodAfter(hist.good, o) \in Candidates
        BY <2>o, <3>4, GoodAfterType DEF HistoryType
      <4>2. None \in Times(Hold + 1) /\ At(0) \in Times(Hold + 1)
        BY CapFacts, ClockFacts
      <4>3. LostAfter(sess.status, r.status) \in Times(Hold + 1)
        BY <3>4, <4>2 DEF LostAfter, HistoryType
      <4> QED
        BY <3>1, <3>4, <4>1, <4>3 DEF HistoryType
    <3>9. look' \in {"none", "current", "outdated"} /\ (r.status # sess.status => look' # "current")
      BY <3>1, <1>a, OutdatedLook DEF TypeOK
    <3>10. TypeOK'
      BY <1>a, <1>b, <2>2, <3>7, <3>8, <3>9 DEF TypeOK
    <3>11. HoldCycle' /\ HoldInv' /\ LookInv'
      <4>1. CASE Stays(sess, o, r)
        <5>1. /\ r.status = sess.status /\ r.deadline = sess.deadline /\ r.last = sess.last
              /\ r.holdEvent = sess.holdEvent /\ r.announced = sess.announced
          BY <3>4, <4>1, StaysFields
        <5>2. sess.status = "HOLDING" => hist'.lost = hist.lost
          BY <3>5, <5>1 DEF LostAfter
        <5>3. sess.status = "HOLDING" => r.cand = hist'.good
          BY <4>1, <3>5, <1>a DEF Stays, HoldInv
        <5>4. look' = look
          BY <3>1, <5>1
        <5> QED
          BY <1>a, <3>7, <5>1, <5>2, <5>3, <5>4 DEF HoldCycle, HoldInv, LookInv, Expired
      <4>2. CASE Loses(sess, o, r)
        <5>1. /\ r.status = "HOLDING" /\ r.announced = 1 /\ r.last = At(0) /\ r.holdEvent = At(0)
              /\ r.deadline = sess.deadline /\ r.cand = NoCandidate /\ sess.status \in {"LIVE", "DEGRADED"}
              /\ o.kind \notin Usable
          BY <3>4, <4>2, EnterFields DEF Loses
        <5>2. hist'.lost = At(0) /\ hist'.good = NoCandidate /\ At(0).set
          BY <3>5, <5>1 DEF LostAfter, GoodAfter, At
        <5>3. ~sess.deadline.set
          BY <1>a, <5>1 DEF HoldCycle, Active
        <5>4. look' # "current"
          BY <3>9, <5>1
        <5> QED
          BY <3>7, <5>1, <5>2, <5>3, <5>4 DEF HoldCycle, HoldInv, LookInv
      <4>3. CASE Gains(sess, o, r)
        <5>1. r.status \in {"LIVE", "DEGRADED"} /\ r.status # sess.status /\ r.deadline = None /\ ~None.set
          BY <3>4, <4>3, EnterFields DEF Gains, None
        <5>2. look' # "current"
          BY <3>9, <5>1
        <5> QED
          BY <3>7, <5>1, <5>2 DEF HoldCycle, HoldInv, LookInv
      <4> QED
        BY <3>2, <4>1, <4>2, <4>3
    <3>12. TimerInv'
      BY <1>a, <1>b, <2>2, <2>4, <3>5, <3>7 DEF TimerInv
    <3>13. LogInv'
      BY <1>b, <2>2, <3>7 DEF LogInv, LoggedAfter, l, Online
    <3> QED
      BY <3>10, <3>11, <3>12, <3>13 DEF Inv
  <2> QED
    BY <2>3, <2>4
<1> QED
  BY <1>1, <1>2

-----------------------------------------------------------------------------
(* The timer starts when the stack is first reported dead. *)
LEMMA TimerAfterFacts ==
  ASSUME NEW n \in NodeType, NEW h \in Healths
  PROVE  /\ TimerAfter(n, h) \in Times(HealthGrace)
         /\ h = "running" => ~TimerAfter(n, h).set
         /\ TimerAfter(n, h).set /\ TimerAfter(n, h) # n.sick => TimerAfter(n, h).age = 0
<1>1. None \in Times(HealthGrace) /\ At(0) \in Times(HealthGrace) /\ ~None.set /\ At(0).age = 0
  BY CapFacts, ClockFacts
<1>2. n.sick \in Times(HealthGrace)
  BY DEF NodeType
<1> QED
  BY <1>1, <1>2 DEF TimerAfter, Healths

(* The second write of a heartbeat. *)
LEMMA HealthStep == ASSUME Inv, NEW h \in Healths, ApplyHealth(h) PROVE Inv'
<1> DEFINE sick == TimerAfter(txn.node, h)
           n == [txn.node EXCEPT !.sick = sick]
<1>a. TypeOK /\ HoldCycle /\ HoldInv /\ LookInv /\ TimerInv /\ LogInv
  BY DEF Inv
<1>b. txn \in HeartbeatType /\ txn.step = "health" /\ node' = node /\ txn.node \in NodeType
  BY <1>a DEF ApplyHealth, TypeOK, HeartbeatType
<1>c. /\ sick \in Times(HealthGrace) /\ (h = "running" => ~sick.set)
      /\ sick.set /\ sick # txn.node.sick => sick.age = 0
  BY <1>b, TimerAfterFacts
<1>d. n \in NodeType /\ n.sick = sick /\ n.ingest = txn.node.ingest /\ n.desired = txn.node.desired
  BY <1>b, <1>c DEF NodeType
<1> DEFINE Dies == /\ sess' = End(sess) /\ hist' = NoHistory /\ Outdate
                   /\ \E d \in {n.desired, "STOPPED"} :
                        txn' = [txn EXCEPT !.step = "commit", !.ran = (h = "running"),
                                           !.node = [n EXCEPT !.desired = d]]
           Lives == /\ txn' = [txn EXCEPT !.step = "commit", !.ran = (h = "running"), !.node = n]
                    /\ UNCHANGED <<sess, hist, look>>
<1>0. Dies \/ Lives
  BY DEF ApplyHealth
<1>1. CASE Dies
  <2>1. PICK d \in {n.desired, "STOPPED"} :
          txn' = [txn EXCEPT !.step = "commit", !.ran = (h = "running"),
                             !.node = [n EXCEPT !.desired = d]]
    BY <1>1
  <2>2. [n EXCEPT !.desired = d] \in NodeType /\ [n EXCEPT !.desired = d].sick = sick
    BY <1>b, <1>d DEF NodeType
  <2> HIDE DEF n, sick
  <2>3. /\ txn' \in HeartbeatType /\ txn'.step = "commit" /\ txn'.ran = (h = "running")
        /\ txn'.node.sick = sick
    BY <1>b, <2>1, <2>2 DEF HeartbeatType
  <2>4. look' \in {"none", "outdated"}
    BY <1>1, OutdatedLook
  <2> QED
    BY <1>b, <1>c, <1>1, <2>3, <2>4, EndedInv
<1>2. CASE Lives
  <2> HIDE DEF n, sick
  <2>3. /\ txn' \in HeartbeatType /\ txn'.step = "commit" /\ txn'.ran = (h = "running")
        /\ txn'.node = n /\ txn'.error = txn.error
    BY <1>b, <1>d, <1>2 DEF HeartbeatType
  <2>4. TypeOK' /\ HoldCycle' /\ HoldInv' /\ LookInv'
    BY <1>a, <1>b, <1>2, <2>3 DEF TypeOK, HoldCycle, HoldInv, LookInv, Expired
  <2>5. hist.ran.age \in Nat
    BY <1>a, CapFacts, ClockFacts DEF TypeOK, HistoryType
  <2>6. TimerInv'
    <3>1. txn'.node.sick = sick /\ (txn'.ran => ~sick.set)
      BY <1>c, <1>d, <2>3
    <3>2. sess.status \in Active /\ sick.set => sick.age <= hist.ran.age
      BY <1>a, <1>b, <1>c, <2>5 DEF TimerInv
    <3> QED
      BY <1>a, <1>b, <1>2, <2>3, <3>1, <3>2 DEF TimerInv
  <2>7. LogInv'
    BY <1>a, <1>b, <1>d, <1>2, <2>3 DEF LogInv
  <2> QED
    BY <2>4, <2>6, <2>7 DEF Inv
<1> QED
  BY <1>0, <1>1, <1>2

(* The last write of a heartbeat. *)
LEMMA CommitStep == ASSUME Inv, CommitNode PROVE Inv'
<1>a. TypeOK /\ HoldCycle /\ HoldInv /\ LookInv /\ TimerInv /\ LogInv
  BY DEF Inv
<1>b. txn \in HeartbeatType /\ txn.step = "commit" /\ txn.node \in NodeType
  BY <1>a DEF CommitNode, TypeOK, HeartbeatType
<1>1. /\ sess' = sess /\ look' = look /\ node' = txn.node /\ txn' = [step |-> "none"]
      /\ hist' = [hist EXCEPT !.ran = IF txn.ran THEN At(0) ELSE @]
  BY DEF CommitNode
<1>2. At(0) \in Times(HealthGrace) /\ At(0).set
  BY CapFacts, ClockFacts
<1>3. /\ hist' \in HistoryType /\ hist'.good = hist.good /\ hist'.lost = hist.lost
      /\ hist'.ran = IF txn.ran THEN At(0) ELSE hist.ran
  BY <1>a, <1>1, <1>2 DEF TypeOK, HistoryType
<1>4. TypeOK' /\ HoldCycle' /\ HoldInv' /\ LookInv'
  BY <1>a, <1>b, <1>1, <1>3 DEF TypeOK, HoldCycle, HoldInv, LookInv, Expired
<1>5. TimerInv'
  BY <1>a, <1>b, <1>1, <1>2, <1>3 DEF TimerInv
<1>6. LogInv'
  BY <1>1 DEF LogInv
<1> QED
  BY <1>4, <1>5, <1>6 DEF Inv

LEMMA CrashStep == ASSUME Inv, Crash PROVE Inv'
<1>1. txn' = [step |-> "none"] /\ sess' = sess /\ node' = node /\ look' = look /\ hist' = hist
  BY DEF Crash
<1> QED
  BY <1>1 DEF Inv, TypeOK, HoldCycle, HoldInv, LookInv, Expired, TimerInv, LogInv

-----------------------------------------------------------------------------
(* The deadline is set from the loss, and the hold was announced then. *)
LEMMA DeadlineStep == ASSUME Inv, SetHoldDeadline PROVE Inv'
<1>a. TypeOK /\ HoldCycle /\ HoldInv /\ LookInv /\ TimerInv /\ LogInv
  BY DEF Inv
<1>b. sess \in SessionType /\ sess.last.age \in Nat
  BY <1>a, CapFacts, ClockFacts DEF TypeOK, SessionType
<1>1. /\ sess.status = "HOLDING" /\ ~sess.deadline.set
      /\ node' = node /\ txn' = txn /\ look' = look /\ hist' = hist
  BY DEF SetHoldDeadline
<1>2. HasHoldingEvent(sess)
  BY <1>a, <1>b, <1>1 DEF HoldInv, HasHoldingEvent
<1>3. sess' = [sess EXCEPT !.deadline = sess.last]
  BY <1>b, <1>2 DEF SetHoldDeadline, SessionType
<1>4. /\ sess' \in SessionType /\ sess'.status = "HOLDING" /\ sess'.deadline = sess.last
      /\ sess'.last = sess.last /\ sess'.announced = sess.announced
      /\ sess'.holdEvent = sess.holdEvent /\ sess'.cand = sess.cand /\ sess'.logged = sess.logged
  BY <1>b, <1>1, <1>3 DEF SessionType
<1>5. look # "current"
  BY <1>a, <1>1 DEF LookInv, Expired
<1>6. TypeOK'
  BY <1>a, <1>1, <1>4 DEF TypeOK
<1>7. HoldCycle' /\ HoldInv' /\ LookInv'
  BY <1>a, <1>1, <1>4, <1>5 DEF HoldCycle, HoldInv, LookInv
<1>8. TimerInv' /\ LogInv'
  BY <1>a, <1>1, <1>4 DEF TimerInv, LogInv
<1> QED
  BY <1>6, <1>7, <1>8 DEF Inv

LEMMA LookStep == ASSUME Inv, HoldLook PROVE Inv'
<1>1. /\ sess.status = "HOLDING" /\ Expired(sess) /\ look' = "current"
      /\ txn' = txn /\ sess' = sess /\ node' = node /\ hist' = hist
  BY DEF HoldLook
<1> QED
  BY <1>1 DEF Inv, TypeOK, HoldCycle, HoldInv, LookInv, Expired, TimerInv, LogInv

LEMMA StopStep == ASSUME Inv, HoldStop \/ NoIngestStop \/ Stop PROVE Inv'
<1>a. TypeOK /\ LookInv /\ TimerInv /\ LogInv
  BY DEF Inv
<1>1. node' = node /\ txn' = txn
  BY DEF HoldStop, NoIngestStop, Stop
<1>2. CASE sess' = End(sess) /\ hist' = NoHistory /\ look' \in {"none", "outdated"}
  BY <1>a, <1>1, <1>2, EndedInv DEF TypeOK, TimerInv, LogInv
<1>3. CASE sess' = sess /\ hist' = hist /\ look' = "none"
  BY <1>1, <1>3 DEF Inv, TypeOK, HoldCycle, HoldInv, LookInv, TimerInv, LogInv
<1>4. HoldStop => look' = "none" /\ ((sess' = End(sess) /\ hist' = NoHistory) \/ (sess' = sess /\ hist' = hist))
  BY DEF HoldStop
<1>5. NoIngestStop => sess' = End(sess) /\ hist' = NoHistory /\ look' \in {"none", "outdated"}
  BY <1>a DEF NoIngestStop, LookInv, TypeOK
<1>6. Stop => sess' = End(sess) /\ hist' = NoHistory /\ look' \in {"none", "outdated"}
  BY OutdatedLook DEF Stop
<1> QED
  BY <1>2, <1>3, <1>4, <1>5, <1>6

(* All clocks of a hold run together. *)
LEMMA TickStep == ASSUME Inv, Tick PROVE Inv'
<1>a. TypeOK /\ HoldCycle /\ HoldInv /\ LookInv /\ TimerInv
  BY DEF Inv
<1>b. sess \in SessionType /\ node \in NodeType /\ hist \in HistoryType
  BY <1>a DEF TypeOK
<1>1. /\ sess' = [sess EXCEPT !.ready = Older(@, NoIngest + 1), !.cand.since = Older(@, Stable),
                              !.last = Older(@, Hold + 1), !.deadline = Older(@, Hold + 1),
                              !.holdEvent = Older(@, Hold + 1)]
      /\ node' = [node EXCEPT !.sick = Older(@, HealthGrace)]
      /\ hist' = [good |-> [hist.good EXCEPT !.since = Older(@, Stable)],
                  lost |-> Older(hist.lost, Hold + 1), ran |-> Older(hist.ran, HealthGrace)]
      /\ txn' = txn /\ look' = look /\ txn.step = "none"
  BY DEF Tick
<1>2. /\ sess'.status = sess.status /\ sess'.announced = sess.announced /\ sess'.logged = sess.logged
      /\ sess'.last = Older(sess.last, Hold + 1) /\ sess'.deadline = Older(sess.deadline, Hold + 1)
      /\ sess'.holdEvent = Older(sess.holdEvent, Hold + 1) /\ sess'.ready = Older(sess.ready, NoIngest + 1)
      /\ sess'.cand = [sess.cand EXCEPT !.since = Older(@, Stable)]
      /\ DOMAIN sess' = DOMAIN sess
  BY <1>b, <1>1 DEF SessionType
<1>3. /\ hist'.good = [hist.good EXCEPT !.since = Older(@, Stable)]
      /\ hist'.lost = Older(hist.lost, Hold + 1) /\ hist'.ran = Older(hist.ran, HealthGrace)
  BY <1>1
<1>4. node'.sick = Older(node.sick, HealthGrace)
  BY <1>b, <1>1 DEF NodeType
<1>5. \A t \in Times(Hold + 1) : /\ Older(t, Hold + 1) \in Times(Hold + 1)
                                 /\ Older(t, Hold + 1).set = t.set
                                 /\ t.age \in Nat /\ Older(t, Hold + 1).age \in Nat
                                 /\ t.age <= Older(t, Hold + 1).age
  BY CapFacts, ClockFacts
<1>6. TypeOK'
  <2>1. \A c \in Candidates : [c EXCEPT !.since = Older(@, Stable)] \in Candidates
    BY CapFacts, ClockFacts DEF Candidates
  <2>2. \A t \in Times(NoIngest + 1) : Older(t, NoIngest + 1) \in Times(NoIngest + 1)
    BY CapFacts, ClockFacts
  <2>3. \A t \in Times(HealthGrace) : Older(t, HealthGrace) \in Times(HealthGrace)
    BY CapFacts, ClockFacts
  <2>4. sess' \in SessionType
    <3>1. sess' = [sess EXCEPT !.ready = Older(@, NoIngest + 1), !.cand = [sess.cand EXCEPT !.since = Older(@, Stable)],
                              !.last = Older(@, Hold + 1), !.deadline = Older(@, Hold + 1),
                              !.holdEvent = Older(@, Hold + 1)]
      BY <1>1
    <3> QED
      BY <1>b, <1>5, <2>1, <2>2, <3>1 DEF SessionType
  <2>5. node' \in NodeType
    BY <1>b, <1>1, <2>3 DEF NodeType
  <2>6. hist' \in HistoryType
    BY <1>b, <1>1, <1>5, <2>1, <2>3 DEF HistoryType
  <2> QED
    BY <1>a, <1>1, <2>4, <2>5, <2>6 DEF TypeOK
<1>7. HoldCycle'
  BY <1>a, <1>b, <1>2, <1>3, <1>5 DEF HoldCycle, SessionType
<1>8. HoldInv'
  BY <1>a, <1>b, <1>2, <1>3, <1>5 DEF HoldInv, SessionType
<1>9. LookInv'
  <2>1. sess.deadline \in Times(Hold + 1) /\ Hold \in Nat
    BY <1>b, CapFacts DEF SessionType
  <2> QED
    BY <1>a, <1>1, <1>2, <1>5, <2>1 DEF LookInv, Expired
<1>10. TimerInv'
  <2>1. node.sick \in Times(HealthGrace) /\ hist.ran \in Times(HealthGrace)
    BY <1>b DEF NodeType, HistoryType
  <2>2. node'.sick.set = node.sick.set /\ hist'.ran.set
    BY <1>a, <1>3, <1>4, <2>1, CapFacts, ClockFacts DEF TimerInv
  <2>3. node.sick.age <= hist.ran.age => node'.sick.age <= hist'.ran.age
    BY <1>a, <1>3, <1>4, <2>1, CapFacts, OlderKeepsOrder DEF TimerInv
  <2> QED
    BY <1>a, <1>1, <1>2, <2>2, <2>3 DEF TimerInv
<1>11. LogInv'
  BY <1>1 DEF LogInv
<1> QED
  BY <1>6, <1>7, <1>8, <1>9, <1>10, <1>11 DEF Inv

-----------------------------------------------------------------------------
LEMMA InvStep == Inv /\ [Next]_vars => Inv'
<1> SUFFICES ASSUME Inv, [Next]_vars PROVE Inv'
  OBVIOUS
<1>1. CASE UNCHANGED vars
  BY <1>1 DEF vars, Inv, TypeOK, HoldCycle, HoldInv, LookInv, Expired, TimerInv, LogInv
<1> QED
  BY <1>1, ReceiveStep, IngestStep, HealthStep, CommitStep, CrashStep, DeadlineStep, LookStep, StopStep,
     TickStep DEF Next

(* A hold is announced once and its deadline counts from the loss of the input, however
   heartbeats, crashes, failures of the store, sweeps and stops interleave. *)
THEOREM HoldRecordHolds == Spec => []Inv
<1>1. Init => Inv
  BY InitInv
<1>2. Inv /\ [Next]_vars => Inv'
  BY InvStep
<1> QED
  BY <1>1, <1>2, PTL DEF Spec

-----------------------------------------------------------------------------
(* Only an observation brings a Session out of HOLDING alive, and then the candidate,
   which is the run of usable observations, was old enough. *)
LEMMA RecoveryStep ==
  ASSUME Inv, [Next]_vars, sess.status = "HOLDING", sess'.status \in {"LIVE", "DEGRADED"}
  PROVE  hist'.good.since.set /\ hist'.good.since.age >= Stable
<1>a. TypeOK /\ HoldInv /\ sess \in SessionType /\ hist \in HistoryType
  BY DEF Inv, TypeOK
<1>1. PICK o \in Observations \cup {NoObservation} : ApplyIngest(o)
  <2>1. ASSUME sess' = sess \/ sess' = End(sess) PROVE FALSE
    BY <2>1, <1>a, EnterFields
  <2>2. ~ReceiveHeartbeat /\ ~CommitNode /\ ~Crash /\ ~HoldLook /\ ~HoldStop /\ ~NoIngestStop /\ ~Stop
    BY <2>1 DEF ReceiveHeartbeat, CommitNode, Crash, HoldLook, HoldStop, NoIngestStop, Stop
  <2>3. \A h \in Healths : ~ApplyHealth(h)
    BY <2>1 DEF ApplyHealth
  <2>4. ~SetHoldDeadline /\ ~Tick
    BY <1>a DEF SetHoldDeadline, Tick, SessionType
  <2> QED
    BY <2>1, <2>2, <2>3, <2>4 DEF Next, vars
<1> DEFINE r == Observed(sess, o)
<1>2. /\ o \in Observations
      /\ sess' = [r EXCEPT !.logged = LoggedAfter(sess, node.ingest, o)]
      /\ hist' = [hist EXCEPT !.good = GoodAfter(@, o), !.lost = LostAfter(sess.status, r.status)]
  <2>1. sess' # sess
    OBVIOUS
  <2>2. o # NoObservation /\ TakeObservation(o) /\ sess.status \in Active
    BY <1>1, <2>1 DEF ApplyIngest, TakeObservation
  <2> QED
    BY <2>2 DEF TakeObservation
<1>3. hist'.good = GoodAfter(hist.good, o)
  BY <1>2, <1>a DEF HistoryType
<1>4. Stays(sess, o, r) \/ Loses(sess, o, r) \/ Gains(sess, o, r)
  BY <1>a, <1>2, ObservedCases DEF Active
<1> HIDE DEF r
<1>5. r \in SessionType
  BY <1>4, <1>a, StaysFields, EnterFields DEF Loses, Gains
<1>6. sess'.status = r.status
  BY <1>2, <1>5 DEF SessionType
<1>7. o.kind \in Usable /\ CandidateReady(sess, o)
  BY <1>4, <1>6 DEF Stays, Loses, Gains
<1>8. sess.cand = hist.good /\ At(0).set /\ At(0).age = 0
  BY <1>a DEF HoldInv, At
<1>9. CASE SameCandidate(sess, o)
  BY <1>3, <1>7, <1>8, <1>9 DEF CandidateReady, SameCandidate, GoodAfter
<1>10. CASE ~SameCandidate(sess, o)
  <2>1. hist'.good.since = At(0)
    BY <1>3, <1>7, <1>8, <1>10 DEF SameCandidate, GoodAfter
  <2> QED
    BY <1>7, <1>8, <1>10, <2>1 DEF CandidateReady
<1> QED
  BY <1>9, <1>10

LEMMA TimeoutStep ==
  ASSUME Inv, HoldStop, sess'.status # sess.status
  PROVE  hist.lost.set /\ hist.lost.age > Hold
  BY DEF Inv, LookInv, HoldCycle, HoldStop, StillExpired, Expired

LEMMA FailureStep ==
  ASSUME Inv, NEW h \in Healths, ApplyHealth(h), sess'.status # sess.status, h # "gaveup"
  PROVE  hist.ran.age >= HealthGrace
<1>a. TypeOK /\ TimerInv /\ txn.step = "health"
  BY DEF Inv, ApplyHealth
<1>b. txn \in HeartbeatType /\ txn.node \in NodeType 
  BY <1>a DEF TypeOK, HeartbeatType
<1>1. PipelineDead(txn.node, h) /\ sess.status \in Active
  BY DEF ApplyHealth
<1>2. TimerAfter(txn.node, h).age >= HealthGrace /\ h = "fatal"
  BY <1>1 DEF PipelineDead
<1>3. hist.ran.age \in Nat /\ HealthGrace \in Nat /\ At(0).age = 0
  BY <1>a, CapFacts, ClockFacts DEF TypeOK, HistoryType
<1>4. CASE txn.node.sick.set
  <2>1. TimerAfter(txn.node, h) = txn.node.sick /\ txn.node.sick.age \in Nat
    BY <1>2, <1>4, <1>b, <1>3, ClockFacts DEF TimerAfter, NodeType
  <2> QED
    BY <1>a, <1>1, <1>2, <1>3, <1>4, <2>1 DEF TimerInv
<1>5. CASE ~txn.node.sick.set
  BY <1>2, <1>3, <1>5 DEF TimerAfter
<1> QED
  BY <1>4, <1>5

LEMMA LoggingStep ==
  ASSUME Inv, CommitNode, Online(node.ingest) # Online(node'.ingest)
  PROVE  sess.status = "ENDED" \/ txn.error \/ sess.logged = Online(node'.ingest)
<1>1. sess.status \in Active \cup {"ENDED"}
  BY DEF Inv, TypeOK, SessionType
<1> QED
  BY <1>1 DEF Inv, LogInv, CommitNode

(* Recovery, timeout and failure need observations that lasted, and no change of
   connectivity goes unlogged without a note that the store failed. *)
THEOREM HoldRulesHold == Spec => HoldRules
<1> DEFINE Recovers == sess.status = "HOLDING" /\ sess'.status \in {"LIVE", "DEGRADED"}
                         => hist'.good.since.set /\ hist'.good.since.age >= Stable
           TimesOut == HoldStop /\ sess'.status # sess.status => hist.lost.set /\ hist.lost.age > Hold
           Fails == \A h \in Healths :
                      ApplyHealth(h) /\ sess'.status # sess.status /\ h # "gaveup"
                        => hist.ran.age >= HealthGrace
           Logs == CommitNode /\ Online(node.ingest) # Online(node'.ingest)
                     => sess.status = "ENDED" \/ txn.error \/ sess.logged = Online(node'.ingest)
<1>1. Inv /\ [Next]_vars => [Recovers]_vars
  BY RecoveryStep
<1>2. Inv /\ [Next]_vars => [TimesOut]_vars
  BY TimeoutStep
<1>3. Inv /\ [Next]_vars => [Fails]_vars
  BY FailureStep
<1>4. Inv /\ [Next]_vars => [Logs]_vars
  BY LoggingStep
<1> QED
  BY <1>1, <1>2, <1>3, <1>4, HoldRecordHolds, PTL
     DEF Spec, HoldRules, RecoveryIsStable, HoldTimeoutIsDue, FailureIsSustained, ChangesAreLogged
=============================================================================
