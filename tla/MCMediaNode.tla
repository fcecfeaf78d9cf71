------------------------------- MODULE MCMediaNode -------------------------------
(***************************************************************************)
(* The processes of a media Node, for TLC: the agent, the ingest policy it  *)
(* applies, the continuity engine with its standby image, and the egress    *)
(* gateway with the attempts it runs.  The processes share no state that    *)
(* these modules keep, so a behaviour takes the steps of one of them and    *)
(* the others rest.                                                         *)
(***************************************************************************)
EXTENDS EgressAttempt, EgressGateway, Continuity, StandbyAsset, NodeAgent, IngestPolicy

VARIABLE part

egressVars == <<attemptVars, gatewayVars>>
engineVars == <<continuityVars, standbyVars>>
nodeVars == <<agentVars, policyVars>>

vars == <<part, egressVars, engineVars, nodeVars>>

Init ==
  /\ part \in {"attempt", "gateway", "switch", "input", "standby", "agent", "policy"}
  /\ AttemptInit /\ GatewayInit /\ ContinuityInit /\ StandbyInit /\ AgentInit /\ PolicyInit
  /\ part # "switch" => control = "absent"
  /\ part # "standby" => ~settings.custom /\ settings.digest = "none" /\ files.custom = files.fallback
                         /\ files.custom = CHOOSE c \in Contents : TRUE
  /\ part # "agent" => stack = "down" /\ secrets = {}

InAttempt(A) == part = "attempt" /\ A /\ UNCHANGED <<part, gatewayVars, engineVars, nodeVars>>
InGateway(A) == part = "gateway" /\ A /\ UNCHANGED <<part, attemptVars, engineVars, nodeVars>>
InEngine(p, A) == part = p /\ A /\ UNCHANGED <<part, standbyVars, egressVars, nodeVars>>
InAgent(A) == part = "agent" /\ A /\ UNCHANGED <<part, policyVars, egressVars, engineVars>>
InPolicy(A) == part = "policy" /\ A /\ UNCHANGED <<part, agentVars, egressVars, engineVars>>

Next ==
  \/ InAttempt(AttemptNext)
  \/ InGateway(GatewayNext)
  \/ InEngine("switch", SwitchNext \/ EngineRestarts)
  \/ InEngine("input", InputNext)
  \/ part = "standby" /\ StandbyNext /\ UNCHANGED <<part, continuityVars, egressVars, nodeVars>>
  \/ InAgent(AgentNext)
  \/ InPolicy(PolicyNext)

(* The API answers, and the kick that follows works. *)
Observes ==
  \E rate \in Rates \cup {"none"}, quality \in {"good", "warned", "poor", "unavailable"} :
    ObservePublisher(rate, quality, TRUE)

(* What the code's own loops and timers justify: every loop goes round, time passes,
   threads are scheduled.  Nothing is assumed of children, destinations or signals, nor that a
   call of the agent's returns. *)
Spec ==
  /\ Init /\ [][Next]_vars
  /\ WF_vars(InAttempt(AttemptProgress))
  /\ WF_vars(InGateway(GatewaySteps)) /\ WF_vars(InGateway(GatewayTick))
  /\ WF_vars(InEngine("input", ClearFailed)) /\ WF_vars(InEngine("input", OnInputMessage))
  /\ WF_vars(InEngine("input", WatchInput)) /\ WF_vars(InEngine("input", StopInputPipeline))
  /\ WF_vars(InAgent(MainAdvances)) /\ WF_vars(InAgent(WatchdogAdvances))
  /\ WF_vars(InPolicy(Observes))

(* Nothing on a Node hangs for good: a publishing attempt that brings nothing new ends (egress.py),
   the gateway gets every attempt back, and an outage ends once the attempts are limited
   (egress.py, isolated_attempt.py), a failed input is rebuilt (continuity.py), the deadline stops
   the media while the main thread hangs (agent.py), and a bad publisher is kicked though kicks
   fail (ingest_policy.py). *)
NothingHangs == AttemptEnds /\ OutageEnds /\ InputIsRebuilt /\ DeadlineStops /\ BadIsKicked
=============================================================================
