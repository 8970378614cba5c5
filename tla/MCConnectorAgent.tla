-------------------------- MODULE MCConnectorAgent --------------------------
(* The agent with two pods and two tokens; and the browser's panel with two requests.  A *)
(* behaviour is of the one that focus names, and the other stays as it started. *)
EXTENDS ConnectorAgent, ConnectorPanel

CONSTANTS p1, p2, t1, t2, q1, q2

MCPod == {p1, p2}
MCName == {t1, t2}
MCPoll == {q1, q2}

VARIABLE focus

vars == <<focus, agentVars, panelVars>>

\* Beside the agent the panel has not been opened: nothing of it could be fair or not.
Init ==
  /\ AgentInit
  /\ \/ focus = "panel" /\ PanelInit
     \/ /\ focus = "agent"
        /\ served = "none" /\ shown = "none" /\ loadError = FALSE
        /\ polls = [q \in Poll |-> Idle]
        /\ asked = "none" /\ window = "closed" /\ changes = 0

Next ==
  \/ focus = "agent" /\ AgentNext /\ UNCHANGED <<focus, panelVars>>
  \/ focus = "panel" /\ PanelNext /\ UNCHANGED <<focus, agentVars>>

Spec == Init /\ [][Next]_vars /\ AgentFairness /\ PanelFairness
=============================================================================
