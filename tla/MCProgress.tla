----------------------------- MODULE MCProgress -----------------------------
(* Model-checking what must come about in the end: an agent's sending, the report *)
(* of its status to hbs, and the mocks of nodata for a silent series; and the     *)
(* pool of connections by itself, for its safety alone. The parts share no        *)
(* variable; focus says which is looked at, with its own fairness.                *)
EXTENDS AgentSend, HbsAgents, Nodata, ConnPool

VARIABLE focus

progressVars == <<focus, agentSendVars, hbsAgentVars, nodataVars, poolVars>>

Row(type, gauge, maintain) ==
    [objType |-> type, metric |-> TRUE, gauge |-> gauge, step |-> 1, named |-> TRUE, member |-> TRUE,
     maintain |-> maintain]
Configs == {<<Row("group", TRUE, FALSE), Row("host", TRUE, FALSE)>>,
            <<Row("host", FALSE, FALSE), Row("group", TRUE, TRUE)>>}

ProgressInit ==
    /\ focus \in {"send", "report", "nodata", "pool"}
    /\ AgentSendInit /\ HbsAgentInit /\ NodataInit /\ NewConnPool
    /\ focus = "report" \/ row = 1
    /\ focus = "nodata" \/ rows = <<Row("host", FALSE, FALSE), Row("group", TRUE, TRUE)>>

ProgressNext ==
    /\ UNCHANGED focus
    /\ \/ focus = "send" /\ AgentSendStep /\ UNCHANGED <<hbsAgentVars, nodataVars, poolVars>>
       \/ focus = "report" /\ HbsAgentStep /\ UNCHANGED <<agentSendVars, nodataVars, poolVars>>
       \/ focus = "nodata" /\ NodataStep /\ UNCHANGED <<agentSendVars, hbsAgentVars, poolVars>>
       \/ focus = "pool" /\ PoolNext /\ UNCHANGED <<agentSendVars, hbsAgentVars, nodataVars>>

ProgressSpec ==
    /\ ProgressInit /\ [][ProgressNext]_progressVars
    /\ \/ focus = "send" /\ AgentSendFairness
       \/ focus = "report" /\ HbsAgentFairness
       \/ focus = "nodata" /\ NodataFairness
       \/ focus = "pool"

============================================================================
