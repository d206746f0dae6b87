----------------------------- MODULE HbsAgents -----------------------------
(* hbs keeps the last report of every agent in memory and writes the host row of  *)
(* the portal when a report differs from it. Reports of an agent overlap when its *)
(* call timed out but the handler still waits for the database. One agent here.   *)
EXTENDS Naturals

CONSTANTS Handlers,         \* goroutines that serve reports
          MaxVersion,       \* versions of the agent (address, agent, plugins together)
          MaxAgentFaults    \* statements that fail and restarts of hbs

VARIABLES report,       \* what the agent reports now
          row,          \* the host row, 0 if there is none
          entry,        \* Agents.M: version 0 if there is no entry
          puts,         \* per handler: where its Put is
          sweeping,     \* deleteStaleAgents has found the entry old
          agentFaults

hbsAgentVars == <<report, row, entry, puts, sweeping, agentFaults>>

NoPut == [at |-> "idle", ver |-> 0, old |-> FALSE]
NoEntry == [ver |-> 0, old |-> FALSE]
Put == [at : {"idle", "db", "memory"}, ver : 0..MaxVersion, old : BOOLEAN]

HbsAgentTypeOK ==
    /\ report \in 1..MaxVersion /\ row \in 0..MaxVersion
    /\ entry \in [ver : 0..MaxVersion, old : BOOLEAN]
    /\ puts \in [Handlers -> Put] /\ sweeping \in BOOLEAN

HbsAgentInit ==
    /\ report = 1 /\ row \in 0..1 /\ entry = NoEntry
    /\ puts = [h \in Handlers |-> NoPut]
    /\ sweeping = FALSE /\ agentFaults = 0

AgentFault == agentFaults < MaxAgentFaults /\ agentFaults' = agentFaults + 1

AgentChanges ==
    /\ report < MaxVersion /\ report' = report + 1
    /\ UNCHANGED <<row, entry, puts, sweeping, agentFaults>>

(* Slip: every report refreshes the time of the entry. *)
ReportStatusRefreshes(h) ==
    /\ puts[h] = NoPut
    /\ IF entry.ver = report
       THEN entry' = [entry EXCEPT !.old = FALSE] /\ UNCHANGED puts
       ELSE puts' = [puts EXCEPT ![h] = [at |-> "db", ver |-> report, old |-> FALSE]] /\ UNCHANGED entry
    /\ UNCHANGED <<report, row, sweeping, agentFaults>>

(* Put compares with the entry; a report like it leaves everything, its time too. *)
ReportStatus(h) ==
    /\ puts[h] = NoPut /\ entry.ver # report
    /\ puts' = [puts EXCEPT ![h] = [at |-> "db", ver |-> report, old |-> FALSE]]
    /\ UNCHANGED <<report, row, entry, sweeping, agentFaults>>

(* A statement that fails is only logged. *)
UpdateAgent(h) ==
    /\ puts[h].at = "db"
    /\ \/ row' = puts[h].ver /\ UNCHANGED agentFaults
       \/ AgentFault /\ UNCHANGED row
    /\ puts' = [puts EXCEPT ![h].at = "memory"]
    /\ UNCHANGED <<report, entry, sweeping>>

PutEntry(h) ==
    /\ puts[h].at = "memory"
    /\ entry' = [ver |-> puts[h].ver, old |-> puts[h].old]
    /\ puts' = [puts EXCEPT ![h] = NoPut]
    /\ UNCHANGED <<report, row, sweeping, agentFaults>>

(* A day passes, for the entry and for a Put that hangs. *)
DayPasses ==
    /\ entry # NoEntry /\ ~entry.old
    /\ entry' = [entry EXCEPT !.old = TRUE]
    /\ puts' = [h \in Handlers |-> IF puts[h] = NoPut THEN NoPut ELSE [puts[h] EXCEPT !.old = TRUE]]
    /\ UNCHANGED <<report, row, sweeping, agentFaults>>

(* The daily sweep looks at the entry, and deletes it in a second section. *)
deleteStaleAgents ==
    \/ /\ ~sweeping /\ entry.old /\ sweeping' = TRUE
       /\ UNCHANGED <<report, row, entry, puts, agentFaults>>
    \/ /\ sweeping /\ sweeping' = FALSE /\ entry' = NoEntry
       /\ UNCHANGED <<report, row, puts, agentFaults>>

Restart ==
    /\ AgentFault
    /\ entry' = NoEntry /\ sweeping' = FALSE
    /\ puts' = [h \in Handlers |-> NoPut]
    /\ UNCHANGED <<report, row>>

----------------------------------------------------------------------------
HbsAgentStep ==
    \/ AgentChanges \/ DayPasses \/ deleteStaleAgents \/ Restart
    \/ \E h \in Handlers : ReportStatus(h) \/ UpdateAgent(h) \/ PutEntry(h)

(* The agent reports every minute, statements return, days pass and the sweep     *)
(* runs every day.                                                                *)
HbsAgentFairness ==
    /\ WF_hbsAgentVars(\E h \in Handlers : ReportStatus(h))
    /\ \A h \in Handlers : WF_hbsAgentVars(UpdateAgent(h) \/ PutEntry(h))
    /\ WF_hbsAgentVars(DayPasses) /\ WF_hbsAgentVars(deleteStaleAgents)

(* A statement that failed, or a slow handler that wrote an older report over a   *)
(* newer one, leaves the host row wrong and the entry saying it is right. It does *)
(* not stay wrong: the entry is dropped a day after it was made, reports or not,  *)
(* and the next report writes the row again.                                      *)
HostRowHeals == <>[](row = report)

============================================================================
