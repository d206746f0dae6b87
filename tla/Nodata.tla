------------------------------- MODULE Nodata -------------------------------
(* nodata asks graph for the last point of each series it watches and, when a     *)
(* series falls silent, sends a point with an agreed mock value in its place, on  *)
(* which judge can alarm. One series; time is counted in its steps, and every     *)
(* timestamp is kept as its age, which is all the code looks at.                  *)
EXTENDS Naturals, Sequences, FiniteSets, SequencesExt

CONSTANTS Horizon,          \* ages beyond are one
          MockRows,         \* contents of table mockcfg, for the series: sequences of rows
          MaxNodataFaults   \* queries, fetches and posts that fail

ASSUME NodataAssumption == Horizon \in Nat /\ MaxNodataFaults \in Nat

VARIABLES reals,        \* ages of the points the agent has sent, up to genTs
          last,         \* the last point graph has: its age and whether it is a mock
          rows,         \* table mockcfg
          conf,         \* NdConfigMap: the row in force, if any
          item,         \* the newest DataItem
          status,       \* StatusMap; its age, 1 for a step and more
          mock,         \* MockMap: age of the mock that waits, if any
          sending,      \* sendMock: what it has copied, and whether it has cleared the map
          done,         \* which crons have run in this step
          outage,       \* history: steps since the last fetch, up to 2
          taken,        \* history: the last mock was made for a step with a real point
          nodataFaults

nodataVars == <<reals, last, rows, conf, item, status, mock, sending, done, outage, taken, nodataFaults>>

(* A point counts as late after three steps, and a mock is made for two steps     *)
(* back. *)
getTimeout == 3

(* Slip: mocks are made for the step before. *)
genTsLate == 1
genTs == 2

NoPoint == [some |-> FALSE, age |-> 0, mock |-> FALSE]
NoItem == [some |-> FALSE, age |-> 0, mock |-> FALSE, fage |-> 0]
NoMock == [some |-> FALSE, age |-> 0]
NoRow == "none"
Point == [some : BOOLEAN, age : 0..Horizon, mock : BOOLEAN]
Mock == [some : BOOLEAN, age : 0..Horizon]

NodataTypeOK ==
    /\ reals \subseteq 0..genTs /\ last \in Point
    /\ item \in [some : BOOLEAN, age : 0..Horizon, mock : BOOLEAN, fage : 0..Horizon]
    /\ mock \in Mock /\ sending.mock \in Mock
    /\ status.of \in {"none", "OK", "NODATA"} /\ status.age \in 0..1

NodataInit ==
    /\ reals = {} /\ last = NoPoint
    /\ rows \in MockRows /\ conf = NoRow /\ item = NoItem
    /\ status = [of |-> "none", age |-> 1]
    /\ mock = NoMock /\ sending = [at |-> "idle", mock |-> NoMock]
    /\ done = {} /\ outage = 0 /\ taken = [hit |-> FALSE, outage |-> 0]
    /\ nodataFaults = 0

NodataFault == nodataFaults < MaxNodataFaults /\ nodataFaults' = nodataFaults + 1

----------------------------------------------------------------------------
(* The world: points of the agent, the clock.                                     *)

Report ==
    /\ 0 \notin reals
    /\ reals' = reals \cup {0} /\ last' = [some |-> TRUE, age |-> 0, mock |-> FALSE]
    /\ UNCHANGED <<rows, conf, item, status, mock, sending, done, outage, taken, nodataFaults>>

Older(a) == IF a < Horizon THEN a + 1 ELSE a

(* A step passes once the crons have run (collector every 20 seconds, judge every *)
(* minute); a sender, with the timeouts of its posts, may need part of the next.  *)
Tick ==
    /\ done = {"collect", "judge"} /\ done' = {}
    /\ sending.at = "idle" \/ sending.mock.age <= genTs
    /\ reals' = {a + 1 : a \in reals \ {genTs}}
    /\ last' = IF last.some THEN [last EXCEPT !.age = Older(@)] ELSE last
    /\ item' = IF item.some THEN [item EXCEPT !.age = Older(@), !.fage = Older(@)] ELSE item
    /\ status' = [status EXCEPT !.age = 1]
    /\ mock' = IF mock.some THEN [mock EXCEPT !.age = Older(@)] ELSE mock
    /\ sending' = IF sending.at = "idle" THEN sending ELSE [sending EXCEPT !.mock.age = Older(@)]
    /\ outage' = IF outage < 2 THEN outage + 1 ELSE 2
    /\ UNCHANGED <<rows, conf, taken, nodataFaults>>

----------------------------------------------------------------------------
(* Configuration.                                                                 *)

(* Rows of a wrong type or step are refused, and rows that do not lead to the     *)
(* endpoint: it is named, or in a group that is named and not under maintenance.  *)
checkMockCfg(r) == r.metric /\ r.gauge /\ r.step > 0
GetHostsFromGroup(r) == r.member /\ ~r.maintain
getEndpoint(r) ==
    /\ r.named
    /\ r.objType \in {"host", "group", "other"}
    /\ r.objType = "group" => GetHostsFromGroup(r)

(* Of rows for the same series a later row for a host wins over one for a group.  *)
isSpuerNodataCfg(a, b) == ~(a.objType = "group" /\ b.objType = "host")
GetMockCfgFromDB(rs) ==
    LET good == SelectSeq(rs, LAMBDA r : checkMockCfg(r) /\ getEndpoint(r))
    IN IF good = <<>> THEN NoRow
       ELSE FoldLeft(LAMBDA a, b : IF isSpuerNodataCfg(a, b) THEN a ELSE b, Head(good), Tail(good)).objType

(* A query that fails gives an empty map, which replaces the old one. *)
syncNdConfig ==
    /\ \/ conf' = GetMockCfgFromDB(rows) /\ UNCHANGED nodataFaults
       \/ NodataFault /\ conf' = NoRow
    /\ UNCHANGED <<reals, last, rows, item, status, mock, sending, done, outage, taken>>

----------------------------------------------------------------------------
(* The collector.                                                                 *)
Collected == done' = done \cup {"collect"}

AddItem(p) == item' = [some |-> TRUE, age |-> p.age, mock |-> p.mock, fage |-> 0]

fetchItemsAndStore ==
    /\ Collected
    /\ \/ /\ conf = NoRow /\ UNCHANGED <<item, outage, nodataFaults>>
       \/ /\ conf # NoRow /\ last.some
          /\ AddItem(last) /\ outage' = 0 /\ UNCHANGED nodataFaults
       \/ /\ conf # NoRow /\ ~last.some /\ outage' = 0 /\ UNCHANGED <<item, nodataFaults>>
       \/ /\ conf # NoRow /\ NodataFault /\ UNCHANGED <<item, outage>>
    /\ UNCHANGED <<reals, last, rows, conf, status, mock, sending, taken>>

----------------------------------------------------------------------------
(* Judging.                                                                       *)
genMock ==
    /\ mock' = [some |-> TRUE, age |-> genTs]
    /\ taken' = [hit |-> genTs \in reals, outage |-> outage]

TurnNodata == status' = [of |-> "NODATA", age |-> 0]
TurnOk == status' = [of |-> "OK", age |-> 0]

(* Slip: the age of the point is taken for that of the fetch. *)
FetchedByTs(i) == i.some /\ i.age <= getTimeout
Fetched(i) == i.some /\ i.fage <= getTimeout

(* A last point that is a mock, or too old. *)
Silent(i) == i.mock \/ i.age > getTimeout

judge ==
    /\ "judge" \notin done /\ done' = done \cup {"judge"}
    /\ \/ /\ conf = NoRow \/ ~Fetched(item)
          /\ UNCHANGED <<status, mock, taken>>
       \/ /\ conf # NoRow /\ Fetched(item)
          /\ \/ ~Silent(item) /\ TurnOk /\ UNCHANGED <<mock, taken>>
             \/ Silent(item) /\ status.age >= 1 /\ TurnNodata /\ genMock
             \/ Silent(item) /\ status.age < 1 /\ UNCHANGED <<status, mock, taken>>
    /\ UNCHANGED <<reals, last, rows, conf, item, sending, outage, nodataFaults>>

----------------------------------------------------------------------------
(* Sending: one sender at a time; the map is copied and cleared in two sections,  *)
(* and a mock that judge puts in between is cleared unsent.                       *)
SendMockOnce ==
    /\ sending.at = "idle" /\ mock.some
    /\ sending' = [at |-> "sliced", mock |-> mock]
    /\ UNCHANGED <<reals, last, rows, conf, item, status, mock, done, outage, taken, nodataFaults>>

Clear ==
    /\ sending.at = "sliced"
    /\ sending' = [sending EXCEPT !.at = "out"]
    /\ mock' = NoMock
    /\ UNCHANGED <<reals, last, rows, conf, item, status, done, outage, taken, nodataFaults>>

(* graph keeps the mock unless it has a newer point; a post that fails is dropped.*)
sendItemsToTransfer ==
    /\ sending.at = "out"
    /\ sending' = [at |-> "idle", mock |-> NoMock]
    /\ \/ /\ last' = IF last.some /\ last.age <= sending.mock.age THEN last
                     ELSE [some |-> TRUE, age |-> sending.mock.age, mock |-> TRUE]
          /\ UNCHANGED nodataFaults
       \/ NodataFault /\ UNCHANGED last
    /\ UNCHANGED <<reals, rows, conf, item, status, mock, done, outage, taken>>

----------------------------------------------------------------------------
NodataStep ==
    \/ Report \/ Tick \/ syncNdConfig \/ fetchItemsAndStore \/ judge
    \/ SendMockOnce \/ Clear \/ sendItemsToTransfer

NodataSpec == NodataInit /\ [][NodataStep]_nodataVars

(* The crons run, sending ends; nothing is assumed of the agent. *)
NodataFairness ==
    /\ WF_nodataVars(Tick) /\ WF_nodataVars(syncNdConfig) /\ WF_nodataVars(fetchItemsAndStore)
    /\ WF_nodataVars(judge) /\ WF_nodataVars(SendMockOnce \/ Clear \/ sendItemsToTransfer)

(* judge_cron.go:88, in Chinese: mocks are moved more than one period back so     *)
(* that they do not cover normal values. That is so as long as the collector has  *)
(* not failed for two steps before: however late fetches, judging and the agent's *)
(* points fall, no mock is made for a step in which the agent sent a point.       *)
MockInGap == taken.hit => taken.outage >= 2

(* A series that fell silent for good after it had been seen, and that is         *)
(* configured, gets mocks again and again, whatever failed or was lost before.    *)
NodataReported ==
    (<>[](reals = {}) /\ <>(last.some) /\ GetMockCfgFromDB(rows) # NoRow)
       => []<>(last.mock /\ last.age <= getTimeout)

============================================================================
