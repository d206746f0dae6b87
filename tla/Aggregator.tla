----------------------------- MODULE Aggregator -----------------------------
(* aggregator: for every row of the portal's cluster table a goroutine computes,  *)
(* once per step, one value of a group of hosts and pushes it as a point of its   *)
(* own. The rows are read again and again; a row whose key (id and last_update)   *)
(* is new gets a goroutine, a goroutine whose key is gone is told to quit.        *)
(* last_update counts in seconds.                                                 *)
EXTENDS Integers, Sequences, FiniteSets, FiniteSetsExt, SequencesExt, Functions

CONSTANTS ClusterIds,    \* rows of the table
          ClusterItems,  \* what a row may hold: [step, num, den], see compute
          AggHosts,      \* the hosts of the group
          Counters,      \* the counters the expressions name
          HostValues,    \* values of counters; floats are integers here
          MaxSecond, MaxRowEdits

ASSUME AggAssumption == MaxSecond \in Nat /\ MaxRowEdits \in Nat

(* Counters have numbers as values, and an expression names counters. *)
ASSUME ExprAssumption ==
    /\ IsFiniteSet(AggHosts) /\ HostValues \subseteq Int
    /\ \A x \in ClusterItems : x.num.kind = "expr" => x.num.operands \in Seq(Counters)

VARIABLES clusterRows,   \* the table: per id "none" or the item and its last_update
          second,        \* the clock of MySQL
          rowEdits,
          itemsRead,     \* what ReadClusterMonitorItems returned, before it is applied
          aggWorkers,    \* goroutines: key, item, told to quit or not
          aggPushed,     \* the value pushed in the last step and what it was made of
          aggSeen        \* history: rows the last refresh had as they are now

aggregatorVars == <<clusterRows, second, rowEdits, itemsRead, aggWorkers, aggPushed, aggSeen>>

NoRow == [item |-> {}, at |-> 0, twice |-> FALSE]
NotReading == [busy |-> FALSE, rows |-> {}]
NothingPushed == {}

AggregatorInit ==
    /\ clusterRows = [i \in ClusterIds |-> NoRow]
    /\ second = 1 /\ rowEdits = 0
    /\ itemsRead = NotReading /\ aggWorkers = {} /\ aggPushed = NothingPushed
    /\ aggSeen = {}

----------------------------------------------------------------------------
(* The table and its refresh.                                                     *)

(* The api writes a row; MySQL stamps it with the second. twice: the row had      *)
(* other contents earlier in this second. An id is not used again.                *)
EditRow(i) ==
    /\ rowEdits < MaxRowEdits /\ rowEdits' = rowEdits + 1
    /\ clusterRows[i].item # {} \/ clusterRows[i].at = 0
    /\ \E item \in {{x} : x \in ClusterItems} \cup {{}} :
         /\ item # clusterRows[i].item
         /\ clusterRows' = [clusterRows EXCEPT ![i] =
                [item |-> item, at |-> second, twice |-> @.at = second /\ @.item # {}]]
    /\ aggSeen' = aggSeen \ {i} /\ aggPushed' = NothingPushed
    /\ UNCHANGED <<second, itemsRead, aggWorkers>>

NextSecond ==
    /\ second < MaxSecond /\ second' = second + 1
    /\ aggPushed' = NothingPushed
    /\ UNCHANGED <<clusterRows, rowEdits, itemsRead, aggWorkers, aggSeen>>

(* A row that cannot be scanned is skipped, and so are all after a connection     *)
(* that breaks: what is read may be less than what is there.                      *)
ReadClusterMonitorItems ==
    /\ ~ itemsRead.busy
    /\ \E ids \in SUBSET {i \in ClusterIds : clusterRows[i].item # {}} :
         /\ itemsRead' = [busy |-> TRUE,
                          rows |-> {[id |-> i, at |-> clusterRows[i].at, item |-> clusterRows[i].item] : i \in ids}]
         /\ aggSeen' = ids \cup {i \in ClusterIds : clusterRows[i].item = {}}
    /\ aggPushed' = NothingPushed
    /\ UNCHANGED <<clusterRows, second, rowEdits, aggWorkers>>

(* Slip: a goroutine is kept as long as its row is there. *)
SameIdOnly(w, row) == w.id = row.id
(* The key of Workers: id and last_update. *)
SameKey(w, row) == w.id = row.id /\ w.at = row.at

Valid(row) == \A x \in row.item : x.step > 0
deleteNoUseWorker(rows) ==
    {IF \E row \in rows : SameKey(w, row) THEN w ELSE [w EXCEPT !.quit = TRUE] : w \in aggWorkers}
createWorkerIfNeed(rows) ==
    {[id |-> row.id, at |-> row.at, item |-> row.item, quit |-> FALSE] :
        row \in {r \in rows : Valid(r) /\ ~ \E w \in aggWorkers : ~ w.quit /\ SameKey(w, r)}}

updateItems ==
    /\ itemsRead.busy
    /\ aggWorkers' = deleteNoUseWorker(itemsRead.rows) \cup createWorkerIfNeed(itemsRead.rows)
    /\ itemsRead' = NotReading /\ aggPushed' = NothingPushed
    /\ UNCHANGED <<clusterRows, second, rowEdits, aggSeen>>

----------------------------------------------------------------------------
(* The computation. An expression is the number of hosts ($#), a number, or       *)
(* counters joined by + and -, maybe compared with a number.                      *)

Expr(operands, operators, cmp) ==
    [kind |-> "expr", operands |-> operands, operators |-> operators, cmp |-> cmp]
CountOfHosts == [kind |-> "count"]
needCompute(e) == e.kind = "expr"

compareSum(sum, cmp) ==
    CASE cmp.op = ">"  -> sum > cmp.val
      [] cmp.op = "<"  -> sum < cmp.val
      [] cmp.op = "="  -> sum = cmp.val
      [] cmp.op = ">=" -> sum >= cmp.val
      [] cmp.op = "<=" -> sum <= cmp.val

(* vals has the values the hosts answered with, none for a point that is too old. *)
Computable(e, vals, h) ==
    needCompute(e) => /\ e.operands # <<>>
                      /\ \A k \in DOMAIN e.operands : vals[h][e.operands[k]] # {}
valueOf(s) == CHOOSE v \in s : TRUE
compute(e, vals, h) ==
    IF ~ needCompute(e) THEN 0
    ELSE LET v(k) == valueOf(vals[h][e.operands[k]])
             sum == SumFunction([k \in DOMAIN e.operands |->
                                   IF k = 1 \/ e.operators[k - 1] = "+" THEN v(k) ELSE 0 - v(k)])
         IN IF e.cmp = {} THEN sum
            ELSE IF compareSum(sum, valueOf(e.cmp)) THEN 1 ELSE 0

(* Hosts that have the values of both expressions; the others are left out. *)
ValidHosts(item, vals) ==
    {h \in AggHosts : Computable(item.num, vals, h) /\ Computable(item.den, vals, h)}

(* Slip: a host without the values counts all the same. *)
TotalOfGroup(e, vals, hosts) ==
    CASE e.kind = "expr"   -> SumFunction([h \in hosts |-> compute(e, vals, h)])
      [] e.kind = "count"  -> Cardinality(AggHosts)
      [] e.kind = "number" -> e.number

Total(e, vals, hosts) ==
    CASE e.kind = "expr"   -> SumFunction([h \in hosts |-> compute(e, vals, h)])
      [] e.kind = "count"  -> Cardinality(hosts)
      [] e.kind = "number" -> e.number

(* A goroutine that was told to quit may still find its ticker first. *)
WorkerRun(w) ==
    /\ aggPushed = NothingPushed
    /\ needCompute(valueOf(w.item).num) \/ needCompute(valueOf(w.item).den)
    /\ \E vals \in [AggHosts -> [Counters -> {{}} \cup {{v} : v \in HostValues}]] :
         LET item == valueOf(w.item)
             hosts == ValidHosts(item, vals)
             num == Total(item.num, vals, hosts)
             den == Total(item.den, vals, hosts)
         IN /\ den # 0 /\ hosts # {}
            /\ aggPushed' = {[item |-> item, vals |-> vals, num |-> num, den |-> den]}
    /\ UNCHANGED <<clusterRows, second, rowEdits, itemsRead, aggWorkers, aggSeen>>

WorkerQuits(w) ==
    /\ w.quit
    /\ aggWorkers' = aggWorkers \ {w} /\ aggPushed' = NothingPushed
    /\ UNCHANGED <<clusterRows, second, rowEdits, itemsRead, aggSeen>>

AggregatorStep ==
    \/ \E i \in ClusterIds : EditRow(i)
    \/ NextSecond \/ ReadClusterMonitorItems \/ updateItems
    \/ \E w \in aggWorkers : WorkerRun(w) \/ WorkerQuits(w)

AggSpec == AggregatorInit /\ [][AggregatorStep]_aggregatorVars

----------------------------------------------------------------------------
(* The goroutines follow the table: when a refresh is done, every row it had and  *)
(* that has not changed since is computed by exactly one goroutine, from what the *)
(* row says now, and a row that is gone by none. Left out is a row written twice  *)
(* in one second, whose goroutine may have the earlier contents for good          *)
(* (updateItems, the key of Workers).                                             *)
WorkersFollow ==
    ~ itemsRead.busy =>
        \A i \in aggSeen :
            LET live == {w \in aggWorkers : w.id = i /\ ~ w.quit}
            IN ~ clusterRows[i].twice =>
                 IF clusterRows[i].item # {} /\ Valid(clusterRows[i])
                 THEN Cardinality(live) = 1 /\ \A w \in live : w.item = clusterRows[i].item
                 ELSE live = {}

(* A value divided by the number of hosts is a mean or a share of the values that *)
(* went into it: it lies between the least and the greatest value some host       *)
(* answered with, or between 0 and 1 for a comparison, also when hosts are silent *)
(* (WorkerRun, compute).                                                          *)
MeanInRange ==
    \A p \in aggPushed : p.item.den.kind = "count" =>
        LET each == {compute(p.item.num, p.vals, h) : h \in {g \in AggHosts : Computable(p.item.num, p.vals, g)}}
        IN /\ Min(each) * p.den <= p.num /\ p.num <= Max(each) * p.den
           /\ p.item.num.kind = "expr" /\ p.item.num.cmp # {} => 0 <= p.num /\ p.num <= p.den

============================================================================
