------------------------------ MODULE Migration ------------------------------
(* graph after the cluster was enlarged: one series whose rrd file may still be   *)
(* on the node that kept it before. Until the file is here the series is marked   *)
(* as missing; syncDisk then asks the workers of the old node to pull it. A       *)
(* worker fetches the file, or, when flushing is slow, sends the points of the    *)
(* series to the old node instead. The interleavings of handleItems, commits and  *)
(* the shutdown among themselves are GraphStore's; here each is one or two steps. *)
EXTENDS Naturals, Sequences, FiniteSets, SequencesExt

CONSTANTS MigrateWorkers,    \* net_task_worker goroutines, Migrate.Concurrency
          TaskCap,           \* capacity of Net_task_ch, 16 in the code
          MaxTries,          \* calls of one task, 3 in the code
          MaxTs,             \* points of the series come with 1 .. MaxTs
          MaxShutdowns,      \* restarts of one behaviour
          MaxMigrateFaults,  \* calls, and writes to the disk of this node, that fail in
                             \* one behaviour
          Slow               \* BOOLEAN: a round of FlushRRD may exceed its second

ASSUME MigrationAssumption ==
    /\ TaskCap \in Nat \ {0} /\ MaxTries \in Nat \ {0} /\ MaxTs \in Nat
    /\ MaxShutdowns \in Nat /\ MaxMigrateFaults \in Nat /\ Slow \in BOOLEAN

VARIABLES series,      \* the list in GraphItems: in the map or not, its Flag (of the
                       \* bits only GRAPH_F_MISS is ever read), its points
          tasks,       \* Net_task_ch: PULL tasks of the series
          worker,      \* local state of each net_task_worker
          committing,  \* points CommitByKey popped and ioWorker has not written
          file,        \* the rrd file of this node: is it there, is it broken (written
                       \* in part), the points in it
          oldNode,     \* what the old node, whose disk works, has of the series: its
                       \* file, the cached points, requests not yet handled
          shutdowns, migrateFaults,
          past         \* history: points taken, points a shutdown or a failing disk
                       \* dropped, and whether a shutdown left a file without the
                       \* points from before

migrationVars == <<series, tasks, worker, committing, file, oldNode, shutdowns, migrateFaults, past>>

History == 0           \* stands for the points from before the change
NoSeries == [here |-> FALSE, miss |-> FALSE, items |-> <<>>]
IdleWorker == [pc |-> "idle", what |-> "fetch", miss |-> FALSE, try |-> 1, items |-> <<>>, body |-> {}]
PointsOf(w) == IF worker[w].pc = "call" THEN Range(worker[w].items) ELSE {}
WorkerPts == UNION {PointsOf(w) : w \in MigrateWorkers}

MigrationInit ==
    /\ series = NoSeries /\ tasks = 0 /\ committing = <<>>
    /\ worker = [w \in MigrateWorkers |-> IdleWorker]
    /\ file = [made |-> FALSE, broken |-> FALSE, pts |-> {}]
    /\ \E pts \in {{}, {History}} :
         oldNode = [made |-> pts # {}, pts |-> pts, cached |-> {}, inbox |-> {}]
    /\ shutdowns = 0 /\ migrateFaults = 0
    /\ past = [taken |-> {}, dropped |-> {}, cut |-> FALSE]

----------------------------------------------------------------------------
(* Points arrive; syncDisk pulls or commits.                                      *)

(* A new list is marked as missing when there is no file (handleItems, PushFront). *)
Received(ts) ==
    IF series.here THEN [series EXCEPT !.items = <<ts>> \o @]
    ELSE [here |-> TRUE, miss |-> ~ file.made, items |-> <<ts>>]

ReceivePoint(ts) ==
    /\ ts \notin past.taken
    /\ series.items # <<>> => ts > Head(series.items)
    /\ series' = Received(ts)
    /\ past' = [past EXCEPT !.taken = @ \cup {ts}]
    /\ UNCHANGED <<tasks, worker, committing, file, oldNode, shutdowns, migrateFaults>>

(* Nothing to pull for an empty list; a full channel blocks syncDisk. *)
PullByKey ==
    /\ series.miss /\ series.items # <<>>
    /\ tasks < TaskCap
    /\ tasks' = tasks + 1
    /\ UNCHANGED <<series, worker, committing, file, oldNode, shutdowns, migrateFaults, past>>

(* How long points wait is left open. *)
CommitPops ==
    /\ ~ series.miss /\ series.items # <<>>
    /\ committing = <<>>
    /\ committing' = Reverse(series.items)
    /\ series' = [series EXCEPT !.items = <<>>]
    /\ UNCHANGED <<tasks, worker, file, oldNode, shutdowns, migrateFaults, past>>

(* What is taken of items, in their order, when nothing is that is not newer than *)
(* all before it: by rrd, which has pts in the file, and by handleItems, which    *)
(* has pts in the list.                                                           *)
Appended(pts, items) ==
    pts \cup {items[i] : i \in {j \in DOMAIN items :
        (\A t \in pts : t < items[j]) /\ \A k \in 1 .. j - 1 : items[k] < items[j]}}

Fault == migrateFaults < MaxMigrateFaults /\ migrateFaults' = migrateFaults + 1

(* flushrrd creates a missing file and updates it. On a failing disk, and for a   *)
(* file that is broken, it returns an error and some of the items are not in it.  *)
Flushed(items) == file' = [file EXCEPT !.made = TRUE, !.pts = Appended(file.pts, items)]
FlushFile(items) == ~ file.broken /\ Flushed(items) /\ UNCHANGED migrateFaults

FlushFails(items) ==
    /\ IF file.broken THEN UNCHANGED migrateFaults ELSE Fault
    /\ \/ UNCHANGED file
       \/ ~ file.broken /\ \E n \in 0 .. Len(items) - 1 : Flushed(SubSeq(items, 1, n))

(* The error is not looked at. *)
CommitWrites ==
    /\ committing # <<>>
    /\ \/ FlushFile(committing) /\ UNCHANGED past
       \/ /\ FlushFails(committing)
          /\ past' = [past EXCEPT !.dropped = @ \cup Range(committing)]
    /\ committing' = <<>>
    /\ UNCHANGED <<series, tasks, worker, oldNode, shutdowns>>

----------------------------------------------------------------------------
(* net_task_worker. The flag is read once and written twice.                      *)

SetFlag(miss) == series' = IF series.here THEN [series EXCEPT !.miss = miss] ELSE series
Worker(w, state) == worker' = [worker EXCEPT ![w] = state]

(* The task is taken, a slow round turns the pull into a send, GetFlag. *)
TakeTask(w) ==
    /\ worker[w].pc = "idle" /\ tasks > 0
    /\ tasks' = tasks - 1
    /\ \E what \in {"fetch"} \cup (IF Slow THEN {"send"} ELSE {}) :
         Worker(w, IF series.here
                   THEN [IdleWorker EXCEPT !.pc = "mark", !.what = what, !.miss = series.miss]
                   ELSE IdleWorker)
    /\ UNCHANGED <<series, committing, file, oldNode, shutdowns, migrateFaults, past>>

MarkFlag(w) ==
    /\ worker[w].pc = "mark"
    /\ SetFlag(worker[w].miss)
    /\ Worker(w, [worker[w] EXCEPT !.pc = IF worker[w].what = "send" THEN "pop" ELSE "call"])
    /\ UNCHANGED <<tasks, committing, file, oldNode, shutdowns, migrateFaults, past>>

PopToSend(w) ==
    /\ worker[w].pc = "pop"
    /\ Worker(w, [worker[w] EXCEPT !.pc = IF series.items = <<>> THEN "out" ELSE "call",
                                   !.items = Reverse(series.items)])
    /\ series' = [series EXCEPT !.items = <<>>]
    /\ UNCHANGED <<tasks, committing, file, oldNode, shutdowns, migrateFaults, past>>

(* Graph.Send to the old node answers and leaves the items to a goroutine. A call *)
(* repeated after a fault is another request.                                     *)
SendArrives(w) ==
    oldNode' = [oldNode EXCEPT !.inbox = @ \cup {[items |-> worker[w].items, call |-> migrateFaults]}]

send_data(w) ==
    /\ worker[w].pc = "call" /\ worker[w].what = "send"
    /\ SendArrives(w)
    /\ Worker(w, [worker[w] EXCEPT !.pc = "out", !.items = <<>>])
    /\ UNCHANGED <<series, tasks, committing, file, shutdowns, migrateFaults, past>>

(* handleItems on the old node, where an item not newer than the newest in the    *)
(* list is skipped; the list is in the order of time.                             *)
handleItems(q) ==
    /\ q \in oldNode.inbox
    /\ oldNode' = [oldNode EXCEPT !.inbox = @ \ {q}, !.cached = Appended(@, q.items)]
    /\ UNCHANGED <<series, tasks, worker, committing, file, shutdowns, migrateFaults, past>>

(* Its list after a flush into its file. *)
OldFlushed ==
    [oldNode EXCEPT !.made = @ \/ oldNode.cached # {}, !.cached = {},
                    !.pts = @ \cup {t \in oldNode.cached : \A u \in @ : u < t}]

OldCommits ==
    /\ oldNode.cached # {}
    /\ oldNode' = OldFlushed
    /\ UNCHANGED <<series, tasks, worker, committing, file, shutdowns, migrateFaults, past>>

(* PushAll puts the points behind the newer ones that came meanwhile. *)
PushAll(items) == Reverse(items)

(* A failed call, its request may have arrived; the last one gives the points     *)
(* back. A lost connection is dialled until it is back.                           *)
sendFails(w) ==
    /\ worker[w].pc = "call" /\ worker[w].what = "send"
    /\ Fault
    /\ SendArrives(w) \/ UNCHANGED oldNode
    /\ IF worker[w].try < MaxTries
       THEN Worker(w, [worker[w] EXCEPT !.try = worker[w].try + 1]) /\ UNCHANGED series
       ELSE /\ Worker(w, [worker[w] EXCEPT !.pc = "out", !.items = <<>>])
            /\ series' = IF series.here THEN [series EXCEPT !.items = @ \o PushAll(worker[w].items)]
                         ELSE series
    /\ UNCHANGED <<tasks, committing, file, shutdowns, past>>

(* Graph.GetRrd answers with the file of the old node, its cached points flushed. *)
GetRrd(w) ==
    /\ worker[w].pc = "call" /\ worker[w].what = "fetch"
    /\ oldNode' = OldFlushed
    /\ oldNode'.made
    /\ Worker(w, [worker[w] EXCEPT !.pc = "write", !.body = OldFlushed.pts])
    /\ UNCHANGED <<series, tasks, committing, file, shutdowns, migrateFaults, past>>

(* It fails: a fault, before or after it was served, or the old node has no such  *)
(* file.                                                                          *)
GetRrdFails(w) ==
    /\ worker[w].pc = "call" /\ worker[w].what = "fetch"
    /\ \/ ~ OldFlushed.made /\ UNCHANGED <<oldNode, migrateFaults>>
       \/ /\ Fault
          /\ oldNode' \in {oldNode, OldFlushed}
    /\ Worker(w, IF worker[w].try < MaxTries THEN [worker[w] EXCEPT !.try = worker[w].try + 1]
                 ELSE [worker[w] EXCEPT !.pc = "out"])
    /\ UNCHANGED <<series, tasks, committing, file, shutdowns, past>>

(* Slip: a file that is already there is replaced. *)
writeFileOver(body) ==
    file' = [made |-> TRUE, broken |-> FALSE, pts |-> body] /\ UNCHANGED migrateFaults

(* The file must not exist (O_EXCL). *)
writeFile(body) ==
    ~ file.made /\ file' = [made |-> TRUE, broken |-> FALSE, pts |-> body] /\ UNCHANGED migrateFaults

(* ... or it is not opened, or left with a part of the body. *)
writeFileFails ==
    \/ file.made /\ UNCHANGED <<file, migrateFaults>>
    \/ ~ file.made /\ Fault /\ file' \in {file, [made |-> TRUE, broken |-> TRUE, pts |-> {}]}

fetch_rrd(w) ==
    /\ worker[w].pc = "write"
    /\ \E written \in BOOLEAN :
         /\ IF written THEN writeFile(worker[w].body) ELSE writeFileFails
         /\ Worker(w, [worker[w] EXCEPT !.pc = "out", !.body = {}, !.miss = @ /\ ~ written])
    /\ UNCHANGED <<series, tasks, committing, oldNode, shutdowns, past>>

(* Slip: the series is no longer missing once it was tried. *)
TaskDoneFound(w) ==
    /\ worker[w].pc = "out"
    /\ SetFlag(FALSE)
    /\ Worker(w, IdleWorker)
    /\ UNCHANGED <<tasks, committing, file, oldNode, shutdowns, migrateFaults, past>>

(* The flag of before is written back. An error that comes over rpc is none of    *)
(* the os package, so os.IsNotExist does not hold and nothing is committed.       *)
TaskDone(w) ==
    /\ worker[w].pc = "out"
    /\ SetFlag(worker[w].miss)
    /\ Worker(w, IdleWorker)
    /\ UNCHANGED <<tasks, committing, file, oldNode, shutdowns, migrateFaults, past>>

net_task_worker(w) ==
    \/ TakeTask(w) \/ MarkFlag(w) \/ PopToSend(w) \/ send_data(w) \/ sendFails(w)
    \/ GetRrd(w) \/ GetRrdFails(w) \/ fetch_rrd(w) \/ TaskDone(w)

----------------------------------------------------------------------------
(* A shutdown flushes the list into the file of this node whatever its flag, and  *)
(* does not wait for the workers.                                                 *)
Shutdown ==
    /\ shutdowns < MaxShutdowns /\ shutdowns' = shutdowns + 1
    /\ \E flushed \in BOOLEAN :
         /\ IF series.items = <<>> THEN flushed /\ UNCHANGED <<file, migrateFaults>>
            ELSE IF flushed THEN FlushFile(Reverse(series.items)) ELSE FlushFails(Reverse(series.items))
         /\ past' = [past EXCEPT
              !.dropped = @ \cup Range(committing) \cup WorkerPts
                            \cup (IF flushed THEN {} ELSE Range(series.items)),
              !.cut = @ \/ file'.broken \/ (file'.made /\ ~ file.made)]
    /\ series' = NoSeries /\ tasks' = 0 /\ committing' = <<>>
    /\ worker' = [w \in MigrateWorkers |-> IdleWorker]
    /\ UNCHANGED oldNode

MigrationStep ==
    \/ \E ts \in 1..MaxTs : ReceivePoint(ts)
    \/ PullByKey \/ CommitPops \/ CommitWrites
    \/ \E w \in MigrateWorkers : net_task_worker(w)
    \/ OldCommits \/ \E q \in oldNode.inbox : handleItems(q)
    \/ Shutdown

(* syncDisk comes round, its worker goes on. *)
MigrationFairness ==
    /\ WF_migrationVars(PullByKey) /\ WF_migrationVars(CommitPops) /\ WF_migrationVars(CommitWrites)
    /\ \A w \in MigrateWorkers : WF_migrationVars(net_task_worker(w))

MigrationSpec == MigrationInit /\ [][MigrationStep]_migrationVars

MigrationFairSpec == MigrationSpec /\ MigrationFairness

----------------------------------------------------------------------------
MigrationTypeOK ==
    /\ series.miss \in BOOLEAN /\ tasks \in 0..TaskCap
    /\ \A w \in MigrateWorkers : worker[w].pc \in {"idle", "mark", "pop", "call", "write", "out"}
    /\ migrateFaults \in 0..MaxMigrateFaults /\ shutdowns \in 0..MaxShutdowns

(* What Graph.Query reads besides the list: the old node while the flag says so,  *)
(* else the file.                                                                 *)
AtOldNode == oldNode.pts \cup oldNode.cached
Answering == IF series.miss THEN AtOldNode ELSE file.pts

(* The points from before the change can be read all the time, from the old node  *)
(* or from this one, however fetches, sends and commits interleave and the disk   *)
(* fails; only a shutdown cuts them off, that begins the file itself or finds one *)
(* that was written in part (Graph.Query, fetch_rrd, writeFile).                  *)
HistoryReadable ==
    series.here /\ History \in oldNode.pts /\ ~ past.cut => History \in Answering

InboxPts == UNION {Range(q.items) : q \in oldNode.inbox}

(* A point that was taken is in the list, with a worker, with a commit, in the    *)
(* file, or at the old node or on its way there. Unless a shutdown or a failing   *)
(* disk dropped it, it only is missing when a newer one got into the file, or to  *)
(* the old node, before it: a send that failed is repeated with points that are   *)
(* skipped by then (send_data, PushAll, handleItems).                             *)
MigrationKeeps ==
    \A p \in past.taken \ past.dropped :
        \/ p \in Range(series.items) \cup Range(committing) \cup InboxPts \cup WorkerPts
        \/ \E q \in file.pts \cup AtOldNode : q >= p

(* The points of a series the old node does not have are flushed into a file of   *)
(* this node (migrate.go: "文件不存在时，直接将缓存数据刷入本地").                *)
NewSeriesFlushed ==
    (series.items # <<>> /\ ~ oldNode.made) ~> (file.made \/ oldNode.made)

============================================================================
