----------------------------- MODULE GraphStore -----------------------------
(***************************************************************************)
(* graph's way from a received point to the rrd file, for one series.      *)
(* Graph.Send starts a goroutine (handleItems) that puts the point into    *)
(* the series' list in GraphItems, tells the index of it, and adds it to   *)
(* the HistoryCache behind Graph.Last.  syncDisk, Graph.GetRrd and the     *)
(* shutdown take all points out of the list and hand them, through a       *)
(* channel, to ioWorker for the rrd file; Graph.Query reads the list and   *)
(* then, through the same channel, the file.  Migration is switched off.   *)
(*                                                                         *)
(* The maps and lists have locks, taken for one access at a time: an       *)
(* action is the code between two accesses or channel operations.  A point *)
(* is its timestamp; a repeated one is a repeated delivery by transfer.    *)
(***************************************************************************)
EXTENDS Integers, Sequences, FiniteSets, SequencesExt

CONSTANTS
    Handlers,   \* goroutines of handleItems
    Committers, \* who empties the list: "sync" and maybe "get", "main"
    MaxTs,      \* bound: timestamps of points
    MaxSends,   \* bound: points sent in one behaviour
    MaxQueries, \* bound: calls of Graph.Query
    MaxGets,    \* bound: calls of GetRrd
    HistorySize,\* points kept in HistoryCache, 3 in the code
    IoCap,      \* capacity of io_task_chan, 16 in the code
    MaxCleans,  \* bound: rounds of CleanCache, one a day
    Fails       \* BOOLEAN: flushrrd and MySQL may return errors

ASSUME StoreAssumption ==
    /\ Committers \subseteq {"sync", "main", "get"}
    /\ MaxTs \in Nat \ {0} /\ MaxSends \in Nat /\ MaxQueries \in Nat /\ MaxGets \in Nat
    /\ IoCap \in Nat \ {0} /\ HistorySize \in Nat \ {0}
    /\ MaxCleans \in Nat /\ Fails \in BOOLEAN

VARIABLES
    sends,      \* points sent so far
    h,          \* the local state of each handler
    cache,      \* GraphItems: the lists ever made, and the one in the map
    hist,       \* HistoryCache, in the same form
    idx,        \* unIndexedItemCache, IndexedItemCache, updaters, MySQL
    io,         \* io_task_chan
    rrd,        \* the rrd file: whether it exists, and its points, in order of time
    com,        \* the local state of each committer
    q,          \* the local state of a Graph.Query
    reads,      \* queries, calls of GetRrd and cleanings so far
    rpcOpen,    \* connections are still served
    stop,       \* main has told syncDisk to end
    exited,     \* os.Exit
    clean,      \* what CleanCache has found without index
    ghost       \* history: accepted points, late ones, ones in flushes that
                \* failed, and the lists CleanCache removed

handVars == <<sends, h, cache, hist, idx, clean, ghost>>
diskVars == <<io, rrd>>
readVars == <<q, reads>>
downVars == <<rpcOpen, stop, exited>>
vars == <<handVars, diskVars, com, readVars, downVars>>

Times  == 1 .. MaxTs
NoList == 0

IdleHand  == [pc |-> "idle", ts |-> 1, list |-> NoList]
IdleCom   == [pc |-> "idle", items |-> <<>>]
IdleQuery == [pc |-> "idle", cache |-> {}, disk |-> {}, due |-> {}]

\* A map with at most this series in it; lists have the newest point first.
Nothing       == [lists |-> <<>>, entry |-> NoList]
listOf(m)     == IF m.entry = NoList THEN <<>> ELSE m.lists[m.entry]
NewList(m, s) == [m EXCEPT !.lists = Append(@, s)]
Push(m, l, p) == [m EXCEPT !.lists[l] = <<p>> \o @]
Cached        == listOf(cache)

Init ==
    /\ sends = 0
    /\ h = [a \in Handlers |-> IdleHand]
    /\ cache = Nothing
    /\ hist = Nothing
    /\ idx = [un |-> FALSE, done |-> FALSE, updating |-> 0, mysql |-> FALSE]
    /\ io = <<>>
    /\ rrd = [made |-> FALSE, pts |-> {}]
    /\ com = [c \in Committers |-> IdleCom]
    /\ q = IdleQuery
    /\ reads = [query |-> 0, get |-> 0, clean |-> 0]
    /\ rpcOpen = TRUE
    /\ stop = FALSE
    /\ exited = FALSE
    /\ ghost = [accepted |-> {}, late |-> {}, failed |-> {}, gone |-> {}]
    /\ clean = "none"

-----------------------------------------------------------------------------
(* Graph.Send and handleItems.                                             *)

At(a, pc)   == ~ exited /\ h[a].pc = pc
Goto(a, pc) == h' = [h EXCEPT ![a] = IF pc = "idle" THEN IdleHand ELSE [@ EXCEPT !.pc = pc]]
Accept(p)   == ghost' = [ghost EXCEPT !.accepted = @ \cup {p},
                             !.late = @ \cup {x \in {p} \ ghost.accepted : \E y \in ghost.accepted : y > x}]

\* Send answers transfer before the goroutine has run.
Send(a) ==
    /\ At(a, "idle")
    /\ rpcOpen
    /\ sends < MaxSends
    /\ sends' = sends + 1
    /\ \E ts \in Times : h' = [h EXCEPT ![a] = [IdleHand EXCEPT !.pc = "first", !.ts = ts]]
    /\ UNCHANGED <<cache, hist, idx, clean, ghost, diskVars, com, readVars, downVars>>

Old(a) == Cached # <<>> /\ h[a].ts <= Head(Cached)

First(a) ==
    /\ At(a, "first")
    /\ Goto(a, IF Old(a) THEN "idle" ELSE "get")
    /\ UNCHANGED <<sends, cache, hist, idx, clean, ghost, diskVars, com, readVars, downVars>>

GetHit(a) ==
    /\ At(a, "get")
    /\ cache.entry # NoList
    /\ h' = [h EXCEPT ![a].pc = "push", ![a].list = cache.entry]
    /\ UNCHANGED <<sends, cache, hist, idx, clean, ghost, diskVars, com, readVars, downVars>>

\* A new list with the point in it, not yet in the map.
GetMiss(a) ==
    /\ At(a, "get")
    /\ cache.entry = NoList
    /\ cache' = NewList(cache, <<h[a].ts>>)
    /\ h' = [h EXCEPT ![a].pc = "set", ![a].list = Len(cache'.lists)]
    /\ UNCHANGED <<sends, hist, idx, clean, ghost, diskVars, com, readVars, downVars>>

\* Set replaces the list another handler may have set meanwhile.
Set(a) ==
    /\ At(a, "set")
    /\ cache' = [cache EXCEPT !.entry = h[a].list]
    /\ Accept(h[a].ts)
    /\ Goto(a, "index")
    /\ UNCHANGED <<sends, hist, idx, clean, diskVars, com, readVars, downVars>>

PushFront(a) ==
    /\ At(a, "push")
    /\ cache' = Push(cache, h[a].list, h[a].ts)
    /\ Accept(h[a].ts)
    /\ Goto(a, "index")
    /\ UNCHANGED <<sends, hist, idx, clean, diskVars, com, readVars, downVars>>

\* ReceiveItem: the series is in IndexedItemCache, or look at the file.
IndexHit(a) ==
    /\ At(a, "index")
    /\ Goto(a, IF idx.done THEN "hget" ELSE "file")
    /\ UNCHANGED <<sends, cache, hist, idx, clean, ghost, diskVars, com, readVars, downVars>>

\* A series with an rrd file is taken to be in MySQL.
IndexMiss(a) ==
    /\ At(a, "file")
    /\ idx' = IF rrd.made THEN [idx EXCEPT !.done = TRUE] ELSE [idx EXCEPT !.un = TRUE]
    /\ Goto(a, "hget")
    /\ UNCHANGED <<sends, cache, hist, clean, ghost, diskVars, com, readVars, downVars>>

\* AddItem: find the list, put a new one, look at its front, push.
HistoryGet(a) ==
    /\ At(a, "hget")
    /\ IF hist.entry # NoList
       THEN h' = [h EXCEPT ![a].pc = "hfront", ![a].list = hist.entry] /\ UNCHANGED hist
       ELSE /\ hist' = NewList(hist, <<>>)
            /\ h' = [h EXCEPT ![a].pc = "hput", ![a].list = Len(hist'.lists)]
    /\ UNCHANGED <<sends, cache, idx, clean, ghost, diskVars, com, readVars, downVars>>

HistoryPut(a) ==
    /\ At(a, "hput")
    /\ hist' = [hist EXCEPT !.entry = h[a].list]
    /\ Goto(a, "hfront")
    /\ UNCHANGED <<sends, cache, idx, clean, ghost, diskVars, com, readVars, downVars>>

\* Mutant: no comparison with the front.
HistoryFrontAny(a) ==
    /\ At(a, "hfront")
    /\ Goto(a, "hpush")
    /\ UNCHANGED <<sends, cache, hist, idx, clean, ghost, diskVars, com, readVars, downVars>>

HistoryFront(a) ==
    /\ At(a, "hfront")
    /\ LET s == hist.lists[h[a].list]
       IN  Goto(a, IF s = <<>> \/ Head(s) < h[a].ts THEN "hpush" ELSE "idle")
    /\ UNCHANGED <<sends, cache, hist, idx, clean, ghost, diskVars, com, readVars, downVars>>

\* PushFrontViolently: push, then drop from the back what is over the limit;
\* only a reader in between could see the one point more.
HistoryPush(a) ==
    /\ At(a, "hpush")
    /\ LET s == <<h[a].ts>> \o hist.lists[h[a].list]
           n == IF Len(s) > HistorySize THEN HistorySize ELSE Len(s)
       IN  hist' = [hist EXCEPT !.lists[h[a].list] = SubSeq(s, 1, n)]
    /\ Goto(a, "idle")
    /\ UNCHANGED <<sends, cache, idx, clean, ghost, diskVars, com, readVars, downVars>>

AddItem(a) == HistoryGet(a) \/ HistoryPut(a) \/ HistoryFront(a) \/ HistoryPush(a)

handleItems(a) ==
    \/ First(a) \/ GetHit(a) \/ GetMiss(a) \/ Set(a) \/ PushFront(a)
    \/ IndexHit(a) \/ IndexMiss(a) \/ AddItem(a)

-----------------------------------------------------------------------------
(* The incremental index task, and the daily cleaning by the index.        *)

\* Mutant: the item is removed before it is read.
updateIndexIncrLoses ==
    /\ ~ exited /\ idx.un
    /\ idx' = [idx EXCEPT !.un = FALSE]
    /\ UNCHANGED <<sends, h, cache, hist, clean, ghost, diskVars, com, readVars, downVars>>

\* Get, Remove, and a goroutine under a semaphore of two.
updateIndexIncr ==
    /\ ~ exited /\ idx.un /\ idx.updating < 2
    /\ idx' = [idx EXCEPT !.un = FALSE, !.updating = @ + 1]
    /\ UNCHANGED <<sends, h, cache, hist, clean, ghost, diskVars, com, readVars, downVars>>

updateIndexFromOneItem ==
    /\ ~ exited /\ idx.updating > 0
    /\ \/ idx' = [idx EXCEPT !.updating = @ - 1, !.mysql = TRUE, !.done = TRUE]
       \/ Fails /\ idx' = [idx EXCEPT !.updating = @ - 1]
    /\ UNCHANGED <<sends, h, cache, hist, clean, ghost, diskVars, com, readVars, downVars>>

\* The index is asked first; the list is removed in a step of its own.
CleanLook ==
    /\ ~ exited /\ ~ idx.done /\ clean = "none"
    /\ reads.clean < MaxCleans
    /\ reads' = [reads EXCEPT !.clean = @ + 1]
    /\ \/ clean' = "items" /\ cache.entry # NoList
       \/ clean' = "history" /\ hist.entry # NoList
    /\ UNCHANGED <<sends, h, cache, hist, idx, ghost, diskVars, com, q, downVars>>

DeleteInvalidItems ==
    /\ ~ exited /\ clean = "items"
    /\ cache' = [cache EXCEPT !.entry = NoList]
    /\ ghost' = [ghost EXCEPT !.gone = @ \cup {cache.entry}]
    /\ clean' = "none"
    /\ UNCHANGED <<sends, h, hist, idx, diskVars, com, readVars, downVars>>

DeleteInvalidHistory ==
    /\ ~ exited /\ clean = "history"
    /\ hist' = [hist EXCEPT !.entry = NoList]
    /\ clean' = "none"
    /\ UNCHANGED <<sends, h, cache, idx, ghost, diskVars, com, readVars, downVars>>

CleanCache == CleanLook \/ DeleteInvalidItems \/ DeleteInvalidHistory

-----------------------------------------------------------------------------
(* Taking the points out and handing them to ioWorker: CommitByKey and     *)
(* FlushFile.                                                              *)

Com(c, pc) == ~ exited /\ c \in Committers /\ com[c].pc = pc

\* FLUSH_MIN_COUNT points are cached, or the oldest one has waited for
\* FLUSH_MAX_WAIT: how long it has waited is left open.
shouldFlush == Cached # <<>>

FlushRRD ==
    /\ Com("sync", "idle")
    /\ shouldFlush
    /\ com' = [com EXCEPT !["sync"].pc = "pop"]
    /\ UNCHANGED <<handVars, diskVars, readVars, downVars>>

\* syncDisk's select finds the stop message.
syncDiskEnds ==
    /\ Com("sync", "idle")
    /\ stop
    /\ com' = [com EXCEPT !["sync"].pc = "ended"]
    /\ UNCHANGED <<handVars, diskVars, readVars, downVars>>

GetRrd ==
    /\ Com("get", "idle")
    /\ rpcOpen
    /\ reads.get < MaxGets
    /\ reads' = [reads EXCEPT !.get = @ + 1]
    /\ com' = [com EXCEPT !["get"].pc = "pop"]
    /\ UNCHANGED <<handVars, diskVars, q, downVars>>

\* What a committer does when there is nothing, or nothing more, to flush.
After(c) == [IdleCom EXCEPT !.pc = CASE c = "sync" -> "idle"
                                     [] c = "main" -> "exit"
                                     [] c = "get"  -> "read"]

\* Mutant: the points are handed over newest first.
PopAllUnordered(c) ==
    /\ Com(c, "pop")
    /\ com' = [com EXCEPT ![c] = IF Cached = <<>> THEN After(c)
                                 ELSE [pc |-> "send", items |-> Cached]]
    /\ cache' = IF Cached = <<>> THEN cache ELSE [cache EXCEPT !.lists[cache.entry] = <<>>]
    /\ UNCHANGED <<sends, h, hist, idx, clean, ghost, diskVars, readVars, downVars>>

\* PopAll returns the points oldest first and leaves the list empty.
PopAll(c) ==
    /\ Com(c, "pop")
    /\ com' = [com EXCEPT ![c] = IF Cached = <<>> THEN After(c)
                                 ELSE [pc |-> "send", items |-> Reverse(Cached)]]
    /\ cache' = IF Cached = <<>> THEN cache ELSE [cache EXCEPT !.lists[cache.entry] = <<>>]
    /\ UNCHANGED <<sends, h, hist, idx, clean, ghost, diskVars, readVars, downVars>>

Task(m, by, items) == [m |-> m, by |-> by, items |-> items]

\* Mutant: a full channel is not waited for.
FlushFileTries(c) ==
    /\ Com(c, "send")
    /\ io' = IF Len(io) < IoCap THEN Append(io, Task("flush", c, com[c].items)) ELSE io
    /\ com' = [com EXCEPT ![c] = IF Len(io) < IoCap THEN [IdleCom EXCEPT !.pc = "wait"]
                                                    ELSE After(c)]
    /\ UNCHANGED <<handVars, rrd, readVars, downVars>>

FlushFile(c) ==
    /\ Com(c, "send")
    /\ Len(io) < IoCap
    /\ io' = Append(io, Task("flush", c, com[c].items))
    /\ com' = [com EXCEPT ![c] = [IdleCom EXCEPT !.pc = "wait"]]
    /\ UNCHANGED <<handVars, rrd, readVars, downVars>>

ReadFile ==
    /\ Com("get", "read")
    /\ Len(io) < IoCap
    /\ io' = Append(io, Task("read", "get", <<>>))
    /\ com' = [com EXCEPT !["get"].pc = "wait"]
    /\ UNCHANGED <<handVars, rrd, readVars, downVars>>

CommitByKey(c) == PopAll(c) \/ FlushFile(c)

-----------------------------------------------------------------------------
(* ioWorker, one task at a time; a done channel has room for its answer.   *)

Working(m) == ~ exited /\ io # <<>> /\ Head(io).m = m

\* rrdlite skips a point that is not newer than the last one in the file: of
\* the points of a task it keeps those newer than the file and all before them.
update(items) ==
    rrd.pts \cup {items[k] : k \in {i \in DOMAIN items :
                      \A t \in rrd.pts \cup {items[j] : j \in 1 .. i - 1} : items[i] > t}}

\* Creating the file or updating it may fail; the points are gone then.
flushFails ==
    /\ Fails
    /\ rrd' \in {rrd, [rrd EXCEPT !.made = TRUE]}
    /\ ghost' = [ghost EXCEPT !.failed = @ \cup Range(Head(io).items)]

\* Mutant: an error is not reported on the done channel.
flushrrdSilent ==
    /\ Working("flush")
    /\ io' = Tail(io)
    /\ \/ /\ rrd' = [made |-> TRUE, pts |-> update(Head(io).items)]
          /\ com' = [com EXCEPT ![Head(io).by] = After(Head(io).by)]
          /\ UNCHANGED ghost
       \/ flushFails /\ UNCHANGED com
    /\ UNCHANGED <<sends, h, cache, hist, idx, clean, readVars, downVars>>

flushrrd ==
    /\ Working("flush")
    /\ \/ rrd' = [made |-> TRUE, pts |-> update(Head(io).items)] /\ UNCHANGED ghost
       \/ flushFails
    /\ io' = Tail(io)
    /\ com' = [com EXCEPT ![Head(io).by] = After(Head(io).by)]
    /\ UNCHANGED <<sends, h, cache, hist, idx, clean, readVars, downVars>>

ioRead ==
    /\ Working("read")
    /\ io' = Tail(io)
    /\ com' = [com EXCEPT !["get"] = IdleCom]
    /\ UNCHANGED <<handVars, rrd, readVars, downVars>>

fetch ==
    /\ Working("fetch")
    /\ io' = Tail(io)
    /\ q' = [q EXCEPT !.pc = "done", !.disk = rrd.pts]
    /\ UNCHANGED <<handVars, rrd, com, reads, downVars>>

ioWorker == flushrrd \/ ioRead \/ fetch

-----------------------------------------------------------------------------
(* Graph.Query of an indexed series: the cache, then the file; due is what *)
(* it has to find.                                                         *)

\* Points taken out of the list and not yet in the channel, points in the
\* channel, and points in lists that CleanCache took out of the map.
Between == UNION {Range(com[c].items) : c \in Committers}
InIo    == UNION {Range(io[k].items) : k \in DOMAIN io}
Cleaned == UNION {Range(cache.lists[l]) : l \in ghost.gone}

FetchAll ==
    /\ ~ exited /\ rpcOpen
    /\ q.pc = "idle"
    /\ idx.done \/ idx.mysql
    /\ reads.query < MaxQueries
    /\ reads' = [reads EXCEPT !.query = @ + 1]
    /\ q' = [pc |-> "send", cache |-> Range(Cached), disk |-> {},
             due |-> ghost.accepted \ (ghost.late \cup Cleaned \cup Between)]
    /\ UNCHANGED <<handVars, diskVars, com, downVars>>

\* Mutant: the file is read without waiting for the tasks before.
FetchDirect ==
    /\ ~ exited /\ q.pc = "send"
    /\ q' = [q EXCEPT !.pc = "done", !.disk = rrd.pts]
    /\ UNCHANGED <<handVars, diskVars, com, reads, downVars>>

Fetch ==
    /\ ~ exited /\ q.pc = "send"
    /\ Len(io) < IoCap
    /\ io' = Append(io, Task("fetch", "query", <<>>))
    /\ q' = [q EXCEPT !.pc = "wait"]
    /\ UNCHANGED <<handVars, rrd, com, reads, downVars>>

QueryReturns ==
    /\ ~ exited /\ q.pc = "done"
    /\ q' = IdleQuery
    /\ UNCHANGED <<handVars, diskVars, com, reads, downVars>>

Query == FetchAll \/ Fetch \/ QueryReturns

-----------------------------------------------------------------------------
(* start_signal: the listener is closed, the connections a moment later,   *)
(* syncDisk is told to stop and not waited for, the rest is flushed.       *)

Signal ==
    /\ Com("main", "idle")
    /\ ~ stop
    /\ stop' = TRUE
    /\ com' = [com EXCEPT !["main"].pc = "pop"]
    /\ UNCHANGED <<handVars, diskVars, readVars, rpcOpen, exited>>

CloseConns ==
    /\ ~ exited /\ stop /\ rpcOpen
    /\ rpcOpen' = FALSE
    /\ UNCHANGED <<handVars, diskVars, com, readVars, stop, exited>>

Exit ==
    /\ Com("main", "exit")
    /\ exited' = TRUE
    /\ UNCHANGED <<handVars, diskVars, com, readVars, rpcOpen, stop>>

\* After the exit, or with the bounds used up and all work done.
Quiescent ==
    /\ \/ exited
       \/ /\ sends = MaxSends /\ \A a \in Handlers : h[a].pc = "idle"
          /\ Cached = <<>> /\ io = <<>> /\ q.pc = "idle"
          /\ \A c \in Committers : com[c].pc = "idle"
    /\ UNCHANGED vars

Next ==
    \/ \E a \in Handlers : Send(a) \/ handleItems(a)
    \/ updateIndexIncr \/ updateIndexFromOneItem \/ CleanCache
    \/ FlushRRD \/ syncDiskEnds \/ GetRrd \/ ReadFile
    \/ \E c \in Committers : CommitByKey(c)
    \/ ioWorker
    \/ Query
    \/ Signal \/ CloseConns \/ Exit
    \/ Quiescent

Spec == Init /\ [][Next]_vars

\* The ticker of syncDisk ticks, a committer goes on, its turn comes when the
\* channel is full (Go queues blocked senders), and ioWorker takes the next
\* task; nobody owes a Send, a Query, a GetRrd, a signal or a cleaning.
Fairness ==
    /\ WF_vars(FlushRRD)
    /\ WF_vars(ioWorker)
    /\ SF_vars(CommitByKey("sync"))
    /\ SF_vars(CommitByKey("main"))
    /\ WF_vars(Exit)

FairSpec == Spec /\ Fairness

-----------------------------------------------------------------------------
Lists == Seq(Times)
Map   == [lists : Seq(Lists), entry : Nat]

\* Types of the caches, the channel, the file and the local states.
TypeOK ==
    /\ sends \in 0 .. MaxSends
    /\ h \in [Handlers -> [pc : {"idle", "first", "get", "set", "push", "index", "file",
                                 "hget", "hput", "hfront", "hpush"},
                           ts : Times, list : Nat]]
    /\ cache \in Map /\ cache.entry <= Len(cache.lists)
    /\ hist \in Map /\ hist.entry <= Len(hist.lists)
    /\ \A l \in DOMAIN hist.lists : Len(hist.lists[l]) <= HistorySize
    /\ idx \in [un : BOOLEAN, done : BOOLEAN, updating : 0 .. 2, mysql : BOOLEAN]
    /\ Len(io) <= IoCap
    /\ \A k \in DOMAIN io : io[k] \in [m : {"flush", "read", "fetch"},
                                       by : Committers \cup {"query"}, items : Lists]
    /\ rrd \in [made : BOOLEAN, pts : SUBSET Times]
    /\ com \in [Committers -> [pc : {"idle", "pop", "send", "wait", "read", "exit", "ended"},
                               items : Lists]]
    /\ q \in [pc : {"idle", "send", "wait", "done"}, cache : SUBSET Times,
              disk : SUBSET Times, due : SUBSET Times]
    /\ reads \in [query : 0 .. MaxQueries, get : 0 .. MaxGets, clean : 0 .. MaxCleans]
    /\ rpcOpen \in BOOLEAN /\ stop \in BOOLEAN /\ exited \in BOOLEAN
    /\ clean \in {"none", "items", "history"}
    /\ ghost \in [accepted : SUBSET Times, late : SUBSET Times,
                   failed : SUBSET Times, gone : SUBSET Nat]

OnTheWay == Range(Cached) \cup Between \cup InIo

\* A point that was the newest when handleItems took it is, at every later
\* moment, in the series' list, with a committer, in the channel or in the
\* file: commits, late points and queries in between lose nothing.  Exempt are
\* points in a list that CleanCache removed (PushFront, CommitByKey, update).
NoneLost ==
    ghost.accepted \ (ghost.late \cup Cleaned) \subseteq OnTheWay \cup rrd.pts

\* With several committers at work, a point that no flush failed for can only
\* be lost by having been overtaken: the file then holds a newer one
\* (GetRrd, start_signal, syncDisk).
AcceptedKept ==
    \A p \in ghost.accepted \ (ghost.failed \cup Cleaned) :
        p \in OnTheWay \cup rrd.pts \/ \E t \in rrd.pts : t > p

\* A query misses no point that was accepted, and not just being moved, when
\* it began, although it reads cache and file at different times and commits
\* go on in between (Graph.Query, ioWorker).
QuerySees == q.pc = "done" => q.due \subseteq q.cache \cup q.disk

Decreasing(s) == \A i, j \in DOMAIN s : i < j => s[i] > s[j]

\* Graph.Last answers with the newest point accepted, and GetLast computes a
\* rate from points in order, also when late points were accepted
\* (AddItem, GetLastRaw, GetLast).
LastIsNewest ==
    /\ \A l \in DOMAIN hist.lists : Decreasing(hist.lists[l])
    /\ Len(hist.lists) = 1 /\ hist.entry = 1 /\ (\A a \in Handlers : h[a].pc = "idle")
         => \A p \in ghost.accepted : Head(hist.lists[1]) >= p

\* Once a point has been handled, the series is indexed or on its way to be,
\* as long as MySQL works (ReceiveItem, updateIndexIncr).
IndexKnows ==
    ghost.accepted # {} /\ (\A a \in Handlers : h[a].pc = "idle")
      => idx.un \/ idx.updating > 0 \/ idx.done

\* Cached points always leave the cache, all of them at once: no committer and no ioWorker is ever
\* stuck, whatever errors the disk returns (syncDisk, FlushFile, ioWorker).
CacheDrains == Cached # <<>> ~> (Cached = <<>> \/ exited)

\* A shutdown that has begun ends (start_signal, FlushAll).
ShutdownEnds == stop ~> exited
=============================================================================
