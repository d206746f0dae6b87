------------------------------- MODULE Judge -------------------------------
(***************************************************************************)
(* judge, for one series (one primary key) and one strategy all(#Limit) on *)
(* gauge values: Judge.Send pushes a point to the series' history list,    *)
(* reads the last Limit points back and, from them and the last event of   *)
(* the strategy, decides on an alarm event that goes to redis for alarm.   *)
(* CleanStale drops series without recent points, and the process may be   *)
(* killed and restarted with empty memory.                                 *)
(*                                                                         *)
(* net/rpc serves every request in a goroutine of its own, and transfer    *)
(* sends batches in parallel, so several Sends of one series overlap.  The *)
(* map, every list and LastEvents have locks, but each is taken for one    *)
(* access at a time: an action below is the code between two such          *)
(* accesses.  HistoryData walks the list's elements without any lock.      *)
(***************************************************************************)
EXTENDS Integers, Sequences, FiniteSets, SequencesExt

CONSTANTS
    Senders,      \* goroutines serving Judge.Send
    MaxTs,        \* bound: timestamps of points, 0 included
    MaxClock,     \* bound: the clock of the judge
    MaxSends,     \* bound: points sent in one behaviour
    MaxRestarts,  \* bound: restarts of the process
    Remain,       \* cfg.Remain: points kept per series
    Limit,        \* the strategy's all(#Limit)
    MaxStep,      \* the strategy's MaxStep, 0 mutes it
    MinInterval,  \* cfg.Alarm.MinInterval
    StaleAfter,   \* 7 days in cleanStale
    RedisFails    \* BOOLEAN: LPUSH may fail

ASSUME JudgeAssumption ==
    /\ MaxTs \in Nat /\ MaxClock \in Nat /\ MaxSends \in Nat
    /\ MaxRestarts \in Nat
    /\ Remain \in Nat \ {0} /\ Limit \in Nat \ {0} /\ MaxStep \in Nat
    /\ MinInterval \in Nat /\ StaleAfter \in Nat
    /\ RedisFails \in BOOLEAN

VARIABLES
    clock,        \* time.Now().Unix()
    sends,        \* points sent so far
    restarts,     \* restarts so far
    crashed,      \* a goroutine panicked and took the process with it
    lists,        \* the linked lists ever made, newest point first
    entry,        \* the list HistoryBigMap holds for the series, or NoList
    stale,        \* CleanStale has collected the series for deletion
    lastEvent,    \* LastEvents entry of the strategy on the series
    redis,        \* the alarm queue, in LPUSH order
    g             \* the local state of each sender

vars == <<clock, sends, restarts, crashed, lists, entry, stale, lastEvent, redis, g>>

Times    == 0 .. MaxTs
Points   == [ts : Times, bad : BOOLEAN]
NoList   == 0
NoPoint  == [ts |-> 0, bad |-> FALSE]

\* used and life are history the properties look at: the timestamps of the
\* points an event was decided on, and the restarts before it.
NoEvent  == [status |-> "NONE", step |-> 0, time |-> 0, now |-> 0,
             used |-> {}, life |-> 0]

Idle == [pc |-> "idle", item |-> NoPoint, now |-> 0, list |-> NoList,
         n |-> 0, enough |-> FALSE, vs |-> <<>>, event |-> NoEvent]

Init ==
    /\ clock = 1
    /\ sends = 0
    /\ restarts = 0
    /\ crashed = FALSE
    /\ lists = <<>>
    /\ entry = NoList
    /\ stale = FALSE
    /\ lastEvent = NoEvent
    /\ redis = <<>>
    /\ g = [s \in Senders |-> Idle]

Tick ==
    /\ clock < MaxClock
    /\ clock' = clock + 1
    /\ UNCHANGED <<sends, restarts, crashed, lists, entry, stale, lastEvent, redis, g>>

At(s, pc) == ~ crashed /\ g[s].pc = pc

-----------------------------------------------------------------------------
(* Judge.Send and JudgeItemMap.PushFrontAndMaintain.                       *)

Send(s) ==
    /\ At(s, "idle")
    /\ sends < MaxSends
    /\ sends' = sends + 1
    /\ \E item \in Points :
          g' = [g EXCEPT ![s] = [Idle EXCEPT !.pc = "get", !.item = item, !.now = clock]]
    /\ UNCHANGED <<clock, restarts, crashed, lists, entry, stale, lastEvent, redis>>

GetHit(s) ==
    /\ At(s, "get")
    /\ entry # NoList
    /\ g' = [g EXCEPT ![s].pc = "push", ![s].list = entry]
    /\ UNCHANGED <<clock, sends, restarts, crashed, lists, entry, stale, lastEvent, redis>>

\* A new list with the point as its only element, not yet in the map.
GetMiss(s) ==
    /\ At(s, "get")
    /\ entry = NoList
    /\ lists' = Append(lists, <<g[s].item>>)
    /\ g' = [g EXCEPT ![s].pc = "set", ![s].list = Len(lists) + 1]
    /\ UNCHANGED <<clock, sends, restarts, crashed, entry, stale, lastEvent, redis>>

\* Set replaces the list another sender may have set meanwhile.
Set(s) ==
    /\ At(s, "set")
    /\ entry' = g[s].list
    /\ g' = [g EXCEPT ![s].pc = "len"]
    /\ UNCHANGED <<clock, sends, restarts, crashed, lists, stale, lastEvent, redis>>

L(s) == lists[g[s].list]

\* Mutant: a repeated timestamp is not dropped.
RejectedOnlyOlder(s) == g[s].item.ts < Head(L(s)).ts \/ g[s].item.ts <= 0

\* Repeated, older and non-positive timestamps are dropped.
Rejected(s) == g[s].item.ts <= Head(L(s)).ts \/ g[s].item.ts <= 0

\* Mutant: the list is cut before the new point is counted.
MaintainedLate(item, list) ==
    <<item>> \o SubSeq(list, 1, IF Len(list) <= Remain THEN Len(list) ELSE Remain)

\* The point in front, the oldest ones beyond Remain removed.
Maintained(item, list) ==
    SubSeq(<<item>> \o list, 1, IF Len(list) + 1 <= Remain THEN Len(list) + 1 ELSE Remain)

PushRejected(s) ==
    /\ At(s, "push")
    /\ Rejected(s)
    /\ g' = [g EXCEPT ![s] = Idle]
    /\ UNCHANGED <<clock, sends, restarts, crashed, lists, entry, stale, lastEvent, redis>>

PushFrontAndMaintain(s) ==
    /\ At(s, "push")
    /\ ~ Rejected(s)
    /\ lists' = [lists EXCEPT ![g[s].list] = Maintained(g[s].item, @)]
    /\ g' = [g EXCEPT ![s].pc = "len"]
    /\ UNCHANGED <<clock, sends, restarts, crashed, entry, stale, lastEvent, redis>>

-----------------------------------------------------------------------------
(* HistoryData: length, front, then one unlocked Next() per further point. *)

HistoryLen(s) ==
    /\ At(s, "len")
    /\ g' = [g EXCEPT ![s].pc = "front",
                      ![s].enough = (Len(L(s)) >= Limit),
                      ![s].n = IF Len(L(s)) < Limit THEN Len(L(s)) ELSE Limit]
    /\ UNCHANGED <<clock, sends, restarts, crashed, lists, entry, stale, lastEvent, redis>>

HistoryFront(s) ==
    /\ At(s, "front")
    /\ g' = [g EXCEPT ![s].pc = "next", ![s].vs = <<Head(L(s))>>]
    /\ UNCHANGED <<clock, sends, restarts, crashed, lists, entry, stale, lastEvent, redis>>

\* The element after the one last read.  Timestamps of a list differ, so they
\* identify its elements; an element that was removed has no next one, nor
\* has the last one.
NextOf(s) == {k \in 2 .. Len(L(s)) : L(s)[k - 1].ts = Last(g[s].vs).ts}

HistoryNext(s) ==
    /\ At(s, "next")
    /\ Len(g[s].vs) < g[s].n
    /\ \E k \in NextOf(s) : g' = [g EXCEPT ![s].vs = Append(@, L(s)[k])]
    /\ UNCHANGED <<clock, sends, restarts, crashed, lists, entry, stale, lastEvent, redis>>

\* nextElement is nil and its Value is read: the panic ends the process.
HistoryNil(s) ==
    /\ At(s, "next")
    /\ Len(g[s].vs) < g[s].n
    /\ NextOf(s) = {}
    /\ crashed' = TRUE
    /\ UNCHANGED <<clock, sends, restarts, lists, entry, stale, lastEvent, redis, g>>

-----------------------------------------------------------------------------
(* AllFunction.Compute and sendEventIfNeed.                                *)

Read(s) == At(s, "next") /\ Len(g[s].vs) = g[s].n

NotEnough(s) ==
    /\ Read(s)
    /\ ~ g[s].enough
    /\ g' = [g EXCEPT ![s] = Idle]
    /\ UNCHANGED <<clock, sends, restarts, crashed, lists, entry, stale, lastEvent, redis>>

isTriggered(vs) == \A i \in 1 .. Len(vs) : vs[i].bad

Event(s, status, step) ==
    [status |-> status, step |-> step, time |-> g[s].item.ts, now |-> g[s].now,
     used |-> {g[s].vs[i].ts : i \in 1 .. Len(g[s].vs)}, life |-> restarts]

\* No alarm is open for the strategy and it is not muted: a first alarm.
firstNeeded(s) ==
    /\ isTriggered(g[s].vs)
    /\ lastEvent.status # "PROBLEM"
    /\ MaxStep # 0

\* Mutant: the check on the points already alarmed on is left out.
repeatNeededAgain(s) ==
    /\ isTriggered(g[s].vs)
    /\ lastEvent.status = "PROBLEM"
    /\ lastEvent.step < MaxStep
    /\ g[s].now - lastEvent.time >= MinInterval

\* An alarm is open: the next one needs steps left, points newer than the
\* last alarm, and MinInterval between that alarm's point and now.
repeatNeeded(s) ==
    /\ isTriggered(g[s].vs)
    /\ lastEvent.status = "PROBLEM"
    /\ lastEvent.step < MaxStep
    /\ Last(g[s].vs).ts > lastEvent.time
    /\ g[s].now - lastEvent.time >= MinInterval

\* Mutant: recovery is reported whatever was reported before.
okNeededAlways(s) == ~ isTriggered(g[s].vs)

okNeeded(s) ==
    /\ ~ isTriggered(g[s].vs)
    /\ lastEvent.status = "PROBLEM"

\* LastEvents.Get and the decision; the entry may change before sendEvent
\* sets it.
sendEventIfNeed(s) ==
    /\ Read(s)
    /\ g[s].enough
    /\ \/ /\ firstNeeded(s)
          /\ g' = [g EXCEPT ![s].pc = "event", ![s].event = Event(s, "PROBLEM", 1)]
       \/ /\ repeatNeeded(s)
          /\ g' = [g EXCEPT ![s].pc = "event",
                            ![s].event = Event(s, "PROBLEM", lastEvent.step + 1)]
       \/ /\ okNeeded(s)
          /\ g' = [g EXCEPT ![s].pc = "event", ![s].event = Event(s, "OK", 1)]
       \/ /\ ~ firstNeeded(s) /\ ~ repeatNeeded(s) /\ ~ okNeeded(s)
          /\ g' = [g EXCEPT ![s] = Idle]
    /\ UNCHANGED <<clock, sends, restarts, crashed, lists, entry, stale, lastEvent, redis>>

sendEventSet(s) ==
    /\ At(s, "event")
    /\ lastEvent' = g[s].event
    /\ g' = [g EXCEPT ![s].pc = "lpush"]
    /\ UNCHANGED <<clock, sends, restarts, crashed, lists, entry, stale, redis>>

\* The reply of LPUSH is ignored: a failed one loses the event.
sendEventPush(s) ==
    /\ At(s, "lpush")
    /\ \/ redis' = Append(redis, g[s].event)
       \/ RedisFails /\ UNCHANGED redis
    /\ g' = [g EXCEPT ![s] = Idle]
    /\ UNCHANGED <<clock, sends, restarts, crashed, lists, entry, stale, lastEvent>>

-----------------------------------------------------------------------------
(* CleanStale: keys are collected under the read lock, deleted later.      *)

CleanCollect ==
    /\ ~ crashed
    /\ ~ stale
    /\ entry # NoList
    /\ Head(lists[entry]).ts < clock - StaleAfter
    /\ stale' = TRUE
    /\ UNCHANGED <<clock, sends, restarts, crashed, lists, entry, lastEvent, redis, g>>

BatchDelete ==
    /\ ~ crashed
    /\ stale
    /\ stale' = FALSE
    /\ entry' = NoList
    /\ UNCHANGED <<clock, sends, restarts, crashed, lists, lastEvent, redis, g>>

\* The process dies, or is killed, and starts again; redis stays.
Restart ==
    /\ restarts < MaxRestarts
    /\ restarts' = restarts + 1
    /\ crashed' = FALSE
    /\ lists' = <<>>
    /\ entry' = NoList
    /\ stale' = FALSE
    /\ lastEvent' = NoEvent
    /\ g' = [s \in Senders |-> Idle]
    /\ UNCHANGED <<clock, sends, redis>>

-----------------------------------------------------------------------------
Sender(s) ==
    \/ Send(s) \/ GetHit(s) \/ GetMiss(s) \/ Set(s)
    \/ PushRejected(s) \/ PushFrontAndMaintain(s)
    \/ HistoryLen(s) \/ HistoryFront(s) \/ HistoryNext(s) \/ HistoryNil(s)
    \/ NotEnough(s) \/ sendEventIfNeed(s) \/ sendEventSet(s) \/ sendEventPush(s)

\* The bounds are used up and no goroutine is in the middle of a Send.
Quiescent ==
    /\ sends = MaxSends
    /\ crashed \/ \A s \in Senders : g[s].pc = "idle"
    /\ UNCHANGED vars

Next ==
    \/ \E s \in Senders : Sender(s)
    \/ Tick \/ CleanCollect \/ BatchDelete \/ Restart \/ Quiescent

Spec == Init /\ [][Next]_vars

-----------------------------------------------------------------------------
Events == [status : {"NONE", "PROBLEM", "OK"}, step : Nat,
           time : Times, now : Nat, used : SUBSET Times, life : Nat]

Locals == [pc : {"idle", "get", "set", "push", "len", "front", "next", "event", "lpush"},
           item : Points, now : Nat, list : Nat,
           n : Nat, enough : BOOLEAN, vs : Seq(Points), event : Events]

\* A sender past the lookup has a list, one that walks it has read a point.
LocalOK(s) ==
    /\ g[s].pc \notin {"idle", "get"} => g[s].list \in 1 .. Len(lists)
    /\ g[s].pc = "next" => g[s].vs # <<>>

\* Types of the history lists, the events and the senders' local state.
TypeOK ==
    /\ clock \in Nat /\ sends \in 0 .. MaxSends /\ restarts \in Nat
    /\ crashed \in BOOLEAN
    /\ lists \in Seq(Seq(Points) \ {<<>>})
    /\ entry \in 0 .. Len(lists)
    /\ stale \in BOOLEAN
    /\ lastEvent \in Events
    /\ redis \in Seq(Events)
    /\ g \in [Senders -> Locals]
    /\ \A s \in Senders : LocalOK(s)

Decreasing(list) == \A i, j \in 1 .. Len(list) : i < j => list[i].ts > list[j].ts

\* However Sends, cleanups and restarts interleave, a history list never holds
\* a repeated or out-of-order timestamp (the differences of COUNTER values are
\* divided by their distance) nor more than Remain points
\* (SafeLinkedList.PushFrontAndMaintain).
HistoryOrdered ==
    \A k \in 1 .. Len(lists) : Decreasing(lists[k]) /\ Len(lists[k]) <= Remain

\* What the unlocked walk returns is ordered as well, so Limit points really
\* are Limit different points (HistoryData).
WalkOrdered == \A s \in Senders : Decreasing(g[s].vs)

Follows(e, f) ==
    IF e.status = "PROBLEM"
    THEN f.status = "OK" \/ (f.status = "PROBLEM" /\ f.step = e.step + 1)
    ELSE f.status = "PROBLEM" /\ f.step = 1

\* The alarms of a strategy are a sequence of episodes: PROBLEM 1, 2, ... and
\* one OK (sendEventIfNeed).  A restart forgets an open alarm: the process that
\* comes up starts with PROBLEM 1, never with the OK or the next number of the
\* alarm before (LastEvents, kept in memory only).
Episodes ==
    /\ redis # <<>> => Follows(NoEvent, redis[1])
    /\ \A k \in 2 .. Len(redis) :
          Follows(IF redis[k - 1].life = redis[k].life THEN redis[k - 1] ELSE NoEvent,
                  redis[k])

Repeats == {k \in 2 .. Len(redis) : /\ redis[k - 1].life = redis[k].life
                                   /\ redis[k - 1].status = "PROBLEM"
                                   /\ redis[k].status = "PROBLEM"}

\* A point that already produced an alarm is not used for the next one of the
\* process (judge.go: "产生过报警的点，就不能再使用来判断了").
PointsUsedOnce == \A k \in Repeats : redis[k - 1].used \cap redis[k].used = {}
=============================================================================
