--------------------------- MODULE Judge_proofs ---------------------------
(***************************************************************************)
(* What the races of judge cannot break, for any number of concurrent      *)
(* Sends and any configuration: the order and the size of the history      *)
(* lists, and the order of the points an unlocked walk returns.  The walk  *)
(* stays ordered because the element after the last one read is in an      *)
(* ordered list.  Then, for one Send at a time, the order of the alarms in *)
(* redis, restarts included.                                               *)
(***************************************************************************)
EXTENDS Judge, SequenceTheorems, TLAPS

JInv == TypeOK /\ HistoryOrdered /\ WalkOrdered

USE JudgeAssumption

\* Timestamps are integers, and later entries of an ordered list are not newer.
LEMMA PointTs == \A p \in Points : p.ts \in Int
BY DEF Points, Times

\* In a list that is newest first, a later element is not newer.
LEMMA NotNewer ==
    ASSUME NEW list \in Seq(Points), Decreasing(list),
           NEW i \in 1 .. Len(list), NEW j \in 1 .. Len(list), i <= j
    PROVE  /\ list[i].ts \in Int /\ list[j].ts \in Int
           /\ list[j].ts <= list[i].ts
<1>1. list[i] \in Points /\ list[j] \in Points
  BY ElementOfSeq
<1>2. list[i].ts \in Int /\ list[j].ts \in Int
  BY <1>1, PointTs
<1>3. CASE i = j
  BY <1>2, <1>3
<1>4. CASE i < j
  BY <1>2, <1>4 DEF Decreasing
<1> QED
  BY <1>2, <1>3, <1>4

\* A list with a newer point in front is ordered, and cutting it at Remain
\* keeps it so (SafeLinkedList.PushFrontAndMaintain).
LEMMA MaintainedProperties ==
    ASSUME NEW list \in Seq(Points) \ {<<>>}, Decreasing(list),
           NEW item \in Points, item.ts > Head(list).ts
    PROVE  /\ Maintained(item, list) \in Seq(Points) \ {<<>>}
           /\ Decreasing(Maintained(item, list))
           /\ Len(Maintained(item, list)) <= Remain
<1> DEFINE longer == <<item>> \o list
           n == IF Len(list) + 1 <= Remain THEN Len(list) + 1 ELSE Remain
<1>1. Len(list) \in Nat \ {0} /\ Head(list) = list[1]
  BY EmptySeq
<1>2. <<item>> \in Seq(Points) /\ Len(<<item>>) = 1
  OBVIOUS
<1>3. /\ longer \in Seq(Points)
      /\ Len(longer) = Len(list) + 1
      /\ \A i \in 1 .. Len(list) + 1 :
            longer[i] = IF i <= 1 THEN item ELSE list[i - 1]
  BY <1>1, <1>2, ConcatProperties
<1>4. n \in 1 .. Remain /\ n <= Len(longer)
  BY <1>1, <1>3
<1>5. \A i \in 1 .. n : longer[i] \in Points
  BY <1>3, <1>4
<1>6. /\ SubSeq(longer, 1, n) \in Seq(Points)
      /\ Len(SubSeq(longer, 1, n)) = n
      /\ \A i \in 1 .. n : SubSeq(longer, 1, n)[i] = longer[i]
  BY <1>4, <1>5, SubSeqProperties
<1>7. ASSUME NEW i \in 1 .. n, NEW j \in 1 .. n, i < j
      PROVE  longer[i].ts > longer[j].ts
  <2>1. longer[j] = list[j - 1] /\ j - 1 \in 1 .. Len(list)
    BY <1>1, <1>3, <1>4, <1>7
  <2>2. CASE i = 1
    <3>1. longer[i] = item
      BY <2>2, <1>1, <1>3
    <3>2. 1 \in 1 .. Len(list) /\ 1 <= j - 1
      BY <2>1, <1>1
    <3>3. /\ list[1].ts \in Int /\ list[j - 1].ts \in Int
          /\ list[j - 1].ts <= list[1].ts
      BY <2>1, <3>2, NotNewer
    <3>4. item.ts \in Int
      BY PointTs
    <3> QED
      BY <2>1, <3>1, <3>3, <3>4, <1>1
  <2>3. CASE i # 1
    <3>1. longer[i] = list[i - 1] /\ i - 1 \in 1 .. Len(list) /\ i - 1 < j - 1
      BY <2>3, <1>1, <1>3, <1>4, <1>7
    <3> QED
      BY <2>1, <3>1 DEF Decreasing
  <2> QED
    BY <2>2, <2>3
<1>8. Maintained(item, list) = SubSeq(longer, 1, n)
  BY DEF Maintained
<1> QED
  BY <1>4, <1>6, <1>7, <1>8 DEF Decreasing

\* An ordered list of one point.
LEMMA SinglePoint ==
    ASSUME NEW p \in Points
    PROVE  /\ <<p>> \in Seq(Points) \ {<<>>}
           /\ Len(<<p>>) = 1
           /\ Decreasing(<<p>>)
BY DEF Decreasing

\* Appending an older point keeps a walk ordered (HistoryData).
LEMMA AppendOlder ==
    ASSUME NEW vs \in Seq(Points), vs # <<>>, Decreasing(vs),
           NEW p \in Points, p.ts < Last(vs).ts
    PROVE  /\ Append(vs, p) \in Seq(Points) \ {<<>>}
           /\ Decreasing(Append(vs, p))
<1> DEFINE w == Append(vs, p)
<1>1. /\ Len(vs) \in Nat \ {0}
      /\ w \in Seq(Points)
      /\ Len(w) = Len(vs) + 1
      /\ \A i \in 1 .. Len(vs) : w[i] = vs[i]
      /\ w[Len(vs) + 1] = p
  BY EmptySeq, AppendProperties
<1>2. ASSUME NEW i \in 1 .. Len(w), NEW j \in 1 .. Len(w), i < j
      PROVE  w[i].ts > w[j].ts
  <2>1. i \in 1 .. Len(vs) /\ w[i] = vs[i]
    BY <1>1, <1>2
  <2>2. CASE j \in 1 .. Len(vs)
    BY <1>1, <1>2, <2>1, <2>2 DEF Decreasing
  <2>3. CASE j = Len(vs) + 1
    <3>1. Last(vs) = vs[Len(vs)] /\ Len(vs) \in 1 .. Len(vs)
      BY <1>1 DEF Last
    <3>2. i <= Len(vs)
      BY <2>1, <1>1
    <3>3. /\ vs[i].ts \in Int /\ vs[Len(vs)].ts \in Int
          /\ vs[Len(vs)].ts <= vs[i].ts
      BY <2>1, <3>1, <3>2, NotNewer
    <3>4. p.ts \in Int
      BY PointTs
    <3> QED
      BY <1>1, <2>1, <2>3, <3>1, <3>3, <3>4
  <2> QED
    BY <1>1, <2>2, <2>3
<1> QED
  BY <1>1, <1>2 DEF Decreasing

\* A step of one sender: enough that its new local state and what it changes
\* of the shared state are as the invariant asks, as no list gets shorter.
LEMMA SenderStep ==
    ASSUME JInv, NEW s \in Senders, NEW r \in Locals,
           g' = [g EXCEPT ![s] = r],
           sends' \in 0 .. MaxSends,
           lists' \in Seq(Seq(Points) \ {<<>>}), Len(lists') >= Len(lists),
           HistoryOrdered',
           entry' \in 0 .. Len(lists'),
           crashed' \in BOOLEAN,
           lastEvent' \in Events,
           redis' \in Seq(Events),
           r.pc \notin {"idle", "get"} => r.list \in 1 .. Len(lists'),
           r.pc = "next" => r.vs # <<>>,
           Decreasing(r.vs),
           UNCHANGED <<clock, restarts, stale>>
    PROVE  JInv'
<1>1. g' \in [Senders -> Locals] /\ g'[s] = r
  BY DEF JInv, TypeOK
<1>2. \A t \in Senders : t # s => g'[t] = g[t]
  BY DEF JInv, TypeOK
<1>3. Len(lists) \in Nat /\ Len(lists') \in Nat
  BY LenProperties DEF JInv, TypeOK
<1>4. ASSUME NEW t \in Senders
      PROVE  /\ g'[t].pc \notin {"idle", "get"} => g'[t].list \in 1 .. Len(lists')
             /\ g'[t].pc = "next" => g'[t].vs # <<>>
             /\ Decreasing(g'[t].vs)
  <2>1. CASE t = s
    BY <1>1, <2>1
  <2>2. CASE t # s
    <3>1. LocalOK(t)
      BY DEF JInv, TypeOK
    <3>2. 1 .. Len(lists) \subseteq 1 .. Len(lists')
      BY <1>3
    <3> QED
      BY <1>2, <2>2, <3>1, <3>2 DEF LocalOK, JInv, WalkOrdered
  <2> QED
    BY <2>1, <2>2
<1>5. TypeOK'
  <2>1. \A t \in Senders : LocalOK(t)'
    BY <1>4 DEF LocalOK
  <2> QED
    BY <1>1, <2>1 DEF JInv, TypeOK
<1>6. WalkOrdered'
  BY <1>4 DEF WalkOrdered
<1> QED
  BY <1>5, <1>6 DEF JInv

\* What a sender past the map lookup works on.
LEMMA SenderList ==
    ASSUME JInv, NEW s \in Senders, g[s].pc \notin {"idle", "get"}
    PROVE  /\ g[s].list \in 1 .. Len(lists)
           /\ L(s) \in Seq(Points) \ {<<>>}
           /\ Decreasing(L(s))
           /\ Len(L(s)) \in Nat \ {0}
           /\ Head(L(s)) = L(s)[1] /\ Head(L(s)) \in Points
<1>1. g[s].list \in 1 .. Len(lists)
  <2>1. LocalOK(s)
    BY DEF JInv, TypeOK
  <2> QED
    BY <2>1 DEF LocalOK
<1>2. L(s) \in Seq(Points) \ {<<>>} /\ Decreasing(L(s))
  BY <1>1, ElementOfSeq DEF JInv, TypeOK, HistoryOrdered, L
<1> QED
  BY <1>1, <1>2, EmptySeq, HeadTailProperties

\* No lists, no events, no senders at work.
LEMMA JInvInit == Init => JInv
<1> SUFFICES ASSUME Init PROVE JInv
  OBVIOUS
<1>1. Idle \in Locals
  BY DEF Idle, Locals, NoPoint, Points, Times, NoList, NoEvent, Events
<1>2. Idle.pc = "idle" /\ Idle.vs = <<>>
  BY DEF Idle
<1>3. TypeOK
  <2>1. \A s \in Senders : LocalOK(s)
    BY <1>2 DEF Init, LocalOK
  <2>2. NoEvent \in Events
    BY DEF NoEvent, Events, Times
  <2>3. g \in [Senders -> Locals]
    BY <1>1 DEF Init
  <2>4. lists = <<>> /\ redis = <<>> /\ entry \in 0 .. Len(lists)
    BY DEF Init, NoList
  <2>5. lists \in Seq(Seq(Points) \ {<<>>}) /\ redis \in Seq(Events)
    BY <2>4, EmptySeq
  <2>6. clock \in Nat /\ sends \in 0 .. MaxSends /\ restarts \in Nat
    BY DEF Init
  <2>7. crashed \in BOOLEAN /\ stale \in BOOLEAN /\ lastEvent \in Events
    BY <2>2 DEF Init
  <2> QED
    BY <2>1, <2>3, <2>4, <2>5, <2>6, <2>7 DEF TypeOK
<1>4. HistoryOrdered
  BY DEF Init, HistoryOrdered
<1>5. WalkOrdered
  BY <1>2 DEF Init, WalkOrdered, Decreasing
<1> QED
  BY <1>3, <1>4, <1>5 DEF JInv

\* Every step preserves the invariant.
LEMMA JInvStep == JInv /\ [Next]_vars => JInv'
<1> SUFFICES ASSUME JInv, [Next]_vars PROVE JInv'
  OBVIOUS
<1>1. CASE UNCHANGED vars
  <2>1. \A s \in Senders : LocalOK(s)' <=> LocalOK(s)
    BY <1>1 DEF vars, LocalOK
  <2> QED
    BY <1>1, <2>1 DEF vars, JInv, TypeOK, HistoryOrdered, WalkOrdered
<1>a. /\ TypeOK /\ HistoryOrdered /\ WalkOrdered
      /\ Len(lists) \in Nat
  BY LenProperties DEF JInv, TypeOK
<1>t. /\ sends \in 0 .. MaxSends
      /\ lists \in Seq(Seq(Points) \ {<<>>}) /\ Len(lists) >= Len(lists)
      /\ entry \in 0 .. Len(lists)
      /\ crashed \in BOOLEAN
      /\ lastEvent \in Events
      /\ redis \in Seq(Events)
  BY <1>a DEF TypeOK
<1>b. \A s \in Senders : /\ g[s] \in Locals /\ LocalOK(s)
                          /\ Decreasing(g[s].vs)
  BY <1>a DEF TypeOK, WalkOrdered
<1>c. /\ Idle \in Locals /\ Idle.pc = "idle"
      /\ Decreasing(Idle.vs)
  BY DEF Idle, Locals, NoPoint, Points, Times, NoList, NoEvent, Events,
     Decreasing
<1>d. ASSUME NEW s \in Senders, NEW r \in Locals,
             g' = [g EXCEPT ![s] = r],
             r.pc \notin {"idle", "get"} => r.list \in 1 .. Len(lists),
             r.pc = "next" => r.vs # <<>>,
             Decreasing(r.vs),
             sends' \in 0 .. MaxSends,
             UNCHANGED <<clock, restarts, crashed, lists, entry, stale, lastEvent, redis>>
      PROVE  JInv'
  <2>1. HistoryOrdered'
    BY <1>a, <1>d DEF HistoryOrdered
  <2>2. /\ lists' = lists /\ entry' = entry /\ crashed' = crashed
        /\ lastEvent' = lastEvent /\ redis' = redis
    BY <1>d
  <2> QED
    BY <1>t, <1>d, <2>1, <2>2, SenderStep
<1>e. ASSUME NEW s \in Senders, g' = [g EXCEPT ![s] = Idle],
             UNCHANGED <<clock, sends, restarts, crashed, lists, entry, stale, lastEvent, redis>>
      PROVE  JInv'
  BY <1>t, <1>c, <1>d, <1>e
<1>2. ASSUME NEW s \in Senders, Send(s) PROVE JInv'
  <2>1. PICK item \in Points :
          g' = [g EXCEPT ![s] = [Idle EXCEPT !.pc = "get", !.item = item, !.now = clock]]
    BY <1>2 DEF Send
  <2> DEFINE r == [Idle EXCEPT !.pc = "get", !.item = item, !.now = clock]
  <2>2. r \in Locals /\ r.pc = "get" /\ r.vs = Idle.vs /\ r.event = Idle.event
    BY <1>a, <1>c DEF Locals, Idle, TypeOK
  <2>3. sends' \in 0 .. MaxSends
    BY <1>a, <1>2 DEF Send, TypeOK
  <2> QED
    BY <1>2, <1>c, <1>d, <2>1, <2>2, <2>3 DEF Send
<1>3. ASSUME NEW s \in Senders, GetHit(s) PROVE JInv'
  <2> DEFINE r == [g[s] EXCEPT !.pc = "push", !.list = entry]
  <2>1. g' = [g EXCEPT ![s] = r]
    BY <1>3, <1>a DEF GetHit, TypeOK
  <2>2. entry \in 1 .. Len(lists)
    BY <1>3, <1>a DEF GetHit, TypeOK, NoList
  <2>3. /\ r \in Locals /\ r.pc = "push" /\ r.list = entry
        /\ r.vs = g[s].vs /\ r.event = g[s].event
    <3>1. entry \in Nat
      BY <1>a, <2>2
    <3> QED
      BY <1>b, <3>1 DEF Locals
  <2>4. UNCHANGED <<clock, sends, restarts, crashed, lists, entry, stale, lastEvent, redis>>
    BY <1>3 DEF GetHit
  <2> QED
    BY <1>t, <1>b, <1>d, <2>1, <2>2, <2>3, <2>4
<1>4. ASSUME NEW s \in Senders, GetMiss(s) PROVE JInv'
  <2> DEFINE r == [g[s] EXCEPT !.pc = "set", !.list = Len(lists) + 1]
             one == <<g[s].item>>
  <2>1. g' = [g EXCEPT ![s] = r]
    BY <1>4, <1>a DEF GetMiss, TypeOK
  <2>2. /\ r \in Locals /\ r.pc = "set" /\ r.list = Len(lists) + 1
        /\ r.vs = g[s].vs /\ r.event = g[s].event
    <3>1. Len(lists) + 1 \in Nat
      BY <1>a
    <3> QED
      BY <1>b, <3>1 DEF Locals
  <2>3. g[s].item \in Points
    BY <1>b DEF Locals
  <2>4. one \in Seq(Points) \ {<<>>} /\ Len(one) = 1 /\ Decreasing(one)
    BY <2>3, SinglePoint
  <2>5. /\ lists' \in Seq(Seq(Points) \ {<<>>})
        /\ Len(lists') = Len(lists) + 1
        /\ \A k \in 1 .. Len(lists) : lists'[k] = lists[k]
        /\ lists'[Len(lists) + 1] = one
    BY <1>4, <1>a, <2>4, AppendProperties DEF GetMiss, TypeOK
  <2>6. HistoryOrdered'
    <3> SUFFICES ASSUME NEW k \in 1 .. Len(lists')
                 PROVE  Decreasing(lists'[k]) /\ Len(lists'[k]) <= Remain
      BY DEF HistoryOrdered
    <3>1. CASE k \in 1 .. Len(lists)
      BY <1>a, <2>5, <3>1 DEF HistoryOrdered
    <3>2. CASE k = Len(lists) + 1
      <4>1. lists'[k] = one
        BY <2>5, <3>2
      <4> QED
        BY <2>4, <4>1
    <3> QED
      BY <1>a, <2>5, <3>1, <3>2
  <2>7. entry' \in 0 .. Len(lists') /\ r.list \in 1 .. Len(lists') /\ Len(lists') >= Len(lists)
    BY <1>4, <1>a, <2>2, <2>5 DEF GetMiss, TypeOK, NoList
  <2>8. UNCHANGED <<clock, sends, restarts, crashed, entry, stale, lastEvent, redis>>
    BY <1>4 DEF GetMiss
  <2> QED
    BY <1>t, <1>b, <2>1, <2>2, <2>5, <2>6, <2>7, <2>8, SenderStep
<1>5. ASSUME NEW s \in Senders, Set(s) PROVE JInv'
  <2> DEFINE r == [g[s] EXCEPT !.pc = "len"]
  <2>1. g' = [g EXCEPT ![s] = r]
    BY <1>5, <1>a DEF Set, TypeOK
  <2>2. g[s].list \in 1 .. Len(lists)
    BY <1>5, SenderList DEF Set, At
  <2>3. /\ r \in Locals /\ r.pc = "len" /\ r.list = g[s].list
        /\ r.vs = g[s].vs /\ r.event = g[s].event
    BY <1>b DEF Locals
  <2>4. HistoryOrdered'
    BY <1>5, <1>a DEF Set, HistoryOrdered
  <2>5. entry' \in 0 .. Len(lists')
    BY <1>5, <1>a, <2>2 DEF Set
  <2>6. UNCHANGED <<clock, sends, restarts, crashed, lists, stale, lastEvent, redis>>
    BY <1>5 DEF Set
  <2> QED
    BY <1>t, <1>b, <2>1, <2>2, <2>3, <2>4, <2>5, <2>6, SenderStep
<1>6. ASSUME NEW s \in Senders, PushRejected(s) \/ NotEnough(s) PROVE JInv'
  BY <1>6, <1>e DEF PushRejected, NotEnough
<1>7. ASSUME NEW s \in Senders, PushFrontAndMaintain(s) PROVE JInv'
  <2> DEFINE r == [g[s] EXCEPT !.pc = "len"]
             new == Maintained(g[s].item, L(s))
  <2>1. g' = [g EXCEPT ![s] = r]
    BY <1>7, <1>a DEF PushFrontAndMaintain, TypeOK
  <2>2. /\ g[s].list \in 1 .. Len(lists)
        /\ L(s) \in Seq(Points) \ {<<>>} /\ Decreasing(L(s))
        /\ Head(L(s)) \in Points
    BY <1>7, SenderList DEF PushFrontAndMaintain, At
  <2>3. /\ r \in Locals /\ r.pc = "len" /\ r.list = g[s].list
        /\ r.vs = g[s].vs /\ r.event = g[s].event /\ g[s].item \in Points
    BY <1>b DEF Locals
  <2>4. g[s].item.ts > Head(L(s)).ts
    <3>1. ~ Rejected(s)
      BY <1>7 DEF PushFrontAndMaintain
    <3>2. g[s].item.ts \in Int /\ Head(L(s)).ts \in Int
      BY <2>2, <2>3, PointTs
    <3>3. ~ (g[s].item.ts <= Head(L(s)).ts)
      BY <3>1 DEF Rejected
    <3> QED
      BY <3>2, <3>3
  <2>5. /\ new \in Seq(Points) \ {<<>>} /\ Decreasing(new) /\ Len(new) <= Remain
    BY <2>2, <2>3, <2>4, MaintainedProperties
  <2>6. lists' = [lists EXCEPT ![g[s].list] = new]
    BY <1>7 DEF PushFrontAndMaintain, L
  <2>7. /\ lists' \in Seq(Seq(Points) \ {<<>>})
        /\ Len(lists') = Len(lists)
        /\ \A k \in 1 .. Len(lists) : lists'[k] = IF k = g[s].list THEN new ELSE lists[k]
    BY <1>a, <2>2, <2>5, <2>6, ExceptSeq DEF TypeOK
  <2>8. HistoryOrdered'
    BY <1>a, <2>5, <2>7 DEF HistoryOrdered
  <2>9. UNCHANGED <<clock, sends, restarts, crashed, entry, stale, lastEvent, redis>>
    BY <1>7 DEF PushFrontAndMaintain
  <2>10. Len(lists') >= Len(lists) /\ entry' \in 0 .. Len(lists')
    BY <1>t, <2>7, <2>9
  <2> QED
    BY <1>t, <1>b, <2>1, <2>2, <2>3, <2>7, <2>8, <2>9, <2>10, SenderStep
<1>8. ASSUME NEW s \in Senders, HistoryLen(s) PROVE JInv'
  <2> DEFINE n == IF Len(L(s)) < Limit THEN Len(L(s)) ELSE Limit
             r == [g[s] EXCEPT !.pc = "front", !.enough = (Len(L(s)) >= Limit), !.n = n]
  <2>1. g' = [g EXCEPT ![s] = r]
    BY <1>8, <1>a DEF HistoryLen, TypeOK
  <2>2. g[s].list \in 1 .. Len(lists) /\ Len(L(s)) \in Nat
    BY <1>8, SenderList DEF HistoryLen, At
  <2>3. n \in Nat /\ (Len(L(s)) >= Limit) \in BOOLEAN
    BY <2>2
  <2>4. /\ r \in Locals /\ r.pc = "front" /\ r.list = g[s].list
        /\ r.vs = g[s].vs /\ r.event = g[s].event
    BY <1>b, <2>3 DEF Locals
  <2>5. UNCHANGED <<clock, sends, restarts, crashed, lists, entry, stale, lastEvent, redis>>
    BY <1>8 DEF HistoryLen
  <2> QED
    BY <1>t, <1>b, <1>d, <2>1, <2>2, <2>4, <2>5
<1>9. ASSUME NEW s \in Senders, HistoryFront(s) PROVE JInv'
  <2> DEFINE one == <<Head(L(s))>>
             r == [g[s] EXCEPT !.pc = "next", !.vs = one]
  <2>1. g' = [g EXCEPT ![s] = r]
    BY <1>9, <1>a DEF HistoryFront, TypeOK
  <2>2. g[s].list \in 1 .. Len(lists) /\ Head(L(s)) \in Points
    BY <1>9, SenderList DEF HistoryFront, At
  <2>3. one \in Seq(Points) \ {<<>>} /\ Decreasing(one)
    BY <2>2, SinglePoint
  <2>4. /\ r \in Locals /\ r.pc = "next" /\ r.list = g[s].list
        /\ r.vs = one /\ r.event = g[s].event
    BY <1>b, <2>3 DEF Locals
  <2>5. UNCHANGED <<clock, sends, restarts, crashed, lists, entry, stale, lastEvent, redis>>
    BY <1>9 DEF HistoryFront
  <2> QED
    BY <1>t, <1>b, <1>d, <2>1, <2>2, <2>3, <2>4, <2>5
<1>10. ASSUME NEW s \in Senders, HistoryNext(s) PROVE JInv'
  <2>1. PICK k \in NextOf(s) : g' = [g EXCEPT ![s].vs = Append(@, L(s)[k])]
    BY <1>10 DEF HistoryNext
  <2> DEFINE w == Append(g[s].vs, L(s)[k])
             r == [g[s] EXCEPT !.vs = w]
  <2>2. g' = [g EXCEPT ![s] = r]
    BY <2>1, <1>a DEF TypeOK
  <2>3. g[s].pc = "next" /\ g[s].vs # <<>> /\ g[s].vs \in Seq(Points)
    BY <1>10, <1>b DEF HistoryNext, At, LocalOK, Locals
  <2>4. /\ g[s].list \in 1 .. Len(lists)
        /\ L(s) \in Seq(Points) \ {<<>>} /\ Decreasing(L(s))
        /\ Len(L(s)) \in Nat \ {0}
    BY <2>3, SenderList
  <2>5. /\ k \in 1 .. Len(L(s)) /\ k - 1 \in 1 .. Len(L(s)) /\ k - 1 < k
        /\ L(s)[k - 1].ts = Last(g[s].vs).ts
    BY <2>4 DEF NextOf
  <2>6. L(s)[k] \in Points /\ L(s)[k - 1] \in Points
    BY <2>4, <2>5, ElementOfSeq
  <2>7. L(s)[k].ts < L(s)[k - 1].ts
    BY <2>4, <2>5, <2>6, PointTs DEF Decreasing
  <2>8. w \in Seq(Points) \ {<<>>} /\ Decreasing(w)
    BY <1>b, <2>3, <2>5, <2>6, <2>7, AppendOlder
  <2>9. /\ r \in Locals /\ r.pc = "next" /\ r.list = g[s].list
        /\ r.vs = w /\ r.event = g[s].event
    BY <1>b, <2>3, <2>8 DEF Locals
  <2>10. UNCHANGED <<clock, sends, restarts, crashed, lists, entry, stale, lastEvent, redis>>
    BY <1>10 DEF HistoryNext
  <2> QED
    BY <1>t, <1>b, <1>d, <2>2, <2>4, <2>8, <2>9, <2>10
<1>f. ASSUME UNCHANGED <<lists, lastEvent, redis, g>>,
             clock' \in Nat, sends' = sends, restarts' = restarts,
             crashed' \in BOOLEAN, stale' \in BOOLEAN,
             entry' \in 0 .. Len(lists)
      PROVE  JInv'
  <2>1. \A s \in Senders : LocalOK(s)' <=> LocalOK(s)
    BY <1>f DEF LocalOK
  <2>2. TypeOK'
    BY <1>a, <1>f, <2>1 DEF TypeOK
  <2> QED
    BY <1>a, <1>f, <2>2 DEF JInv, HistoryOrdered, WalkOrdered
<1>11. ASSUME NEW s \in Senders, HistoryNil(s) PROVE JInv'
  BY <1>11, <1>a, <1>f DEF HistoryNil, TypeOK
<1>12. ASSUME NEW s \in Senders, sendEventIfNeed(s) PROVE JInv'
  <2>1. /\ g[s].pc = "next" /\ g[s].vs # <<>> /\ g[s].vs \in Seq(Points)
        /\ g[s].item \in Points /\ g[s].now \in Nat
        /\ g[s].list \in 1 .. Len(lists)
    BY <1>12, <1>b DEF sendEventIfNeed, Read, At, LocalOK, Locals
  <2>2. {g[s].vs[i].ts : i \in 1 .. Len(g[s].vs)} \in SUBSET Times
    <3>1. \A i \in 1 .. Len(g[s].vs) : g[s].vs[i] \in Points
      BY <2>1, ElementOfSeq
    <3>2. \A i \in 1 .. Len(g[s].vs) : g[s].vs[i].ts \in Times
      BY <3>1 DEF Points
    <3> QED
      BY <3>2
  <2>3. ASSUME NEW st \in {"PROBLEM", "OK"}, NEW step \in Nat
        PROVE  Event(s, st, step) \in Events
    BY <1>a, <2>1, <2>2 DEF Event, Events, Points, TypeOK
  <2>4. ASSUME NEW e \in Events,
               g' = [g EXCEPT ![s].pc = "event", ![s].event = e]
        PROVE  JInv'
    <3> DEFINE r == [g[s] EXCEPT !.pc = "event", !.event = e]
    <3>1. g' = [g EXCEPT ![s] = r]
      BY <2>4, <1>a DEF TypeOK
    <3>2. /\ r \in Locals /\ r.pc = "event" /\ r.list = g[s].list
          /\ r.vs = g[s].vs /\ r.event = e
      BY <1>b DEF Locals
    <3>3. UNCHANGED <<clock, sends, restarts, crashed, lists, entry, stale, lastEvent, redis>>
      BY <1>12 DEF sendEventIfNeed
    <3>4. /\ Decreasing(r.vs)
          /\ r.list \in 1 .. Len(lists) /\ r.vs # <<>>
          /\ sends' \in 0 .. MaxSends
      BY <1>t, <1>b, <2>1, <2>4, <3>2, <3>3
    <3> HIDE DEF r
    <3> QED
      BY <1>t, <1>d, <3>1, <3>2, <3>3, <3>4
  <2>5. lastEvent \in Events /\ lastEvent.step \in Nat
    BY <1>a DEF TypeOK, Events
  <2>9. lastEvent.step + 1 \in Nat
    BY <2>5
  <2> QED
    BY <1>12, <1>e, <2>3, <2>4, <2>9 DEF sendEventIfNeed
<1>13. ASSUME NEW s \in Senders, sendEventSet(s) PROVE JInv'
  <2> DEFINE r == [g[s] EXCEPT !.pc = "lpush"]
  <2>1. g' = [g EXCEPT ![s] = r]
    BY <1>13, <1>a DEF sendEventSet, TypeOK
  <2>2. g[s].list \in 1 .. Len(lists)
    BY <1>13, SenderList DEF sendEventSet, At
  <2>3. /\ r \in Locals /\ r.pc = "lpush" /\ r.list = g[s].list
        /\ r.vs = g[s].vs /\ r.event = g[s].event /\ g[s].event \in Events
    BY <1>b DEF Locals
  <2>4. HistoryOrdered'
    BY <1>13, <1>a DEF sendEventSet, HistoryOrdered
  <2>5. /\ UNCHANGED <<clock, sends, restarts, crashed, lists, entry, stale, redis>>
        /\ lastEvent' = g[s].event
    BY <1>13 DEF sendEventSet
  <2> QED
    BY <1>t, <1>b, <2>1, <2>2, <2>3, <2>4, <2>5, SenderStep
<1>14. ASSUME NEW s \in Senders, sendEventPush(s) PROVE JInv'
  <2>1. g[s].event \in Events
    BY <1>b DEF Locals
  <2>2. redis' \in Seq(Events)
    <3>1. CASE redis' = Append(redis, g[s].event)
      BY <1>t, <2>1, <3>1, AppendProperties
    <3>2. CASE UNCHANGED redis
      BY <1>t, <3>2
    <3> QED
      BY <1>14, <3>1, <3>2 DEF sendEventPush
  <2>3. HistoryOrdered'
    BY <1>14, <1>a DEF sendEventPush, HistoryOrdered
  <2>4. g' = [g EXCEPT ![s] = Idle]
    BY <1>14 DEF sendEventPush
  <2>5. UNCHANGED <<clock, sends, restarts, crashed, lists, entry, stale, lastEvent>>
    BY <1>14 DEF sendEventPush
  <2> QED
    BY <1>t, <1>c, <2>2, <2>3, <2>4, <2>5, SenderStep
<1>u. clock \in Nat /\ stale \in BOOLEAN /\ TRUE \in BOOLEAN /\ FALSE \in BOOLEAN
  BY <1>a DEF TypeOK
<1>15. CASE Tick
  BY <1>15, <1>t, <1>u, <1>f DEF Tick
<1>16. CASE CleanCollect
  <2>1. stale' \in BOOLEAN
    BY <1>16 DEF CleanCollect
  <2> QED
    BY <1>16, <1>t, <1>u, <1>f, <2>1 DEF CleanCollect
<1>17. CASE BatchDelete
  <2>1. stale' \in BOOLEAN
    BY <1>17 DEF BatchDelete
  <2>2. entry' \in 0 .. Len(lists)
    BY <1>17, <1>a DEF BatchDelete, NoList
  <2> QED
    BY <1>17, <1>t, <1>u, <1>f, <2>1, <2>2 DEF BatchDelete
<1>18. CASE Restart
  <2>1. /\ \A s \in Senders : g'[s] = Idle
        /\ lists' = <<>> /\ entry' = NoList /\ lastEvent' = NoEvent
        /\ redis' = redis
    BY <1>18 DEF Restart
  <2>2. \A s \in Senders : LocalOK(s)'
    BY <1>c, <2>1 DEF LocalOK
  <2>3. HistoryOrdered'
    BY <2>1 DEF HistoryOrdered
  <2>4. WalkOrdered'
    BY <1>c, <2>1 DEF WalkOrdered
  <2>6. g' \in [Senders -> Locals]
    BY <1>18, <1>c DEF Restart
  <2>7. lists' \in Seq(Seq(Points) \ {<<>>}) /\ entry' \in 0 .. Len(lists')
    BY <2>1, EmptySeq DEF NoList
  <2>8. lastEvent' \in Events /\ redis' \in Seq(Events)
    BY <1>a, <2>1 DEF TypeOK, NoEvent, Events, Times
  <2>9. clock' \in Nat /\ sends' \in 0 .. MaxSends /\ restarts' \in Nat
    BY <1>18, <1>a DEF Restart, TypeOK
  <2>10. crashed' \in BOOLEAN /\ stale' \in BOOLEAN
    BY <1>18 DEF Restart
  <2>11. TypeOK'
    BY <2>2, <2>6, <2>7, <2>8, <2>9, <2>10 DEF TypeOK
  <2> QED
    BY <2>3, <2>4, <2>11 DEF JInv
<1>19. CASE Quiescent
  BY <1>1, <1>19 DEF Quiescent
<1> QED
  BY <1>1, <1>2, <1>3, <1>4, <1>5, <1>6, <1>7, <1>8, <1>9, <1>10, <1>11, <1>12,
     <1>13, <1>14, <1>15, <1>16, <1>17, <1>18, <1>19 DEF Next, Sender

\* The invariant holds in every state of every behaviour of judge.
LEMMA JInvAlways == Spec => []JInv
BY JInvInit, JInvStep, PTL DEF Spec

\* For any number of concurrent Sends of a series, cleanups, failed LPUSHes
\* and restarts, history lists stay strictly ordered and within Remain
\* (SafeLinkedList.PushFrontAndMaintain).
THEOREM JudgeSafe == Spec => [](TypeOK /\ HistoryOrdered)
<1>1. JInv => TypeOK /\ HistoryOrdered
  BY DEF JInv
<1> QED
  BY <1>1, JInvAlways, PTL

\* The walk that takes no lock returns strictly older points one after the
\* other, whatever is pushed and cut while it runs (HistoryData).
THEOREM WalkStaysOrdered == Spec => []WalkOrdered
<1>1. JInv => WalkOrdered
  BY DEF JInv
<1> QED
  BY <1>1, JInvAlways, PTL

-----------------------------------------------------------------------------
(* The order of the alarms.  It holds for one Send at a time in a process  *)
(* that reaches redis: with two senders or a lost LPUSH, LastEvents and    *)
(* redis part.  The invariant says where they agree: LastEvents holds the  *)
(* last event in redis, if it is of this life of the process, or the one   *)
(* about to be pushed.  That no point is used twice rests on FrontInv: the *)
(* walk begins at the point that was just pushed, so an event uses none    *)
(* that is newer than its own.                                             *)

Sequential ==
    /\ \A s, t \in Senders : s = t
    /\ RedisFails = FALSE

HasFront == {"set", "len", "front", "next"}

FrontInv ==
    /\ Sequential
    /\ \A s \in Senders :
          /\ g[s].pc \in HasFront => Head(lists[g[s].list]) = g[s].item
          /\ g[s].pc = "next" => g[s].vs[1] = g[s].item

\* The point just pushed is the front of the list.
LEMMA MaintainedFront ==
    ASSUME NEW list \in Seq(Points) \ {<<>>}, NEW item \in Points
    PROVE  Head(Maintained(item, list)) = item
<1> DEFINE longer == <<item>> \o list
           n == IF Len(list) + 1 <= Remain THEN Len(list) + 1 ELSE Remain
<1>1. Len(list) \in Nat \ {0}
  BY EmptySeq
<1>2. <<item>> \in Seq(Points) /\ Len(<<item>>) = 1 /\ <<item>>[1] = item
  OBVIOUS
<1>3. /\ longer \in Seq(Points)
      /\ Len(longer) = Len(list) + 1
      /\ \A i \in 1 .. Len(list) + 1 :
            longer[i] = IF i <= 1 THEN item ELSE list[i - 1]
  BY <1>1, <1>2, ConcatProperties
<1>4. n \in 1 .. Remain /\ n <= Len(longer) /\ 1 \in 1 .. n
  BY <1>1, <1>3
<1>5. \A i \in 1 .. n : longer[i] \in Points
  BY <1>3, <1>4
<1>6. /\ SubSeq(longer, 1, n) \in Seq(Points)
      /\ Len(SubSeq(longer, 1, n)) = n
      /\ \A i \in 1 .. n : SubSeq(longer, 1, n)[i] = longer[i]
  BY <1>4, <1>5, SubSeqProperties
<1>7. SubSeq(longer, 1, n)[1] = item
  BY <1>1, <1>3, <1>4, <1>6
<1>8. SubSeq(longer, 1, n) # <<>>
  BY <1>4, <1>6, EmptySeq
<1>9. Maintained(item, list) = SubSeq(longer, 1, n)
  BY DEF Maintained
<1> HIDE DEF longer, n
<1> QED
  BY <1>6, <1>7, <1>8, <1>9, HeadTailProperties

\* Every step of a sequential judge leaves the pushed point in front.
LEMMA FrontInvStep == JInv /\ FrontInv /\ [Next]_vars => FrontInv'
<1> SUFFICES ASSUME JInv, FrontInv, [Next]_vars PROVE FrontInv'
  OBVIOUS
<1>0. /\ Sequential /\ Sequential'
      /\ g \in [Senders -> Locals]
      /\ \A s \in Senders : g[s] \in Locals
      /\ lists \in Seq(Seq(Points) \ {<<>>}) /\ Len(lists) \in Nat
  BY LenProperties DEF JInv, TypeOK, FrontInv, Sequential
<1>d. ASSUME NEW s \in Senders, NEW r, g' = [g EXCEPT ![s] = r],
             r.pc \in HasFront => Head(lists'[r.list]) = r.item,
             r.pc = "next" => r.vs[1] = r.item
      PROVE  FrontInv'
  <2>1. g'[s] = r /\ \A t \in Senders : t = s
    BY <1>0, <1>d DEF Sequential
  <2> QED
    BY <1>0, <1>d, <2>1 DEF FrontInv
<1>i. ASSUME NEW s \in Senders, g' = [g EXCEPT ![s] = Idle] PROVE FrontInv'
  <2>1. Idle.pc = "idle"
    BY DEF Idle
  <2> QED
    BY <1>i, <1>d, <2>1 DEF HasFront
<1>n. ASSUME NEW s \in Senders, NEW r, g' = [g EXCEPT ![s] = r],
             r.pc \in {"get", "push", "event", "lpush"}
      PROVE  FrontInv'
  BY <1>n, <1>d DEF HasFront
<1>q. ASSUME UNCHANGED <<lists, g>> PROVE FrontInv'
  BY <1>0, <1>q DEF FrontInv
<1>1. CASE UNCHANGED vars
  BY <1>1, <1>q DEF vars
<1>2. CASE Tick \/ CleanCollect \/ BatchDelete \/ Quiescent
  BY <1>2, <1>q DEF Tick, CleanCollect, BatchDelete, Quiescent, vars
<1>3. CASE Restart
  BY <1>0, <1>3 DEF Restart, FrontInv, Idle, HasFront
<1>4. ASSUME NEW s \in Senders, Send(s) PROVE FrontInv'
  <2>1. PICK item \in Points :
          g' = [g EXCEPT ![s] = [Idle EXCEPT !.pc = "get", !.item = item, !.now = clock]]
    BY <1>4 DEF Send
  <2>2. [Idle EXCEPT !.pc = "get", !.item = item, !.now = clock].pc = "get"
    BY DEF Idle
  <2> QED
    BY <1>n, <2>1, <2>2
<1>5. ASSUME NEW s \in Senders, GetHit(s) PROVE FrontInv'
  <2> DEFINE r == [g[s] EXCEPT !.pc = "push", !.list = entry]
  <2>1. g' = [g EXCEPT ![s] = r]
    BY <1>0, <1>5 DEF GetHit
  <2>2. r.pc = "push"
    BY <1>0 DEF Locals
  <2> QED
    BY <1>n, <2>1, <2>2
<1>6. ASSUME NEW s \in Senders, GetMiss(s) PROVE FrontInv'
  <2> DEFINE r == [g[s] EXCEPT !.pc = "set", !.list = Len(lists) + 1]
  <2>1. g' = [g EXCEPT ![s] = r]
    BY <1>0, <1>6 DEF GetMiss
  <2>2. r.pc = "set" /\ r.list = Len(lists) + 1 /\ r.item = g[s].item
    BY <1>0 DEF Locals
  <2>3. lists'[Len(lists) + 1] = <<g[s].item>>
    BY <1>0, <1>6, AppendProperties DEF GetMiss
  <2>4. Head(<<g[s].item>>) = g[s].item
    OBVIOUS
  <2> HIDE DEF r
  <2> QED
    BY <1>d, <2>1, <2>2, <2>3, <2>4
<1>7. ASSUME NEW s \in Senders, Set(s) \/ HistoryLen(s) PROVE FrontInv'
  <2>1. PICK r : /\ g' = [g EXCEPT ![s] = r] /\ r.pc \in {"len", "front"}
                 /\ r.list = g[s].list /\ r.item = g[s].item
    <3>1. CASE Set(s)
      <4> DEFINE w == [g[s] EXCEPT !.pc = "len"]
      <4>1. g' = [g EXCEPT ![s] = w]
        BY <1>0, <3>1 DEF Set
      <4>2. w.pc = "len" /\ w.list = g[s].list /\ w.item = g[s].item
        BY <1>0 DEF Locals
      <4> HIDE DEF w
      <4> QED
        BY <4>1, <4>2
    <3>2. CASE HistoryLen(s)
      <4> DEFINE w == [g[s] EXCEPT !.pc = "front", !.enough = (Len(L(s)) >= Limit),
                         !.n = IF Len(L(s)) < Limit THEN Len(L(s)) ELSE Limit]
      <4>1. g' = [g EXCEPT ![s] = w]
        BY <1>0, <3>2 DEF HistoryLen
      <4>2. w.pc = "front" /\ w.list = g[s].list /\ w.item = g[s].item
        BY <1>0 DEF Locals
      <4> HIDE DEF w
      <4> QED
        BY <4>1, <4>2
    <3> QED
      BY <1>7, <3>1, <3>2
  <2>2. g[s].pc \in HasFront /\ lists' = lists
    BY <1>7 DEF Set, HistoryLen, At, HasFront
  <2>3. Head(lists'[r.list]) = r.item
    BY <2>1, <2>2 DEF FrontInv
  <2>4. r.pc # "next"
    BY <2>1
  <2> QED
    BY <1>d, <2>1, <2>3, <2>4
<1>8. ASSUME NEW s \in Senders, PushFrontAndMaintain(s) PROVE FrontInv'
  <2> DEFINE r == [g[s] EXCEPT !.pc = "len"]
  <2>1. g' = [g EXCEPT ![s] = r]
    BY <1>0, <1>8 DEF PushFrontAndMaintain
  <2>2. r.pc = "len" /\ r.list = g[s].list /\ r.item = g[s].item /\ g[s].item \in Points
    BY <1>0 DEF Locals
  <2>3. g[s].list \in 1 .. Len(lists) /\ L(s) \in Seq(Points) \ {<<>>}
    BY <1>8, SenderList DEF PushFrontAndMaintain, At
  <2>4. lists'[g[s].list] = Maintained(g[s].item, L(s))
    BY <1>0, <1>8, <2>3 DEF PushFrontAndMaintain, L
  <2>5. Head(lists'[g[s].list]) = g[s].item
    BY <2>2, <2>3, <2>4, MaintainedFront
  <2> HIDE DEF r
  <2> QED
    BY <1>d, <2>1, <2>2, <2>5
<1>9. ASSUME NEW s \in Senders, HistoryFront(s) PROVE FrontInv'
  <2> DEFINE one == <<Head(L(s))>>
             r == [g[s] EXCEPT !.pc = "next", !.vs = one]
  <2>1. g' = [g EXCEPT ![s] = r]
    BY <1>0, <1>9 DEF HistoryFront
  <2>2. r.pc = "next" /\ r.list = g[s].list /\ r.item = g[s].item /\ r.vs = one
    BY <1>0 DEF Locals
  <2>3. g[s].pc \in HasFront /\ lists' = lists
    BY <1>9 DEF HistoryFront, At, HasFront
  <2>4. Head(lists'[r.list]) = r.item /\ Head(L(s)) = r.item
    BY <2>2, <2>3 DEF FrontInv, L
  <2>5. one[1] = Head(L(s))
    OBVIOUS
  <2>6. r.vs[1] = r.item
    BY <2>2, <2>4, <2>5
  <2> HIDE DEF r
  <2> QED
    BY <1>d, <2>1, <2>4, <2>6
<1>10. ASSUME NEW s \in Senders, HistoryNext(s) PROVE FrontInv'
  <2>1. PICK k \in NextOf(s) : g' = [g EXCEPT ![s].vs = Append(@, L(s)[k])]
    BY <1>10 DEF HistoryNext
  <2> DEFINE w == Append(g[s].vs, L(s)[k])
             r == [g[s] EXCEPT !.vs = w]
  <2>2. g' = [g EXCEPT ![s] = r]
    BY <1>0, <2>1
  <2>3. g[s].pc = "next" /\ g[s].vs \in Seq(Points) /\ g[s].vs # <<>> /\ lists' = lists
    BY <1>0, <1>10 DEF HistoryNext, At, LocalOK, Locals, JInv, TypeOK
  <2>4. L(s)[k] \in Points
    <3>1. L(s) \in Seq(Points) /\ Len(L(s)) \in Nat
      BY <2>3, SenderList
    <3>2. k \in 1 .. Len(L(s))
      BY <3>1 DEF NextOf
    <3> QED
      BY <3>1, <3>2, ElementOfSeq
  <2>5. w[1] = g[s].vs[1]
    BY <2>3, <2>4, EmptySeq, AppendProperties
  <2>6. r.pc = "next" /\ r.list = g[s].list /\ r.item = g[s].item /\ r.vs = w
    BY <1>0, <2>3 DEF Locals
  <2>7. Head(lists'[r.list]) = r.item /\ r.vs[1] = r.item
    BY <2>3, <2>5, <2>6 DEF FrontInv, HasFront
  <2> HIDE DEF r
  <2> QED
    BY <1>d, <2>2, <2>7
<1>11. ASSUME NEW s \in Senders, HistoryNil(s) PROVE FrontInv'
  BY <1>11, <1>q DEF HistoryNil
<1>12. ASSUME NEW s \in Senders, PushRejected(s) \/ NotEnough(s) \/ sendEventPush(s)
       PROVE  FrontInv'
  BY <1>12, <1>i DEF PushRejected, NotEnough, sendEventPush
<1>13. ASSUME NEW s \in Senders, sendEventIfNeed(s) PROVE FrontInv'
  <2>1. CASE g' = [g EXCEPT ![s] = Idle]
    BY <1>i, <2>1
  <2>2. ASSUME NEW e, g' = [g EXCEPT ![s].pc = "event", ![s].event = e] PROVE FrontInv'
    <3> DEFINE r == [g[s] EXCEPT !.pc = "event", !.event = e]
    <3>1. g' = [g EXCEPT ![s] = r]
      BY <1>0, <2>2
    <3>2. r.pc = "event"
      BY <1>0 DEF Locals
    <3> QED
      BY <1>n, <3>1, <3>2
  <2> QED
    BY <1>13, <2>1, <2>2 DEF sendEventIfNeed
<1>14. ASSUME NEW s \in Senders, sendEventSet(s) PROVE FrontInv'
  <2> DEFINE r == [g[s] EXCEPT !.pc = "lpush"]
  <2>1. g' = [g EXCEPT ![s] = r]
    BY <1>0, <1>14 DEF sendEventSet
  <2>2. r.pc = "lpush"
    BY <1>0 DEF Locals
  <2> QED
    BY <1>n, <2>1, <2>2
<1> QED
  BY <1>1, <1>2, <1>3, <1>4, <1>5, <1>6, <1>7, <1>8, <1>9, <1>10, <1>11, <1>12,
     <1>13, <1>14 DEF Next, Sender

\* The event an event is judged by: the one before it in the same life of the
\* process.
Prior(e, f) == IF e.life = f.life THEN e ELSE NoEvent

Chain(e, f) ==
    /\ Follows(Prior(e, f), f)
    /\ (e.life = f.life /\ e.status = "PROBLEM" /\ f.status = "PROBLEM")
          => e.used \cap f.used = {}

UsedOK(e) == \A t \in e.used : t <= e.time

LastSent == IF redis = <<>> THEN NoEvent ELSE redis[Len(redis)]
LastOfLife == IF LastSent.life = restarts THEN LastSent ELSE NoEvent

EpisodeInv ==
    /\ Sequential
    /\ \A k \in 1 .. Len(redis) :
          /\ Chain(IF k = 1 THEN NoEvent ELSE redis[k - 1], redis[k])
          /\ redis[k].life <= restarts
    /\ UsedOK(lastEvent)
    /\ (\A s \in Senders : g[s].pc # "lpush") => lastEvent = LastOfLife
    /\ \A s \in Senders :
          /\ g[s].pc \in {"event", "lpush"} => g[s].event.life = restarts
          /\ g[s].pc = "event" => Chain(lastEvent, g[s].event) /\ UsedOK(g[s].event)
          /\ g[s].pc = "lpush" => lastEvent = g[s].event /\ Chain(LastSent, g[s].event)

\* A sender that neither decides nor pushes leaves the chain of alarms alone.
LEMMA EpisodeQuiet ==
    ASSUME EpisodeInv, JInv, NEW s \in Senders, NEW r,
           g' = [g EXCEPT ![s] = r], r.pc \notin {"event", "lpush"},
           g[s].pc # "lpush", UNCHANGED <<lastEvent, redis, restarts>>
    PROVE  EpisodeInv'
<1>1. g'[s] = r /\ \A t \in Senders : t = s
  BY DEF JInv, TypeOK, EpisodeInv, Sequential
<1>2. LastSent' = LastSent /\ LastOfLife' = LastOfLife
  BY DEF LastSent, LastOfLife
<1>3. Sequential'
  BY DEF EpisodeInv, Sequential
<1>4. lastEvent' = LastOfLife'
  BY <1>1, <1>2 DEF EpisodeInv
<1> QED
  BY <1>1, <1>3, <1>4 DEF EpisodeInv

\* Every step of a sequential judge keeps the chain of alarms.
LEMMA EpisodeInvStep == JInv /\ FrontInv /\ EpisodeInv /\ [Next]_vars => EpisodeInv'
<1> SUFFICES ASSUME JInv, FrontInv, EpisodeInv, [Next]_vars PROVE EpisodeInv'
  OBVIOUS
<1>0. /\ Sequential /\ Sequential'
      /\ \A s \in Senders : g[s] \in Locals
      /\ redis \in Seq(Events) /\ Len(redis) \in Nat
      /\ lastEvent \in Events /\ restarts \in Nat
  BY LenProperties DEF JInv, TypeOK, EpisodeInv, Sequential
<1>q. CASE UNCHANGED <<lastEvent, redis, restarts, g>>
  <2>1. LastSent' = LastSent /\ LastOfLife' = LastOfLife
    BY <1>q DEF LastSent, LastOfLife
  <2> QED
    BY <1>0, <1>q, <2>1 DEF EpisodeInv
<1>1. CASE UNCHANGED vars
  BY <1>1, <1>q DEF vars
<1>2. CASE Tick \/ CleanCollect \/ BatchDelete \/ Quiescent
  BY <1>2, <1>q DEF Tick, CleanCollect, BatchDelete, Quiescent, vars
<1>3. CASE Restart
  <2>1. /\ restarts' = restarts + 1 /\ redis' = redis /\ lastEvent' = NoEvent
        /\ \A s \in Senders : g'[s].pc = "idle"
    BY <1>3 DEF Restart, Idle
  <2>a. ASSUME NEW k \in 1 .. Len(redis)
        PROVE  redis[k].life <= restarts /\ redis[k].life \in Nat
    <3>1. redis[k] \in Events
      BY <1>0, ElementOfSeq
    <3> QED
      BY <3>1 DEF EpisodeInv, Events
  <2>2. LastSent'.life < restarts'
    <3>1. LastSent' = LastSent
      BY <2>1 DEF LastSent
    <3>2. CASE redis = <<>>
      BY <1>0, <2>1, <3>1, <3>2 DEF LastSent, NoEvent
    <3>3. CASE redis # <<>>
      <4>1. Len(redis) \in 1 .. Len(redis) /\ LastSent = redis[Len(redis)]
        BY <1>0, <3>3, EmptySeq DEF LastSent
      <4> QED
        BY <1>0, <2>1, <2>a, <3>1, <4>1
    <3> QED
      BY <3>2, <3>3
  <2>3. lastEvent' = LastOfLife'
    BY <1>0, <2>1, <2>2 DEF LastOfLife
  <2>4. \A k \in 1 .. Len(redis) : redis[k].life <= restarts'
    BY <1>0, <2>1, <2>a
  <2>5. UsedOK(lastEvent)'
    BY <2>1 DEF UsedOK, NoEvent
  <2> QED
    BY <1>0, <2>1, <2>3, <2>4, <2>5 DEF EpisodeInv
<1>4. ASSUME NEW s \in Senders, Send(s) PROVE EpisodeInv'
  <2>1. PICK item \in Points :
          g' = [g EXCEPT ![s] = [Idle EXCEPT !.pc = "get", !.item = item, !.now = clock]]
    BY <1>4 DEF Send
  <2>2. [Idle EXCEPT !.pc = "get", !.item = item, !.now = clock].pc = "get"
    BY DEF Idle
  <2>3. g[s].pc = "idle" /\ UNCHANGED <<lastEvent, redis, restarts>>
    BY <1>4 DEF Send, At
  <2> QED
    BY <2>1, <2>2, <2>3, EpisodeQuiet
<1>5. ASSUME NEW s \in Senders, NEW p \in {"push", "set", "len", "front", "next"},
             NEW r, g' = [g EXCEPT ![s] = r], r.pc = p,
             g[s].pc # "lpush", UNCHANGED <<lastEvent, redis, restarts>>
      PROVE  EpisodeInv'
  BY <1>5, EpisodeQuiet
<1>i. ASSUME NEW s \in Senders, g' = [g EXCEPT ![s] = Idle],
             g[s].pc # "lpush", UNCHANGED <<lastEvent, redis, restarts>>
      PROVE  EpisodeInv'
  <2>1. Idle.pc = "idle"
    BY DEF Idle
  <2> QED
    BY <1>i, <2>1, EpisodeQuiet
<1>g. g \in [Senders -> Locals]
  BY DEF JInv, TypeOK
<1>6. ASSUME NEW s \in Senders, GetHit(s) PROVE EpisodeInv'
  <2> DEFINE r == [g[s] EXCEPT !.pc = "push", !.list = entry]
  <2>1. g' = [g EXCEPT ![s] = r] /\ g[s].pc # "lpush" /\ UNCHANGED <<lastEvent, redis, restarts>>
    BY <1>6, <1>g DEF GetHit, At
  <2>2. r.pc = "push"
    BY <1>0 DEF Locals
  <2> QED
    BY <1>5, <2>1, <2>2
<1>7. ASSUME NEW s \in Senders, GetMiss(s) PROVE EpisodeInv'
  <2> DEFINE r == [g[s] EXCEPT !.pc = "set", !.list = Len(lists) + 1]
  <2>1. g' = [g EXCEPT ![s] = r] /\ g[s].pc # "lpush" /\ UNCHANGED <<lastEvent, redis, restarts>>
    BY <1>7, <1>g DEF GetMiss, At
  <2>2. r.pc = "set"
    BY <1>0 DEF Locals
  <2> QED
    BY <1>5, <2>1, <2>2
<1>8. ASSUME NEW s \in Senders, Set(s) \/ PushFrontAndMaintain(s) PROVE EpisodeInv'
  <2> DEFINE r == [g[s] EXCEPT !.pc = "len"]
  <2>1. g' = [g EXCEPT ![s] = r] /\ g[s].pc # "lpush" /\ UNCHANGED <<lastEvent, redis, restarts>>
    BY <1>8, <1>g DEF Set, PushFrontAndMaintain, At
  <2>2. r.pc = "len"
    BY <1>0 DEF Locals
  <2> QED
    BY <1>5, <2>1, <2>2
<1>9. ASSUME NEW s \in Senders, HistoryLen(s) PROVE EpisodeInv'
  <2> DEFINE r == [g[s] EXCEPT !.pc = "front", !.enough = (Len(L(s)) >= Limit),
                     !.n = IF Len(L(s)) < Limit THEN Len(L(s)) ELSE Limit]
  <2>1. g' = [g EXCEPT ![s] = r] /\ g[s].pc # "lpush" /\ UNCHANGED <<lastEvent, redis, restarts>>
    BY <1>9, <1>g DEF HistoryLen, At
  <2>2. r.pc = "front"
    BY <1>0 DEF Locals
  <2> QED
    BY <1>5, <2>1, <2>2
<1>10. ASSUME NEW s \in Senders, HistoryFront(s) PROVE EpisodeInv'
  <2> DEFINE r == [g[s] EXCEPT !.pc = "next", !.vs = <<Head(L(s))>>]
  <2>1. g' = [g EXCEPT ![s] = r] /\ g[s].pc # "lpush" /\ UNCHANGED <<lastEvent, redis, restarts>>
    BY <1>10, <1>g DEF HistoryFront, At
  <2>2. r.pc = "next"
    BY <1>0 DEF Locals
  <2> QED
    BY <1>5, <2>1, <2>2
<1>11. ASSUME NEW s \in Senders, HistoryNext(s) PROVE EpisodeInv'
  <2>1. PICK k \in NextOf(s) : g' = [g EXCEPT ![s].vs = Append(@, L(s)[k])]
    BY <1>11 DEF HistoryNext
  <2> DEFINE r == [g[s] EXCEPT !.vs = Append(@, L(s)[k])]
  <2>2. g' = [g EXCEPT ![s] = r] /\ g[s].pc = "next" /\ UNCHANGED <<lastEvent, redis, restarts>>
    BY <1>11, <1>g, <2>1 DEF HistoryNext, At
  <2>3. r.pc = "next"
    BY <1>0, <2>2 DEF Locals
  <2> QED
    BY <1>5, <2>2, <2>3
<1>12. ASSUME NEW s \in Senders, HistoryNil(s) PROVE EpisodeInv'
  BY <1>12, <1>q DEF HistoryNil
<1>13. ASSUME NEW s \in Senders, PushRejected(s) \/ NotEnough(s) PROVE EpisodeInv'
  BY <1>13, <1>i DEF PushRejected, NotEnough, Read, At
<1>14. ASSUME NEW s \in Senders, sendEventIfNeed(s) PROVE EpisodeInv'
  <2>0. /\ g[s].pc = "next" /\ UNCHANGED <<lastEvent, redis, restarts>>
        /\ \A t \in Senders : t = s
    BY <1>0, <1>14 DEF sendEventIfNeed, Read, At, Sequential
  <2>1. lastEvent = LastOfLife /\ LastSent' = LastSent /\ LastOfLife' = LastOfLife
    BY <2>0 DEF EpisodeInv, LastSent, LastOfLife
  <2>v. /\ g[s].vs \in Seq(Points) /\ g[s].vs # <<>> /\ Decreasing(g[s].vs)
        /\ g[s].vs[1] = g[s].item /\ g[s].item \in Points
        /\ Len(g[s].vs) \in Nat \ {0}
    <3>1. LocalOK(s) /\ Decreasing(g[s].vs)
      BY DEF JInv, TypeOK, WalkOrdered
    <3> QED
      BY <1>0, <2>0, <3>1, EmptySeq DEF LocalOK, FrontInv, Locals
  <2>u. \A i \in 1 .. Len(g[s].vs) :
           /\ g[s].vs[i].ts \in Int /\ Last(g[s].vs).ts \in Int
           /\ Last(g[s].vs).ts <= g[s].vs[i].ts /\ g[s].vs[i].ts <= g[s].item.ts
    <3> SUFFICES ASSUME NEW i \in 1 .. Len(g[s].vs)
                 PROVE  /\ g[s].vs[i].ts \in Int /\ Last(g[s].vs).ts \in Int
                        /\ Last(g[s].vs).ts <= g[s].vs[i].ts /\ g[s].vs[i].ts <= g[s].item.ts
      OBVIOUS
    <3>1. /\ 1 \in 1 .. Len(g[s].vs) /\ Len(g[s].vs) \in 1 .. Len(g[s].vs)
          /\ 1 <= i /\ i <= Len(g[s].vs) /\ Last(g[s].vs) = g[s].vs[Len(g[s].vs)]
      BY <2>v DEF Last
    <3>2. g[s].vs[i].ts <= g[s].vs[1].ts
      BY <2>v, <3>1, NotNewer
    <3>3. /\ g[s].vs[i].ts \in Int /\ g[s].vs[Len(g[s].vs)].ts \in Int
          /\ g[s].vs[Len(g[s].vs)].ts <= g[s].vs[i].ts
      BY <2>v, <3>1, NotNewer
    <3> QED
      BY <2>v, <3>1, <3>2, <3>3
  <2>e. ASSUME NEW st, NEW step
        PROVE  /\ Event(s, st, step).status = st /\ Event(s, st, step).step = step
               /\ Event(s, st, step).life = restarts /\ UsedOK(Event(s, st, step))
               /\ \A t \in Event(s, st, step).used : t \in Int /\ Last(g[s].vs).ts <= t
               /\ Last(g[s].vs).ts \in Int
    <3>1. Event(s, st, step).used = {g[s].vs[i].ts : i \in 1 .. Len(g[s].vs)}
      BY DEF Event
    <3>2. Event(s, st, step).time = g[s].item.ts
      BY DEF Event
    <3>3. 1 \in 1 .. Len(g[s].vs)
      BY <2>v
    <3> QED
      BY <2>u, <3>1, <3>2, <3>3 DEF UsedOK, Event
  <2>d. ASSUME NEW st, NEW step, 
               g' = [g EXCEPT ![s].pc = "event", ![s].event = Event(s, st, step)],
               Chain(lastEvent, Event(s, st, step))
        PROVE  EpisodeInv'
    <3>1. PICK e : e = Event(s, st, step)
      OBVIOUS
    <3>2. g'[s].pc = "event" /\ g'[s].event = e
      BY <1>0, <1>g, <2>d, <3>1 DEF Locals
    <3>3. e.life = restarts /\ UsedOK(e) /\ Chain(lastEvent, e)
      BY <2>d, <2>e, <3>1
    <3> QED
      BY <1>0, <2>0, <2>1, <3>2, <3>3 DEF EpisodeInv
  <2>l. lastEvent = NoEvent \/ lastEvent.life = restarts
    BY <2>1 DEF LastOfLife
  <2>p. ASSUME NEW f, f.life = restarts PROVE Prior(lastEvent, f) = lastEvent
    BY <2>l, <2>p DEF Prior
  <2>2. CASE /\ firstNeeded(s)
             /\ g' = [g EXCEPT ![s].pc = "event", ![s].event = Event(s, "PROBLEM", 1)]
    <3>1. Chain(lastEvent, Event(s, "PROBLEM", 1))
      <4>1. PICK e : e = Event(s, "PROBLEM", 1)
        OBVIOUS
      <4>2. e.status = "PROBLEM" /\ e.step = 1 /\ e.life = restarts
        BY <2>e, <4>1
      <4>3. lastEvent.status # "PROBLEM" /\ Prior(lastEvent, e) = lastEvent
        BY <2>2, <2>p, <4>2 DEF firstNeeded
      <4> QED
        BY <4>1, <4>2, <4>3 DEF Chain, Follows
    <3> QED
      BY <2>2, <2>d, <3>1
  <2>3. CASE /\ repeatNeeded(s)
             /\ g' = [g EXCEPT ![s].pc = "event",
                               ![s].event = Event(s, "PROBLEM", lastEvent.step + 1)]
    <3>1. Chain(lastEvent, Event(s, "PROBLEM", lastEvent.step + 1))
      <4>1. PICK e : e = Event(s, "PROBLEM", lastEvent.step + 1)
        OBVIOUS
      <4>2. /\ e.status = "PROBLEM" /\ e.step = lastEvent.step + 1 /\ e.life = restarts
            /\ \A t \in e.used : t \in Int /\ Last(g[s].vs).ts <= t
            /\ Last(g[s].vs).ts \in Int
        BY <2>e, <4>1
      <4>3. /\ lastEvent.status = "PROBLEM" /\ Prior(lastEvent, e) = lastEvent
            /\ Last(g[s].vs).ts > lastEvent.time
        BY <2>3, <2>p, <4>2 DEF repeatNeeded
      <4>4. lastEvent.used \cap e.used = {}
        <5>1. lastEvent.time \in Int /\ lastEvent.used \subseteq Int
          BY <1>0 DEF Events, Times
        <5>2. \A t \in lastEvent.used : t <= lastEvent.time
          BY DEF EpisodeInv, UsedOK
        <5>3. \A t \in e.used : t > lastEvent.time
          BY <4>2, <4>3, <5>1
        <5> QED
          BY <5>1, <5>2, <5>3
      <4> QED
        BY <4>1, <4>2, <4>3, <4>4 DEF Chain, Follows
    <3> QED
      BY <2>3, <2>d, <3>1
  <2>4. CASE /\ okNeeded(s)
             /\ g' = [g EXCEPT ![s].pc = "event", ![s].event = Event(s, "OK", 1)]
    <3>1. Chain(lastEvent, Event(s, "OK", 1))
      <4>1. PICK e : e = Event(s, "OK", 1)
        OBVIOUS
      <4>2. e.status = "OK" /\ e.life = restarts
        BY <2>e, <4>1
      <4>3. lastEvent.status = "PROBLEM" /\ Prior(lastEvent, e) = lastEvent
        BY <2>4, <2>p, <4>2 DEF okNeeded
      <4> QED
        BY <4>1, <4>2, <4>3 DEF Chain, Follows
    <3> QED
      BY <2>4, <2>d, <3>1
  <2>5. CASE g' = [g EXCEPT ![s] = Idle]
    BY <2>0, <2>5, <1>i
  <2> QED
    BY <1>14, <2>2, <2>3, <2>4, <2>5 DEF sendEventIfNeed
<1>15. ASSUME NEW s \in Senders, sendEventSet(s) PROVE EpisodeInv'
  <2>1. /\ g[s].pc = "event" /\ lastEvent' = g[s].event /\ UNCHANGED <<redis, restarts>>
        /\ g'[s].pc = "lpush" /\ g'[s].event = g[s].event
        /\ \A t \in Senders : t = s
    BY <1>0, <1>g, <1>15 DEF sendEventSet, At, Sequential, Locals
  <2>2. /\ Chain(lastEvent, g[s].event) /\ lastEvent = LastOfLife /\ LastSent' = LastSent
        /\ g[s].event.life = restarts /\ UsedOK(g[s].event)
    BY <2>1 DEF EpisodeInv, LastSent
  <2>3. Chain(LastSent, g[s].event)
    <3>1. CASE LastSent.life = restarts
      BY <2>2, <3>1 DEF LastOfLife
    <3>2. CASE LastSent.life # restarts
      <4>1. lastEvent = NoEvent /\ Prior(LastSent, g[s].event) = NoEvent
        BY <2>2, <3>2 DEF LastOfLife, Prior
      <4>2. Prior(NoEvent, g[s].event) = NoEvent
        BY DEF Prior
      <4> QED
        BY <2>2, <3>2, <4>1, <4>2 DEF Chain
    <3> QED
      BY <3>1, <3>2
  <2>4. UsedOK(lastEvent)'
    BY <2>1, <2>2 DEF UsedOK
  <2> QED
    BY <1>0, <2>1, <2>2, <2>3, <2>4 DEF EpisodeInv
<1>16. ASSUME NEW s \in Senders, sendEventPush(s) PROVE EpisodeInv'
  <2>1. /\ g[s].pc = "lpush" /\ redis' = Append(redis, g[s].event)
        /\ UNCHANGED <<lastEvent, restarts>>
        /\ g'[s] = Idle /\ Idle.pc = "idle"
        /\ \A t \in Senders : t = s
    BY <1>0, <1>g, <1>16 DEF sendEventPush, At, Sequential, Idle
  <2>2. /\ lastEvent = g[s].event /\ Chain(LastSent, g[s].event) /\ g[s].event \in Events
        /\ g[s].event.life = restarts /\ UsedOK(lastEvent)
    BY <1>0, <2>1 DEF EpisodeInv, Locals
  <2>3. /\ Len(redis') = Len(redis) + 1
        /\ \A k \in 1 .. Len(redis) : redis'[k] = redis[k]
        /\ redis'[Len(redis) + 1] = g[s].event
        /\ redis' # <<>>
    BY <1>0, <2>1, <2>2, AppendProperties
  <2>4. lastEvent' = LastOfLife'
    BY <2>1, <2>2, <2>3 DEF LastSent, LastOfLife
  <2>5. ASSUME NEW k \in 1 .. Len(redis')
        PROVE  /\ Chain(IF k = 1 THEN NoEvent ELSE redis'[k - 1], redis'[k])
               /\ redis'[k].life <= restarts
    <3>1. CASE k \in 1 .. Len(redis)
      <4>1. redis'[k] = redis[k] /\ (k # 1 => redis'[k - 1] = redis[k - 1])
        BY <1>0, <2>3, <3>1
      <4> QED
        BY <3>1, <4>1 DEF EpisodeInv
    <3>2. CASE k = Len(redis) + 1
      <4>1. k = 1 <=> redis = <<>>
        BY <1>0, <3>2, EmptySeq
      <4>2. k # 1 => redis'[k - 1] = redis[Len(redis)]
        BY <1>0, <2>3, <3>2
      <4> QED
        BY <1>0, <2>2, <2>3, <3>2, <4>1, <4>2 DEF LastSent
    <3> QED
      BY <1>0, <2>3, <3>1, <3>2
  <2>6. UsedOK(lastEvent)'
    BY <2>1, <2>2
  <2> QED
    BY <1>0, <2>1, <2>4, <2>5, <2>6 DEF EpisodeInv
<1> QED
  BY <1>1, <1>2, <1>3, <1>4, <1>6, <1>7, <1>8, <1>9, <1>10, <1>11, <1>12,
     <1>13, <1>14, <1>15, <1>16 DEF Next, Sender

\* The chain of alarms holds throughout.
LEMMA EpisodeInvAlways == Sequential /\ Spec => []EpisodeInv
<1>1. Sequential /\ Init => FrontInv
  BY DEF Init, FrontInv, Idle, HasFront
<1>2. Sequential /\ Init => EpisodeInv
  BY EmptySeq DEF Init, EpisodeInv, LastOfLife, LastSent, Idle, UsedOK, NoEvent
<1> QED
  BY <1>1, <1>2, JInvAlways, FrontInvStep, EpisodeInvStep, PTL DEF Spec

\* One Send at a time, and a redis that takes every event: the alarms are
\* episodes PROBLEM 1, 2, ... ended by one OK, for every configuration of the
\* strategy; and a judge that was restarted, however often, begins with
\* PROBLEM 1, for LastEvents is gone (sendEventIfNeed).
THEOREM AlarmsAreEpisodes == Sequential /\ Spec => []Episodes
<1>1. JInv /\ EpisodeInv => Episodes
  <2> SUFFICES ASSUME JInv, EpisodeInv PROVE Episodes
    OBVIOUS
  <2>1. Len(redis) \in Nat /\ (redis # <<>> => 1 \in 1 .. Len(redis))
    BY EmptySeq, LenProperties DEF JInv, TypeOK
  <2>2. ASSUME NEW k \in 2 .. Len(redis)
        PROVE  Follows(Prior(redis[k - 1], redis[k]), redis[k])
    <3>1. k \in 1 .. Len(redis) /\ k # 1
      BY <2>1
    <3>2. Chain(redis[k - 1], redis[k])
      BY <3>1 DEF EpisodeInv
    <3> QED
      BY <3>2 DEF Chain
  <2>3. ASSUME redis # <<>> PROVE Follows(NoEvent, redis[1])
    <3>1. Chain(NoEvent, redis[1])
      BY <2>1, <2>3 DEF EpisodeInv
    <3>2. Prior(NoEvent, redis[1]) = NoEvent
      BY DEF Prior
    <3> QED
      BY <3>1, <3>2 DEF Chain
  <2> QED
    BY <2>2, <2>3 DEF Episodes, Prior
<1> QED
  BY <1>1, JInvAlways, EpisodeInvAlways, PTL

\* Under the same conditions a repeated alarm is raised on points none of which
\* the alarm before it was raised on (sendEventIfNeed).
THEOREM AlarmPointsUsedOnce == Sequential /\ Spec => []PointsUsedOnce
<1>1. JInv /\ EpisodeInv => PointsUsedOnce
  <2> SUFFICES ASSUME JInv, EpisodeInv, NEW k \in Repeats
               PROVE  redis[k - 1].used \cap redis[k].used = {}
    BY DEF PointsUsedOnce
  <2>1. Len(redis) \in Nat
    BY LenProperties DEF JInv, TypeOK
  <2>2. k \in 1 .. Len(redis) /\ k # 1
    BY <2>1 DEF Repeats
  <2>3. Chain(redis[k - 1], redis[k])
    BY <2>2 DEF EpisodeInv
  <2> QED
    BY <2>3 DEF Repeats, Chain
<1> QED
  BY <1>1, JInvAlways, EpisodeInvAlways, PTL
=============================================================================
