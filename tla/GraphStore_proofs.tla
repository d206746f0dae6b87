-------------------------- MODULE GraphStore_proofs --------------------------
(***************************************************************************)
(* graph's cache, index, history and file of one series, for any number of *)
(* points, timestamps, cleanings and queries and any capacities.  In       *)
(* layers, each inductive given the ones before it:                        *)
(*                                                                         *)
(*   TypeInv    types, and the lists handlers hold exist;                  *)
(*   IdxInv     the series is known to the index, or on its way there;     *)
(*   ChanInv    a task in the channel is the only one of its committer,    *)
(*              which waits for it;                                        *)
(*   ListInv    one handler: which list is in the map, cleaned away, or    *)
(*              not yet in the map;                                        *)
(*   KeptInv    one handler, any committers: what was accepted is          *)
(*              somewhere, or overtaken in the file;                       *)
(*   HistInv    one handler: the history is in order and misses only the   *)
(*              point the handler is at;                                   *)
(*   FlowInv    one handler and one committer: points move in order, so    *)
(*              that the file takes them all;                              *)
(*   QueryInv   what a query still has to find is ahead of it.             *)
(***************************************************************************)
EXTENDS GraphStore, SequenceTheorems, FiniteSetTheorems, WellFoundedInduction, TLAPS

USE StoreAssumption

HandPcs == {"idle", "first", "get", "set", "push", "index", "file", "hget", "hput", "hfront", "hpush"}
ComPcs == {"idle", "pop", "send", "wait", "read", "exit", "ended"}
HandRec == [pc : HandPcs, ts : Times, list : Nat]
ListMap == [lists : Seq(Seq(Times)), entry : Nat]
ComRec == [pc : ComPcs, items : Seq(Times)]
FlushRec == [m : {"flush"}, by : Committers, items : Seq(Times)]
TaskRec == FlushRec \cup [m : {"read"}, by : {"get"}, items : {<<>>}]
             \cup [m : {"fetch"}, by : {"query"}, items : {<<>>}]
GhostRec == [accepted : SUBSET Times, late : SUBSET Times, failed : SUBSET Times, gone : SUBSET Nat]
RrdRec == [made : BOOLEAN, pts : SUBSET Times]

TypeInv ==
    /\ h \in [Handlers -> HandRec]
    /\ cache \in ListMap /\ cache.entry \in 0 .. Len(cache.lists)
    /\ hist \in ListMap /\ hist.entry \in 0 .. Len(hist.lists)
    /\ \A a \in Handlers :
         /\ h[a].pc \in {"set", "push"} => h[a].list \in 1 .. Len(cache.lists)
         /\ h[a].pc \in {"hput", "hfront", "hpush"} => h[a].list \in 1 .. Len(hist.lists)
    /\ io \in Seq(TaskRec) /\ rrd \in RrdRec
    /\ com \in [Committers -> ComRec] /\ ghost \in GhostRec

\* A point at the front of a list (PushFront).
LEMMA ConsFacts ==
    ASSUME NEW S, NEW s \in Seq(S), NEW p \in S
    PROVE  /\ <<p>> \o s \in Seq(S) /\ Len(<<p>> \o s) = Len(s) + 1
           /\ (<<p>> \o s)[1] = p /\ Head(<<p>> \o s) = p /\ <<p>> \o s # <<>>
           /\ \A i \in 1 .. Len(s) : (<<p>> \o s)[i + 1] = s[i]
           /\ Range(<<p>> \o s) = {p} \cup Range(s)
<1> DEFINE one == <<p>>
<1>1. one \in Seq(S) /\ Len(one) = 1 /\ one[1] = p
  OBVIOUS
<1>0. Len(s) \in Nat /\ DOMAIN s = 1 .. Len(s)
  BY LenProperties
<1> HIDE DEF one
<1> DEFINE t == one \o s
<1>2. /\ t \in Seq(S) /\ Len(t) = 1 + Len(s)
      /\ \A i \in 1 .. 1 + Len(s) : t[i] = IF i <= 1 THEN one[i] ELSE s[i - 1]
  <2>1. /\ t \in Seq(S) /\ Len(t) = Len(one) + Len(s)
        /\ \A i \in 1 .. Len(one) + Len(s) : t[i] = IF i <= Len(one) THEN one[i] ELSE s[i - Len(one)]
    BY <1>1, ConcatProperties
  <2> HIDE DEF t
  <2> QED
    BY <1>0, <1>1, <2>1
<1> HIDE DEF t
<1>3. t[1] = p /\ t # <<>> /\ DOMAIN t = 1 .. 1 + Len(s)
  BY <1>0, <1>1, <1>2, LenProperties
<1>4. Head(t) = p
  BY <1>2, <1>3
<1>5. \A i \in 1 .. Len(s) : t[i + 1] = s[i]
  BY <1>0, <1>2
<1>6. Range(t) = {p} \cup Range(s)
  <2>1. ASSUME NEW x \in Range(t) PROVE x \in {p} \cup Range(s)
    <3>1. PICK i \in 1 .. 1 + Len(s) : x = t[i]
      BY <1>3 DEF Range
    <3>2. CASE i = 1
      BY <1>3, <3>1, <3>2
    <3>3. CASE i # 1
      <4>1. i - 1 \in 1 .. Len(s) /\ x = s[i - 1]
        BY <1>0, <1>2, <3>1, <3>3
      <4> QED
        BY <1>0, <4>1 DEF Range
    <3> QED
      BY <3>2, <3>3
  <2>2. ASSUME NEW x \in Range(s) PROVE x \in Range(t)
    <3>1. PICK i \in 1 .. Len(s) : x = s[i]
      BY <1>0 DEF Range
    <3>2. i + 1 \in 1 .. 1 + Len(s) /\ t[i + 1] = x
      BY <1>0, <1>5, <3>1
    <3> QED
      BY <1>3, <3>2 DEF Range
  <2>3. p \in Range(t)
    <3>1. 1 \in 1 .. 1 + Len(s)
      BY <1>0
    <3> QED
      BY <1>3, <3>1 DEF Range
  <2> QED
    BY <2>1, <2>2, <2>3
<1> QED
  BY <1>0, <1>2, <1>3, <1>4, <1>5, <1>6 DEF t, one

----------------------------------------------------------------------------
(* Types.                                                                  *)

\* A handler goes on with its point, or is done with it.
Moved(a, r) ==
    /\ r \in HandRec /\ h' = [h EXCEPT ![a] = r]
    /\ \A b \in Handlers : h'[b] = IF b = a THEN r ELSE h[b]

\* A handler that moves, and only that one.
LEMMA MovedFacts ==
    ASSUME TypeInv, NEW a \in Handlers, NEW r \in HandRec, h' = [h EXCEPT ![a] = r]
    PROVE  Moved(a, r) /\ h' \in [Handlers -> HandRec]
  BY DEF TypeInv, Moved

\* A handler that goes on to its next step.
LEMMA GotoFacts ==
    ASSUME TypeInv, NEW a \in Handlers, NEW pc \in HandPcs, Goto(a, pc)
    PROVE  \E r : Moved(a, r) /\ r.pc = pc
                  /\ (pc # "idle" => r.ts = h[a].ts /\ r.list = h[a].list)
<1>0. h[a] \in HandRec
  BY DEF TypeInv
<1>1. CASE pc = "idle"
  <2>1. h' = [h EXCEPT ![a] = IdleHand]
    BY <1>1 DEF Goto
  <2>2. IdleHand \in HandRec /\ IdleHand.pc = "idle"
    BY DEF IdleHand, HandRec, HandPcs, Times, NoList
  <2> HIDE DEF IdleHand
  <2> QED
    BY <1>1, <2>1, <2>2, MovedFacts
<1>2. CASE pc # "idle"
  <2> DEFINE r == [h[a] EXCEPT !.pc = pc]
  <2>1. h' = [h EXCEPT ![a] = r]
    BY <1>2 DEF Goto
  <2>2. r \in HandRec /\ r.pc = pc /\ r.ts = h[a].ts /\ r.list = h[a].list
    BY <1>0 DEF HandRec
  <2> HIDE DEF r
  <2> QED
    BY <2>1, <2>2, MovedFacts
<1> QED
  BY <1>1, <1>2

\* What each step of Send and handleItems does to its handler.
LEMMA HandlerMoves ==
    ASSUME TypeInv, NEW a \in Handlers
    PROVE  /\ Send(a) => \E r : Moved(a, r) /\ r.pc = "first" /\ h[a].pc = "idle"
           /\ First(a) => \E r : /\ Moved(a, r) /\ h[a].pc = "first"
                                  /\ IF Old(a) THEN r.pc = "idle" ELSE r.pc = "get" /\ r.ts = h[a].ts
           /\ GetHit(a) => \E r : /\ Moved(a, r) /\ h[a].pc = "get" /\ r.pc = "push"
                                   /\ r.ts = h[a].ts /\ r.list = cache.entry
           /\ GetMiss(a) => \E r : /\ Moved(a, r) /\ h[a].pc = "get" /\ r.pc = "set"
                                    /\ r.ts = h[a].ts /\ r.list = Len(cache.lists) + 1
           /\ Set(a) => \E r : Moved(a, r) /\ h[a].pc = "set" /\ r.pc = "index" /\ r.ts = h[a].ts
           /\ PushFront(a) => \E r : Moved(a, r) /\ h[a].pc = "push" /\ r.pc = "index" /\ r.ts = h[a].ts
           /\ IndexHit(a) => \E r : /\ Moved(a, r) /\ h[a].pc = "index" /\ r.ts = h[a].ts
                                     /\ IF idx.done THEN r.pc = "hget" ELSE r.pc = "file"
           /\ IndexMiss(a) => \E r : Moved(a, r) /\ h[a].pc = "file" /\ r.pc = "hget" /\ r.ts = h[a].ts
<1>0. h[a] \in HandRec /\ cache \in ListMap
  BY DEF TypeInv
<1>1. ASSUME Send(a) PROVE \E r : Moved(a, r) /\ r.pc = "first" /\ h[a].pc = "idle"
  <2>1. PICK ts \in Times : h' = [h EXCEPT ![a] = [IdleHand EXCEPT !.pc = "first", !.ts = ts]]
    BY <1>1 DEF Send
  <2> DEFINE r == [IdleHand EXCEPT !.pc = "first", !.ts = ts]
  <2>2. r \in HandRec /\ r.pc = "first" /\ h' = [h EXCEPT ![a] = r]
    BY <2>1 DEF IdleHand, HandRec, HandPcs, NoList
  <2> HIDE DEF r
  <2> QED
    BY <1>1, <2>2, MovedFacts DEF Send, At
<1>2. ASSUME First(a)
      PROVE  \E r : /\ Moved(a, r) /\ h[a].pc = "first"
                    /\ IF Old(a) THEN r.pc = "idle" ELSE r.pc = "get" /\ r.ts = h[a].ts
  <2>1. CASE Old(a)
    BY <1>2, <2>1, GotoFacts DEF First, At, HandPcs
  <2>2. CASE ~Old(a)
    BY <1>2, <2>2, GotoFacts DEF First, At, HandPcs
  <2> QED
    BY <2>1, <2>2
<1>3. ASSUME GetHit(a)
      PROVE  \E r : /\ Moved(a, r) /\ h[a].pc = "get" /\ r.pc = "push"
                    /\ r.ts = h[a].ts /\ r.list = cache.entry
  <2> DEFINE r == [h[a] EXCEPT !.pc = "push", !.list = cache.entry]
  <2>1. h' = [h EXCEPT ![a] = r]
    BY <1>3 DEF GetHit, TypeInv
  <2>2. r \in HandRec /\ r.pc = "push" /\ r.ts = h[a].ts /\ r.list = cache.entry
    BY <1>0 DEF HandRec, HandPcs, ListMap
  <2> HIDE DEF r
  <2> QED
    BY <1>3, <2>1, <2>2, MovedFacts DEF GetHit, At
<1>4. ASSUME GetMiss(a)
      PROVE  \E r : /\ Moved(a, r) /\ h[a].pc = "get" /\ r.pc = "set"
                    /\ r.ts = h[a].ts /\ r.list = Len(cache.lists) + 1
  <2>0. PICK n \in Nat : n = Len(cache'.lists) /\ n = Len(cache.lists) + 1
    <3>1. cache.lists \in Seq(Seq(Times)) /\ <<h[a].ts>> \in Seq(Times)
      BY <1>0 DEF ListMap, HandRec
    <3>2. cache'.lists = Append(cache.lists, <<h[a].ts>>)
      BY <1>0, <1>4 DEF GetMiss, NewList, ListMap
    <3>3. Len(cache.lists) \in Nat /\ Len(Append(cache.lists, <<h[a].ts>>)) = Len(cache.lists) + 1
      BY <3>1, LenProperties, AppendProperties
    <3> QED
      BY <3>2, <3>3
  <2> DEFINE r == [h[a] EXCEPT !.pc = "set", !.list = n]
  <2>1. h' = [h EXCEPT ![a] = r]
    BY <1>4, <2>0 DEF GetMiss, TypeInv
  <2>2. r \in HandRec /\ r.pc = "set" /\ r.ts = h[a].ts /\ r.list = n
    BY <1>0 DEF HandRec, HandPcs
  <2> HIDE DEF r
  <2> QED
    BY <1>4, <2>0, <2>1, <2>2, MovedFacts DEF GetMiss, At
<1>5. ASSUME Set(a) PROVE \E r : Moved(a, r) /\ h[a].pc = "set" /\ r.pc = "index" /\ r.ts = h[a].ts
  BY <1>5, GotoFacts DEF Set, At, HandPcs
<1>6. ASSUME PushFront(a)
      PROVE  \E r : Moved(a, r) /\ h[a].pc = "push" /\ r.pc = "index" /\ r.ts = h[a].ts
  BY <1>6, GotoFacts DEF PushFront, At, HandPcs
<1>7. ASSUME IndexHit(a)
      PROVE  \E r : /\ Moved(a, r) /\ h[a].pc = "index" /\ r.ts = h[a].ts
                    /\ IF idx.done THEN r.pc = "hget" ELSE r.pc = "file"
  <2>1. CASE idx.done
    BY <1>7, <2>1, GotoFacts DEF IndexHit, At, HandPcs
  <2>2. CASE ~idx.done
    BY <1>7, <2>2, GotoFacts DEF IndexHit, At, HandPcs
  <2> QED
    BY <2>1, <2>2
<1>8. ASSUME IndexMiss(a)
      PROVE  \E r : Moved(a, r) /\ h[a].pc = "file" /\ r.pc = "hget" /\ r.ts = h[a].ts
  BY <1>8, GotoFacts DEF IndexMiss, At, HandPcs
<1> QED
  BY <1>1, <1>2, <1>3, <1>4, <1>5, <1>6, <1>7, <1>8

\* The same for AddItem, the history behind Graph.Last.
LEMMA HistoryMoves ==
    ASSUME TypeInv, NEW a \in Handlers
    PROVE  /\ HistoryGet(a) => \E r :
                /\ Moved(a, r) /\ h[a].pc = "hget" /\ r.ts = h[a].ts
                /\ IF hist.entry # NoList THEN r.pc = "hfront" /\ r.list = hist.entry
                   ELSE r.pc = "hput" /\ r.list = Len(hist.lists) + 1
           /\ HistoryPut(a) => \E r : /\ Moved(a, r) /\ h[a].pc = "hput" /\ r.pc = "hfront"
                                       /\ r.ts = h[a].ts /\ r.list = h[a].list
           /\ HistoryFront(a) => \E r :
                /\ Moved(a, r) /\ h[a].pc = "hfront"
                /\ LET s == hist.lists[h[a].list]
                   IN  IF s = <<>> \/ Head(s) < h[a].ts
                       THEN r.pc = "hpush" /\ r.ts = h[a].ts /\ r.list = h[a].list
                       ELSE r.pc = "idle"
           /\ HistoryPush(a) => \E r : Moved(a, r) /\ h[a].pc = "hpush" /\ r.pc = "idle"
<1>0. h[a] \in HandRec /\ hist \in ListMap
  BY DEF TypeInv
<1>1. ASSUME HistoryGet(a), hist.entry # NoList
      PROVE  \E r : /\ Moved(a, r) /\ h[a].pc = "hget" /\ r.ts = h[a].ts
                    /\ r.pc = "hfront" /\ r.list = hist.entry
  <2> DEFINE r == [h[a] EXCEPT !.pc = "hfront", !.list = hist.entry]
  <2>1. h' = [h EXCEPT ![a] = r]
    BY <1>1 DEF HistoryGet, TypeInv
  <2>2. r \in HandRec /\ r.pc = "hfront" /\ r.ts = h[a].ts /\ r.list = hist.entry
    BY <1>0 DEF HandRec, HandPcs, ListMap
  <2> HIDE DEF r
  <2> QED
    BY <1>1, <2>1, <2>2, MovedFacts DEF HistoryGet, At
<1>2. ASSUME HistoryGet(a), ~(hist.entry # NoList)
      PROVE  \E r : /\ Moved(a, r) /\ h[a].pc = "hget" /\ r.ts = h[a].ts
                    /\ r.pc = "hput" /\ r.list = Len(hist.lists) + 1
  <2>0. PICK n \in Nat : n = Len(hist'.lists) /\ n = Len(hist.lists) + 1
    <3>1. hist.lists \in Seq(Seq(Times)) /\ <<>> \in Seq(Times)
      BY <1>0 DEF ListMap
    <3>2. hist'.lists = Append(hist.lists, <<>>)
      BY <1>0, <1>2 DEF HistoryGet, NewList, ListMap
    <3>3. Len(hist.lists) \in Nat /\ Len(Append(hist.lists, <<>>)) = Len(hist.lists) + 1
      BY <3>1, LenProperties, AppendProperties
    <3> QED
      BY <3>2, <3>3
  <2> DEFINE r == [h[a] EXCEPT !.pc = "hput", !.list = n]
  <2>1. h' = [h EXCEPT ![a] = r]
    BY <1>2, <2>0 DEF HistoryGet, TypeInv
  <2>2. r \in HandRec /\ r.pc = "hput" /\ r.ts = h[a].ts /\ r.list = n
    BY <1>0 DEF HandRec, HandPcs
  <2> HIDE DEF r
  <2> QED
    BY <1>2, <2>0, <2>1, <2>2, MovedFacts DEF HistoryGet, At
<1>3. ASSUME HistoryPut(a)
      PROVE  \E r : /\ Moved(a, r) /\ h[a].pc = "hput" /\ r.pc = "hfront"
                    /\ r.ts = h[a].ts /\ r.list = h[a].list
  BY <1>3, GotoFacts DEF HistoryPut, At, HandPcs
<1>4. ASSUME HistoryFront(a)
      PROVE  \E r : /\ Moved(a, r) /\ h[a].pc = "hfront"
                    /\ LET s == hist.lists[h[a].list]
                       IN  IF s = <<>> \/ Head(s) < h[a].ts
                           THEN r.pc = "hpush" /\ r.ts = h[a].ts /\ r.list = h[a].list
                           ELSE r.pc = "idle"
  <2> DEFINE s == hist.lists[h[a].list]
             newer == s = <<>> \/ Head(s) < h[a].ts
  <2>1. CASE newer
    <3>1. Goto(a, "hpush")
      BY <1>4, <2>1 DEF HistoryFront
    <3> QED
      BY <1>4, <2>1, <3>1, GotoFacts DEF HistoryFront, At, HandPcs
  <2>2. CASE ~newer
    <3>1. Goto(a, "idle")
      BY <1>4, <2>2 DEF HistoryFront
    <3> QED
      BY <1>4, <2>2, <3>1, GotoFacts DEF HistoryFront, At, HandPcs
  <2> QED
    BY <2>1, <2>2
<1>5. ASSUME HistoryPush(a) PROVE \E r : Moved(a, r) /\ h[a].pc = "hpush" /\ r.pc = "idle"
  BY <1>5, GotoFacts DEF HistoryPush, At, HandPcs
<1> QED
  BY <1>1, <1>2, <1>3, <1>4, <1>5

\* One more list in a map's store.
LEMMA NewListFacts ==
    ASSUME NEW m \in ListMap, NEW s \in Seq(Times)
    PROVE  /\ NewList(m, s) \in ListMap /\ NewList(m, s).entry = m.entry
           /\ Len(m.lists) \in Nat /\ Len(NewList(m, s).lists) = Len(m.lists) + 1
           /\ \A k \in 1 .. Len(m.lists) : NewList(m, s).lists[k] = m.lists[k]
           /\ NewList(m, s).lists[Len(m.lists) + 1] = s
<1>1. m.lists \in Seq(Seq(Times)) /\ m.entry \in Nat
  BY DEF ListMap
<1>2. PICK L : L = Append(m.lists, s)
  OBVIOUS
<1>3. /\ L \in Seq(Seq(Times)) /\ Len(L) = Len(m.lists) + 1 /\ Len(m.lists) \in Nat
      /\ \A k \in 1 .. Len(m.lists) : L[k] = m.lists[k]
      /\ L[Len(m.lists) + 1] = s
  BY <1>1, <1>2, AppendProperties, LenProperties
<1>4. NewList(m, s) = [m EXCEPT !.lists = L]
  BY <1>2 DEF NewList
<1>5. NewList(m, s).lists = L /\ NewList(m, s).entry = m.entry /\ NewList(m, s) \in ListMap
  BY <1>3, <1>4 DEF ListMap
<1> QED
  BY <1>3, <1>5

\* Other contents for one list of a map's store.
LEMMA ReplaceFacts ==
    ASSUME NEW m \in ListMap, NEW l \in 1 .. Len(m.lists), NEW s \in Seq(Times),
           NEW n, n = [m EXCEPT !.lists[l] = s]
    PROVE  /\ n \in ListMap /\ n.entry = m.entry
           /\ Len(m.lists) \in Nat /\ Len(n.lists) = Len(m.lists)
           /\ \A k \in 1 .. Len(m.lists) : n.lists[k] = IF k = l THEN s ELSE m.lists[k]
<1>1. m.lists \in Seq(Seq(Times)) /\ m.entry \in Nat
  BY DEF ListMap
<1>2. PICK L : L = [m.lists EXCEPT ![l] = s]
  OBVIOUS
<1>3. /\ L \in Seq(Seq(Times)) /\ Len(L) = Len(m.lists) /\ Len(m.lists) \in Nat
      /\ \A k \in 1 .. Len(m.lists) : L[k] = IF k = l THEN s ELSE m.lists[k]
  <2>1. PICK S : S = Seq(Times)
    OBVIOUS
  <2>2. PICK M \in Seq(S) : M = m.lists
    BY <1>1, <2>1
  <2>3. s \in S /\ l \in 1 .. Len(M)
    BY <2>1, <2>2
  <2>4. /\ [M EXCEPT ![l] = s] \in Seq(S)
        /\ Len([M EXCEPT ![l] = s]) = Len(M)
        /\ \A k \in 1 .. Len(M) : [M EXCEPT ![l] = s][k] = IF k = l THEN s ELSE M[k]
    BY <2>3, ExceptSeq
  <2>5. L = [M EXCEPT ![l] = s] /\ Len(M) \in Nat
    BY <1>2, <2>2, LenProperties
  <2> QED
    BY <2>1, <2>2, <2>4, <2>5
<1>4. n = [m EXCEPT !.lists = L]
  BY <1>2 DEF ListMap
<1>5. n.lists = L /\ n.entry = m.entry /\ n \in ListMap
  BY <1>3, <1>4 DEF ListMap
<1> QED
  BY <1>3, <1>5

\* Another list, or none, in the map.
LEMMA EntryFacts ==
    ASSUME NEW m \in ListMap, NEW e \in 0 .. Len(m.lists), NEW n, n = [m EXCEPT !.entry = e]
    PROVE  n \in ListMap /\ n.lists = m.lists /\ n.entry = e /\ n.entry \in 0 .. Len(n.lists)
<1>1. m.lists \in Seq(Seq(Times)) /\ Len(m.lists) \in Nat
  BY LenProperties DEF ListMap
<1>2. PICK L \in Seq(Seq(Times)) : L = m.lists
  BY <1>1
<1>3. e \in Nat
  BY <1>1
<1>4. n.lists = L /\ n.entry = e
  BY <1>2 DEF ListMap
<1>5. n \in ListMap
  BY <1>2, <1>3 DEF ListMap
<1> QED
  BY <1>2, <1>4, <1>5

\* The list a handler holds is a list of points.
LEMMA HeldList ==
    ASSUME NEW m \in ListMap, NEW l \in 1 .. Len(m.lists)
    PROVE  m.lists[l] \in Seq(Times)
  BY ElementOfSeq DEF ListMap

\* What PushFront makes of the cache.
LEMMA PushFacts ==
    ASSUME TypeInv, NEW a \in Handlers, PushFront(a)
    PROVE  /\ h[a].list \in 1 .. Len(cache.lists) /\ h[a].ts \in Times
           /\ cache' \in ListMap /\ cache'.entry = cache.entry
           /\ Len(cache.lists) \in Nat /\ Len(cache'.lists) = Len(cache.lists)
           /\ \A k \in 1 .. Len(cache.lists) :
                cache'.lists[k] = IF k = h[a].list THEN <<h[a].ts>> \o cache.lists[k] ELSE cache.lists[k]
<1>1. PICK l : l = h[a].list
  OBVIOUS
<1>2. PICK p \in Times : p = h[a].ts
  BY DEF TypeInv, HandRec
<1>3. cache \in ListMap /\ l \in 1 .. Len(cache.lists)
  BY <1>1 DEF TypeInv, PushFront, At
<1>4. cache.lists[l] \in Seq(Times)
  BY <1>3, HeldList
<1>5. PICK s \in Seq(Times) : s = <<p>> \o cache.lists[l]
  BY <1>4, ConsFacts
<1>6. cache' = [cache EXCEPT !.lists[l] = s]
  BY <1>1, <1>2, <1>5 DEF PushFront, Push
<1>7. /\ cache' \in ListMap /\ cache'.entry = cache.entry
      /\ Len(cache.lists) \in Nat /\ Len(cache'.lists) = Len(cache.lists)
      /\ \A k \in 1 .. Len(cache.lists) : cache'.lists[k] = IF k = l THEN s ELSE cache.lists[k]
  BY <1>3, <1>6, ReplaceFacts
<1> QED
  BY <1>1, <1>2, <1>3, <1>5, <1>7

\* What HistoryPush makes of the history: the point in front, the excess cut off.
LEMMA HistoryPushFacts ==
    ASSUME TypeInv, NEW a \in Handlers, HistoryPush(a)
    PROVE  /\ h[a].list \in 1 .. Len(hist.lists) /\ h[a].ts \in Times
           /\ hist' \in ListMap /\ hist'.entry = hist.entry
           /\ Len(hist.lists) \in Nat /\ Len(hist'.lists) = Len(hist.lists)
           /\ \A k \in 1 .. Len(hist.lists) : k # h[a].list => hist'.lists[k] = hist.lists[k]
           /\ hist.lists[h[a].list] \in Seq(Times) /\ hist'.lists[h[a].list] \in Seq(Times)
           /\ LET s == hist.lists[h[a].list]
                  t == hist'.lists[h[a].list]
              IN  /\ Len(t) \in 1 .. Len(s) + 1 /\ t[1] = h[a].ts
                  /\ \A i \in 1 .. Len(t) : i # 1 => t[i] = s[i - 1]
<1>1. PICK l : l = h[a].list
  OBVIOUS
<1>2. PICK p \in Times : p = h[a].ts
  BY DEF TypeInv, HandRec
<1>3. hist \in ListMap /\ l \in 1 .. Len(hist.lists)
  BY <1>1 DEF TypeInv, HistoryPush, At
<1>4. PICK s \in Seq(Times) : s = hist.lists[l]
  BY <1>3, HeldList
<1>5. PICK u \in Seq(Times) :
        /\ u = <<p>> \o s /\ Len(u) = Len(s) + 1 /\ u[1] = p
        /\ \A i \in 1 .. Len(s) : u[i + 1] = s[i]
  <2>1. /\ <<p>> \o s \in Seq(Times) /\ Len(<<p>> \o s) = Len(s) + 1 /\ (<<p>> \o s)[1] = p
        /\ \A i \in 1 .. Len(s) : (<<p>> \o s)[i + 1] = s[i]
    BY ConsFacts
  <2> QED
    BY <2>1, Zenon
<1>6. Len(s) \in Nat
  BY LenProperties
<1>7. PICK n \in 1 .. Len(s) + 1 : n = IF Len(u) > HistorySize THEN HistorySize ELSE Len(u)
  BY <1>5, <1>6
<1>8. PICK t \in Seq(Times) : t = SubSeq(u, 1, n) /\ Len(t) = n /\ \A i \in 1 .. n : t[i] = u[i]
  <2>1. \A i \in 1 .. n : u[i] \in Times
    BY <1>5, <1>6, ElementOfSeq
  <2>2. /\ SubSeq(u, 1, n) \in Seq(Times) /\ Len(SubSeq(u, 1, n)) = IF 1 <= n THEN n - 1 + 1 ELSE 0
        /\ \A i \in 1 .. n - 1 + 1 : SubSeq(u, 1, n)[i] = u[1 + i - 1]
    BY <1>6, <2>1, SubSeqProperties
  <2>3. n \in Nat /\ 1 <= n /\ n - 1 + 1 = n /\ \A i \in 1 .. n : 1 + i - 1 = i
    BY <1>6
  <2>4. PICK t : t = SubSeq(u, 1, n)
    OBVIOUS
  <2>5. t \in Seq(Times) /\ Len(t) = n /\ \A i \in 1 .. n : t[i] = u[i]
    BY <2>2, <2>3, <2>4
  <2> QED
    BY <2>4, <2>5
<1>9. hist' = [hist EXCEPT !.lists[l] = t]
  BY <1>1, <1>2, <1>4, <1>5, <1>7, <1>8 DEF HistoryPush
<1>10. /\ hist' \in ListMap /\ hist'.entry = hist.entry
       /\ Len(hist.lists) \in Nat /\ Len(hist'.lists) = Len(hist.lists)
       /\ \A k \in 1 .. Len(hist.lists) : hist'.lists[k] = IF k = l THEN t ELSE hist.lists[k]
  BY <1>3, <1>9, ReplaceFacts
<1>11. t[1] = p /\ \A i \in 1 .. Len(t) : i # 1 => t[i] = s[i - 1]
  <2>1. \A i \in 1 .. n : i # 1 => i - 1 \in 1 .. Len(s) /\ u[(i - 1) + 1] = s[i - 1] /\ (i - 1) + 1 = i
    BY <1>5, <1>6
  <2> QED
    BY <1>5, <1>6, <1>8, <2>1
<1>12. hist'.lists[l] = t /\ hist.lists[l] = s /\ Len(t) \in 1 .. Len(s) + 1
  BY <1>3, <1>4, <1>7, <1>8, <1>10
<1>13. \A k \in 1 .. Len(hist.lists) : k # l => hist'.lists[k] = hist.lists[k]
  BY <1>10
<1> QED
  BY <1>1, <1>2, <1>3, <1>10, <1>11, <1>12, <1>13

\* The record of what was accepted.
LEMMA AcceptFacts ==
    ASSUME ghost \in GhostRec, NEW p \in Times, Accept(p)
    PROVE  /\ ghost' \in GhostRec /\ ghost'.accepted = ghost.accepted \cup {p}
           /\ ghost.late \subseteq ghost'.late
           /\ p \notin ghost.accepted /\ p \notin ghost'.late => \A y \in ghost.accepted : y <= p
           /\ ghost'.failed = ghost.failed /\ ghost'.gone = ghost.gone
<1>1. PICK L : L = ghost.late \cup {x \in {p} \ ghost.accepted : \E y \in ghost.accepted : y > x}
  OBVIOUS
<1>2. ghost' = [ghost EXCEPT !.accepted = @ \cup {p}, !.late = L]
  BY <1>1 DEF Accept
<1>3. L \subseteq Times /\ ghost.late \subseteq L /\ ghost.accepted \subseteq Times
  BY <1>1 DEF GhostRec
<1>4. /\ ghost' \in GhostRec /\ ghost'.accepted = ghost.accepted \cup {p} /\ ghost'.late = L
      /\ ghost'.failed = ghost.failed /\ ghost'.gone = ghost.gone
  BY <1>2, <1>3 DEF GhostRec
<1>5. ASSUME p \notin ghost.accepted, p \notin L, NEW y \in ghost.accepted PROVE y <= p
  <2>1. ~(y > p)
    BY <1>1, <1>5
  <2> QED
    BY <1>3, <2>1 DEF Times
<1> QED
  BY <1>3, <1>4, <1>5

\* Nothing has been received yet.
LEMMA TypeInvInit == Init => TypeInv
<1> SUFFICES ASSUME Init PROVE TypeInv
  OBVIOUS
<1>1. IdleHand \in HandRec /\ IdleHand.pc = "idle"
  BY DEF IdleHand, HandRec, HandPcs, Times, NoList
<1>2. IdleCom \in ComRec
  BY DEF IdleCom, ComRec, ComPcs
<1>3. h \in [Handlers -> HandRec] /\ \A a \in Handlers : h[a].pc = "idle"
  BY <1>1 DEF Init
<1>4. com \in [Committers -> ComRec]
  BY <1>2 DEF Init
<1>5. Nothing \in ListMap /\ Nothing.entry = 0 /\ Len(Nothing.lists) = 0
  BY DEF Nothing, ListMap, NoList
<1>6. ghost \in GhostRec /\ rrd \in RrdRec /\ io \in Seq(TaskRec)
  BY DEF Init, GhostRec, RrdRec
<1> QED
  BY <1>3, <1>4, <1>5, <1>6 DEF Init, TypeInv

\* A committer between two rounds.
LEMMA IdleComFacts ==
    /\ IdleCom \in ComRec /\ IdleCom.items = <<>> /\ IdleCom.pc = "idle"
    /\ [IdleCom EXCEPT !.pc = "wait"] \in ComRec
    /\ [IdleCom EXCEPT !.pc = "wait"].items = <<>> /\ [IdleCom EXCEPT !.pc = "wait"].pc = "wait"
<1>1. IdleCom \in ComRec /\ IdleCom.items = <<>> /\ IdleCom.pc = "idle"
  BY DEF IdleCom, ComRec, ComPcs
<1> QED
  BY <1>1 DEF ComRec, ComPcs

\* What a committer does once it has nothing more to flush.
LEMMA AfterFacts ==
    ASSUME NEW c \in Committers
    PROVE  /\ After(c) \in ComRec /\ After(c).items = <<>>
           /\ After(c).pc \in {"idle", "exit", "read"}
           /\ c = "sync" => After(c).pc = "idle"
<1>1. c \in {"sync", "main", "get"}
  OBVIOUS
<1>2. PICK x \in {"idle", "exit", "read"} :
        /\ x = CASE c = "sync" -> "idle" [] c = "main" -> "exit" [] c = "get" -> "read"
        /\ c = "sync" => x = "idle"
  BY <1>1
<1>3. After(c) = [IdleCom EXCEPT !.pc = x]
  BY <1>2 DEF After
<1>4. IdleCom \in ComRec /\ IdleCom.items = <<>>
  BY IdleComFacts
<1> QED
  BY <1>2, <1>3, <1>4 DEF ComRec, ComPcs

\* The list in the map.
LEMMA CachedFacts ==
    ASSUME cache \in ListMap, cache.entry \in 0 .. Len(cache.lists)
    PROVE  /\ Cached \in Seq(Times) /\ Len(cache.lists) \in Nat
           /\ cache.entry = NoList => Cached = <<>>
           /\ cache.entry # NoList => cache.entry \in 1 .. Len(cache.lists) /\ Cached = cache.lists[cache.entry]
<1>1. Len(cache.lists) \in Nat
  BY LenProperties DEF ListMap
<1>2. CASE cache.entry = NoList
  BY <1>1, <1>2 DEF Cached, listOf
<1>3. CASE cache.entry # NoList
  <2>1. cache.entry \in 1 .. Len(cache.lists)
    BY <1>1, <1>3 DEF NoList
  <2> QED
    BY <1>1, <1>3, <2>1, HeldList DEF Cached, listOf
<1> QED
  BY <1>2, <1>3

\* Oldest first (PopAll).
LEMMA ReverseFacts ==
    ASSUME NEW S, NEW s \in Seq(S)
    PROVE  /\ Reverse(s) \in Seq(S) /\ Len(Reverse(s)) = Len(s) /\ Range(Reverse(s)) = Range(s)
           /\ \A i \in 1 .. Len(s) : Reverse(s)[i] = s[Len(s) - i + 1]
<1>1. Len(s) \in Nat /\ DOMAIN s = 1 .. Len(s) /\ \A i \in 1 .. Len(s) : s[i] \in S
  BY LenProperties, ElementOfSeq
<1>2. PICK n \in Nat : n = Len(s)
  BY <1>1
<1>3. PICK t : t = [i \in 1 .. n |-> s[n - i + 1]]
  OBVIOUS
<1>4. Reverse(s) = t
  BY <1>2, <1>3 DEF Reverse
<1>5. \A i \in 1 .. n : n - i + 1 \in 1 .. n /\ n - (n - i + 1) + 1 = i
  OBVIOUS
<1>6. t \in [1 .. n -> S] /\ \A i \in 1 .. n : t[i] = s[n - i + 1]
  BY <1>1, <1>2, <1>3, <1>5
<1>7. t \in Seq(S) /\ Len(t) = n /\ DOMAIN t = 1 .. n
  BY <1>6
<1>8. Range(t) = Range(s)
  <2>1. ASSUME NEW x \in Range(t) PROVE x \in Range(s)
    BY <1>1, <1>2, <1>5, <1>6, <1>7 DEF Range
  <2>2. ASSUME NEW x \in Range(s) PROVE x \in Range(t)
    <3>1. PICK i \in 1 .. n : x = s[i]
      BY <1>1, <1>2 DEF Range
    <3>2. n - i + 1 \in 1 .. n /\ t[n - i + 1] = s[i]
      BY <1>5, <1>6
    <3> QED
      BY <1>7, <3>1, <3>2 DEF Range
  <2> QED
    BY <2>1, <2>2
<1> QED
  BY <1>2, <1>4, <1>6, <1>7, <1>8

\* The file after a flush: points of the task and of the file.
LEMMA UpdateWithin ==
    ASSUME NEW s \in Seq(Times), rrd \in RrdRec
    PROVE  /\ update(s) \subseteq rrd.pts \cup Range(s) /\ rrd.pts \subseteq update(s)
           /\ update(s) \subseteq Times /\ Range(s) \subseteq Times
<1>1. DOMAIN s = 1 .. Len(s) /\ \A i \in 1 .. Len(s) : s[i] \in Times
  BY LenProperties, ElementOfSeq
<1>2. Range(s) \subseteq Times /\ rrd.pts \subseteq Times
  BY <1>1 DEF Range, RrdRec
<1>3. update(s) \subseteq rrd.pts \cup Range(s) /\ rrd.pts \subseteq update(s)
  BY DEF update, Range
<1> QED
  BY <1>2, <1>3

\* A committer goes on.
ComMoved(c, r) ==
    /\ r \in ComRec /\ com' \in [Committers -> ComRec]
    /\ \A d \in Committers : com'[d] = IF d = c THEN r ELSE com[d]

\* A committer that moves, and only that one.
LEMMA ComMovedFacts ==
    ASSUME TypeInv, NEW c \in Committers, NEW r \in ComRec, com' = [com EXCEPT ![c] = r]
    PROVE  ComMoved(c, r)
  BY DEF TypeInv, ComMoved

\* A committer that takes no points out and hands none over.
ComTurns(c, pc) ==
    \E r : ComMoved(c, r) /\ r.pc = pc /\ r.items = com[c].items /\ com[c].pc \in {"idle", "read"}

\* What the assignment of a pc does, when it moves no points.
LEMMA ComTurnsFacts ==
    ASSUME TypeInv, NEW c \in Committers, NEW pc \in ComPcs, com[c].pc \in {"idle", "read"},
           com' = [com EXCEPT ![c].pc = pc]
    PROVE  ComTurns(c, pc)
<1> DEFINE r == [com[c] EXCEPT !.pc = pc]
<1>1. com' = [com EXCEPT ![c] = r]
  BY DEF TypeInv
<1>2. r \in ComRec /\ r.pc = pc /\ r.items = com[c].items
  BY DEF TypeInv, ComRec
<1> HIDE DEF r
<1> QED
  BY <1>1, <1>2, ComMovedFacts DEF ComTurns

\* CommitByKey: the points of the list are taken out, then handed over.
LEMMA PopMoves ==
    ASSUME TypeInv, NEW c \in Committers, PopAll(c)
    PROVE  /\ com[c].pc = "pop" /\ ghost' = ghost /\ h' = h /\ hist' = hist
           /\ \/ Cached = <<>> /\ cache' = cache /\ ComMoved(c, After(c))
              \/ /\ Cached # <<>> /\ cache.entry \in 1 .. Len(cache.lists)
                 /\ cache' \in ListMap /\ cache'.entry = cache.entry
                 /\ Len(cache.lists) \in Nat /\ Len(cache'.lists) = Len(cache.lists)
                 /\ \A k \in 1 .. Len(cache.lists) :
                      cache'.lists[k] = IF k = cache.entry THEN <<>> ELSE cache.lists[k]
                 /\ \E r : ComMoved(c, r) /\ r.pc = "send" /\ r.items = Reverse(Cached)
<1>0. /\ com[c].pc = "pop" /\ ghost' = ghost /\ h' = h /\ hist' = hist
  BY DEF PopAll, Com
<1>t. cache \in ListMap /\ cache.entry \in 0 .. Len(cache.lists)
  BY DEF TypeInv
<1>1. CASE Cached = <<>>
  <2>1. com' = [com EXCEPT ![c] = After(c)] /\ cache' = cache
    BY <1>1 DEF PopAll
  <2>2. After(c) \in ComRec
    BY AfterFacts
  <2>3. ComMoved(c, After(c))
    BY <2>1, <2>2, ComMovedFacts
  <2> QED
    BY <1>0, <1>1, <2>1, <2>3
<1>2. CASE Cached # <<>>
  <2>1. cache.entry # NoList /\ cache.entry \in 1 .. Len(cache.lists)
    BY <1>t, <1>2, CachedFacts
  <2>2. PICK s \in Seq(Times) : s = Reverse(Cached)
    BY <1>t, CachedFacts, ReverseFacts
  <2> DEFINE r == [pc |-> "send", items |-> s]
  <2>3. r \in ComRec /\ r.pc = "send" /\ r.items = s
    BY DEF ComRec, ComPcs
  <2>4. com' = [com EXCEPT ![c] = r]
    BY <1>2, <2>2 DEF PopAll
  <2> HIDE DEF r
  <2>5. ComMoved(c, r)
    BY <2>3, <2>4, ComMovedFacts
  <2>6. cache' = [cache EXCEPT !.lists[cache.entry] = <<>>]
    BY <1>2 DEF PopAll
  <2>7. <<>> \in Seq(Times)
    OBVIOUS
  <2>8. /\ cache' \in ListMap /\ cache'.entry = cache.entry
        /\ Len(cache.lists) \in Nat /\ Len(cache'.lists) = Len(cache.lists)
        /\ \A k \in 1 .. Len(cache.lists) :
             cache'.lists[k] = IF k = cache.entry THEN <<>> ELSE cache.lists[k]
    <3>1. PICK e \in 1 .. Len(cache.lists) : e = cache.entry
      BY <2>1
    <3>2. PICK z \in Seq(Times) : z = <<>>
      BY <2>7
    <3>3. cache' = [cache EXCEPT !.lists[e] = z]
      BY <2>6, <3>1, <3>2
    <3>4. /\ cache' \in ListMap /\ cache'.entry = cache.entry
          /\ Len(cache.lists) \in Nat /\ Len(cache'.lists) = Len(cache.lists)
          /\ \A k \in 1 .. Len(cache.lists) : cache'.lists[k] = IF k = e THEN z ELSE cache.lists[k]
      BY <1>t, <3>3, ReplaceFacts
    <3> QED
      BY <3>1, <3>2, <3>4
  <2> QED
    BY <1>0, <1>2, <2>1, <2>2, <2>3, <2>5, <2>8
<1> QED
  BY <1>1, <1>2

\* A flush hands the popped points to ioWorker (FlushFile).
LEMMA FlushMoves ==
    ASSUME TypeInv, NEW c \in Committers, FlushFile(c)
    PROVE  /\ com[c].pc = "send"
           /\ \E r : ComMoved(c, r) /\ r.pc = "wait" /\ r.items = <<>>
           /\ \E t \in FlushRec : io' = Append(io, t) /\ t.by = c /\ t.items = com[c].items
<1>1. com[c].pc = "send" /\ com[c].items \in Seq(Times)
  BY DEF FlushFile, Com, TypeInv, ComRec
<1>2. \E r : ComMoved(c, r) /\ r.pc = "wait" /\ r.items = <<>>
  <2>1. com' = [com EXCEPT ![c] = [IdleCom EXCEPT !.pc = "wait"]]
    BY DEF FlushFile
  <2>2. PICK r \in ComRec : r = [IdleCom EXCEPT !.pc = "wait"] /\ r.items = <<>> /\ r.pc = "wait"
    BY IdleComFacts
  <2> QED
    BY <2>1, <2>2, ComMovedFacts
<1>3. \E t \in FlushRec : io' = Append(io, t) /\ t.by = c /\ t.items = com[c].items
  <2> DEFINE t == Task("flush", c, com[c].items)
  <2>1. t \in FlushRec /\ t.by = c /\ t.items = com[c].items
    BY <1>1 DEF Task, FlushRec
  <2>2. io' = Append(io, t)
    BY DEF FlushFile
  <2> HIDE DEF t
  <2> QED
    BY <2>1, <2>2
<1> QED
  BY <1>1, <1>2, <1>3

\* What is at the head of the channel, and what remains.
LEMMA HeadTask ==
    ASSUME io \in Seq(TaskRec), io # <<>>
    PROVE  /\ Head(io) = io[1] /\ io[1] \in TaskRec /\ Len(io) \in Nat \ {0}
           /\ Tail(io) \in Seq(TaskRec) /\ Len(Tail(io)) = Len(io) - 1
           /\ \A i \in 1 .. Len(io) - 1 : Tail(io)[i] = io[i + 1]
<1>1. Len(io) \in Nat \ {0} /\ 1 \in 1 .. Len(io)
  BY EmptySeq, LenProperties
<1>2. Head(io) = io[1] /\ io[1] \in TaskRec
  BY <1>1, ElementOfSeq
<1> QED
  BY <1>1, <1>2, HeadTailProperties

\* The kinds of tasks.
LEMMA TaskKinds ==
    ASSUME NEW t \in TaskRec
    PROVE  /\ t.m \in {"flush", "read", "fetch"} /\ t.items \in Seq(Times)
           /\ t.m = "flush" <=> t \in FlushRec
           /\ t.m # "flush" => t.items = <<>>
           /\ t.m = "flush" => t.by \in Committers
           /\ t.m = "fetch" => t.by = "query"
<1>1. CASE t \in FlushRec
  BY <1>1 DEF FlushRec
<1>2. CASE t \in [m : {"read"}, by : {"get"}, items : {<<>>}]
  <2>1. t.m = "read" /\ t.by = "get" /\ t.items = <<>>
    BY <1>2
  <2>2. t \notin FlushRec
    BY <2>1 DEF FlushRec
  <2>3. <<>> \in Seq(Times)
    OBVIOUS
  <2> QED
    BY <2>1, <2>2, <2>3
<1>3. CASE t \in [m : {"fetch"}, by : {"query"}, items : {<<>>}]
  <2>1. t.m = "fetch" /\ t.by = "query" /\ t.items = <<>>
    BY <1>3
  <2>2. t \notin FlushRec
    BY <2>1 DEF FlushRec
  <2>3. <<>> \in Seq(Times)
    OBVIOUS
  <2> QED
    BY <2>1, <2>2, <2>3
<1> QED
  BY <1>1, <1>2, <1>3 DEF TaskRec

\* flushrrd: the points of the first task are in the file, or a flush failed.
LEMMA IoMoves ==
    ASSUME TypeInv, flushrrd
    PROVE  /\ io # <<>> /\ io[1] \in FlushRec /\ io' = Tail(io)
           /\ ComMoved(io[1].by, After(io[1].by)) /\ rrd' \in RrdRec
           /\ \/ rrd'.pts = update(io[1].items) /\ ghost' = ghost
              \/ /\ Fails /\ rrd'.pts = rrd.pts /\ ghost' \in GhostRec
                 /\ ghost'.failed = ghost.failed \cup Range(io[1].items)
                 /\ ghost'.accepted = ghost.accepted /\ ghost'.late = ghost.late
                 /\ ghost'.gone = ghost.gone
<1>1. io # <<>> /\ Head(io).m = "flush" /\ io' = Tail(io) /\ io \in Seq(TaskRec)
  BY DEF flushrrd, Working, TypeInv
<1>2. Head(io) = io[1] /\ io[1] \in FlushRec
  BY <1>1, HeadTask, TaskKinds
<1>3. PICK b \in Committers : b = io[1].by
  BY <1>2 DEF FlushRec
<1>4. PICK s \in Seq(Times) : s = io[1].items
  BY <1>2 DEF FlushRec
<1>5. ComMoved(b, After(b))
  <2>1. com' = [com EXCEPT ![b] = After(b)]
    BY <1>2, <1>3 DEF flushrrd
  <2>2. After(b) \in ComRec
    BY AfterFacts
  <2> QED
    BY <2>1, <2>2, ComMovedFacts
<1>6. rrd \in RrdRec /\ ghost \in GhostRec
  BY DEF TypeInv
<1>7. CASE rrd' = [made |-> TRUE, pts |-> update(Head(io).items)] /\ UNCHANGED ghost
  <2>1. rrd' = [made |-> TRUE, pts |-> update(s)]
    BY <1>2, <1>4, <1>7
  <2>2. update(s) \subseteq Times
    BY <1>6, UpdateWithin
  <2>3. rrd' \in RrdRec /\ rrd'.pts = update(s)
    BY <2>1, <2>2 DEF RrdRec
  <2> QED
    BY <1>1, <1>2, <1>3, <1>4, <1>5, <1>7, <2>3
<1>8. CASE flushFails
  <2>1. Fails /\ rrd' \in {rrd, [rrd EXCEPT !.made = TRUE]}
    BY <1>8 DEF flushFails
  <2>2. rrd' \in RrdRec /\ rrd'.pts = rrd.pts
    BY <1>6, <2>1 DEF RrdRec
  <2>3. ghost' = [ghost EXCEPT !.failed = @ \cup Range(s)]
    BY <1>2, <1>4, <1>8 DEF flushFails
  <2>4. Range(s) \subseteq Times
    BY <1>6, UpdateWithin
  <2>5. /\ ghost' \in GhostRec /\ ghost'.failed = ghost.failed \cup Range(s)
        /\ ghost'.accepted = ghost.accepted /\ ghost'.late = ghost.late /\ ghost'.gone = ghost.gone
    BY <1>6, <2>3, <2>4 DEF GhostRec
  <2> QED
    BY <1>1, <1>2, <1>3, <1>4, <1>5, <2>1, <2>2, <2>5
<1> QED
  BY <1>7, <1>8 DEF flushrrd

\* Every step of a handler, a committer, ioWorker and the rest keeps the types,
\* and lists are never taken from under a handler.
LEMMA TypeInvStep == TypeInv /\ [Next]_vars => TypeInv'
<1> SUFFICES ASSUME TypeInv, [Next]_vars PROVE TypeInv'
  OBVIOUS
<1> USE DEF handVars, diskVars, readVars, downVars
<1>0. /\ h \in [Handlers -> HandRec]
      /\ cache \in ListMap /\ cache.entry \in 0 .. Len(cache.lists)
      /\ hist \in ListMap /\ hist.entry \in 0 .. Len(hist.lists)
      /\ io \in Seq(TaskRec) /\ rrd \in RrdRec
      /\ com \in [Committers -> ComRec] /\ ghost \in GhostRec
      /\ Len(cache.lists) \in Nat /\ Len(hist.lists) \in Nat
  BY LenProperties DEF TypeInv, ListMap
<1>a. ASSUME NEW a \in Handlers
      PROVE  /\ h[a].pc \in {"set", "push"} => h[a].list \in 1 .. Len(cache.lists)
             /\ h[a].pc \in {"hput", "hfront", "hpush"} => h[a].list \in 1 .. Len(hist.lists)
  BY DEF TypeInv
\* A handler moves.
<1>h. ASSUME NEW a \in Handlers, NEW r, Moved(a, r),
             r.pc \in {"set", "push"} => r.list \in 1 .. Len(cache'.lists),
             r.pc \in {"hput", "hfront", "hpush"} => r.list \in 1 .. Len(hist'.lists),
             cache' \in ListMap, cache'.entry \in 0 .. Len(cache'.lists),
             Len(cache'.lists) \in Nat, Len(cache.lists) <= Len(cache'.lists),
             hist' \in ListMap, hist'.entry \in 0 .. Len(hist'.lists),
             Len(hist'.lists) \in Nat, Len(hist.lists) <= Len(hist'.lists),
             ghost' \in GhostRec, UNCHANGED <<io, rrd, com>>
      PROVE  TypeInv'
  <2>1. h' \in [Handlers -> HandRec]
    BY <1>0, <1>h DEF Moved
  <2>2. ASSUME NEW b \in Handlers
        PROVE  /\ h'[b].pc \in {"set", "push"} => h'[b].list \in 1 .. Len(cache'.lists)
               /\ h'[b].pc \in {"hput", "hfront", "hpush"} => h'[b].list \in 1 .. Len(hist'.lists)
    <3>1. CASE b = a
      BY <1>h, <3>1 DEF Moved
    <3>2. CASE b # a
      <4>1. h'[b] = h[b]
        BY <1>h, <3>2 DEF Moved
      <4>2. \A i : /\ i \in 1 .. Len(cache.lists) => i \in 1 .. Len(cache'.lists)
                   /\ i \in 1 .. Len(hist.lists) => i \in 1 .. Len(hist'.lists)
        BY <1>0, <1>h
      <4> QED
        BY <1>a, <4>1, <4>2
    <3> QED
      BY <3>1, <3>2
  <2> QED
    BY <1>0, <1>h, <2>1, <2>2 DEF TypeInv
\* No handler moves.
<1>s. ASSUME h' = h, cache' \in ListMap, cache'.entry \in 0 .. Len(cache'.lists),
             Len(cache'.lists) = Len(cache.lists),
             hist' \in ListMap, hist'.entry \in 0 .. Len(hist'.lists),
             Len(hist'.lists) = Len(hist.lists),
             io' \in Seq(TaskRec), rrd' \in RrdRec, com' \in [Committers -> ComRec], ghost' \in GhostRec
      PROVE  TypeInv'
  BY <1>0, <1>a, <1>s DEF TypeInv
<1>1. ASSUME NEW a \in Handlers, Send(a) PROVE TypeInv'
  <2>1. PICK r : Moved(a, r) /\ r.pc = "first"
    BY <1>1, HandlerMoves
  <2>2. UNCHANGED <<cache, hist, ghost, io, rrd, com>>
    BY <1>1 DEF Send
  <2> QED
    BY <1>0, <1>h, <2>1, <2>2
<1>2. ASSUME NEW a \in Handlers, First(a) PROVE TypeInv'
  <2>1. PICK r : Moved(a, r) /\ r.pc \in {"idle", "get"}
    BY <1>2, HandlerMoves
  <2>2. UNCHANGED <<cache, hist, ghost, io, rrd, com>>
    BY <1>2 DEF First
  <2> QED
    BY <1>0, <1>h, <2>1, <2>2
<1>3. ASSUME NEW a \in Handlers, GetHit(a) PROVE TypeInv'
  <2>1. PICK r : Moved(a, r) /\ r.pc = "push" /\ r.list = cache.entry
    BY <1>3, HandlerMoves
  <2>2. UNCHANGED <<cache, hist, ghost, io, rrd, com>> /\ cache.entry # NoList
    BY <1>3 DEF GetHit
  <2>3. r.list \in 1 .. Len(cache'.lists)
    BY <1>0, <2>1, <2>2 DEF NoList
  <2> QED
    BY <1>0, <1>h, <2>1, <2>2, <2>3
<1>4. ASSUME NEW a \in Handlers, GetMiss(a) PROVE TypeInv'
  <2>1. PICK r : Moved(a, r) /\ r.pc = "set" /\ r.list = Len(cache.lists) + 1
    BY <1>4, HandlerMoves
  <2>2. UNCHANGED <<hist, ghost, io, rrd, com>> /\ cache' = NewList(cache, <<h[a].ts>>)
    BY <1>4 DEF GetMiss
  <2>3. <<h[a].ts>> \in Seq(Times)
    BY <1>0 DEF HandRec
  <2>4. /\ cache' \in ListMap /\ cache'.entry = cache.entry
        /\ Len(cache'.lists) = Len(cache.lists) + 1
    BY <1>0, <2>2, <2>3, NewListFacts
  <2> QED
    BY <1>0, <1>h, <2>1, <2>2, <2>4
<1>5. ASSUME NEW a \in Handlers, Set(a) PROVE TypeInv'
  <2>1. PICK r : Moved(a, r) /\ h[a].pc = "set" /\ r.pc = "index"
    BY <1>5, HandlerMoves
  <2>2. /\ UNCHANGED <<hist, io, rrd, com>> /\ Accept(h[a].ts)
        /\ cache' = [cache EXCEPT !.entry = h[a].list] /\ h[a].ts \in Times
    BY <1>0, <1>5 DEF Set, HandRec
  <2>3. h[a].list \in 1 .. Len(cache.lists)
    BY <1>a, <2>1
  <2>4. /\ cache' \in ListMap /\ cache'.lists = cache.lists /\ cache'.entry \in 0 .. Len(cache'.lists)
    <3>1. PICK e \in 0 .. Len(cache.lists) : e = h[a].list
      BY <1>0, <2>3
    <3> QED
      BY <1>0, <2>2, <3>1, EntryFacts
  <2>5. ghost' \in GhostRec
    BY <1>0, <2>2, AcceptFacts
  <2>6. UNCHANGED <<hist, io, rrd, com>>
    BY <2>2
  <2> QED
    BY <1>0, <1>h, <2>1, <2>4, <2>5, <2>6
<1>6. ASSUME NEW a \in Handlers, PushFront(a) PROVE TypeInv'
  <2>1. PICK r : Moved(a, r) /\ h[a].pc = "push" /\ r.pc = "index"
    BY <1>6, HandlerMoves
  <2>2. UNCHANGED <<hist, io, rrd, com>> /\ Accept(h[a].ts)
    BY <1>6 DEF PushFront
  <2>3. /\ cache' \in ListMap /\ cache'.entry = cache.entry /\ h[a].ts \in Times
        /\ Len(cache'.lists) = Len(cache.lists)
    BY <1>6, PushFacts
  <2>4. ghost' \in GhostRec
    BY <1>0, <2>2, <2>3, AcceptFacts
  <2> QED
    BY <1>0, <1>h, <2>1, <2>2, <2>3, <2>4
<1>7. ASSUME NEW a \in Handlers, IndexHit(a) \/ IndexMiss(a) PROVE TypeInv'
  <2>1. PICK r : Moved(a, r) /\ r.pc \in {"hget", "file"}
    BY <1>7, HandlerMoves
  <2>2. UNCHANGED <<cache, hist, ghost, io, rrd, com>>
    BY <1>7 DEF IndexHit, IndexMiss
  <2> QED
    BY <1>0, <1>h, <2>1, <2>2
<1>8. ASSUME NEW a \in Handlers, HistoryGet(a) PROVE TypeInv'
  <2>1. PICK r : /\ Moved(a, r)
                 /\ IF hist.entry # NoList THEN r.pc = "hfront" /\ r.list = hist.entry
                    ELSE r.pc = "hput" /\ r.list = Len(hist.lists) + 1
    BY <1>8, HistoryMoves
  <2>2. UNCHANGED <<cache, ghost, io, rrd, com>>
    BY <1>8 DEF HistoryGet
  <2>3. CASE hist.entry # NoList
    <3>1. hist' = hist /\ r.list \in 1 .. Len(hist.lists)
      BY <1>0, <1>8, <2>1, <2>3 DEF HistoryGet, NoList
    <3> QED
      BY <1>0, <1>h, <2>1, <2>2, <2>3, <3>1
  <2>4. CASE ~(hist.entry # NoList)
    <3>1. hist' = NewList(hist, <<>>)
      BY <1>8, <2>4 DEF HistoryGet
    <3>2. /\ hist' \in ListMap /\ hist'.entry = hist.entry
          /\ Len(hist'.lists) = Len(hist.lists) + 1
      BY <1>0, <3>1, NewListFacts, EmptySeq
    <3> QED
      BY <1>0, <1>h, <2>1, <2>2, <2>4, <3>2
  <2> QED
    BY <2>3, <2>4
<1>9. ASSUME NEW a \in Handlers, HistoryPut(a) PROVE TypeInv'
  <2>1. PICK r : Moved(a, r) /\ h[a].pc = "hput" /\ r.pc = "hfront" /\ r.list = h[a].list
    BY <1>9, HistoryMoves
  <2>2. UNCHANGED <<cache, ghost, io, rrd, com>> /\ hist' = [hist EXCEPT !.entry = h[a].list]
    BY <1>9 DEF HistoryPut
  <2>3. h[a].list \in 1 .. Len(hist.lists)
    BY <1>a, <2>1
  <2>4. hist' \in ListMap /\ hist'.lists = hist.lists /\ hist'.entry \in 0 .. Len(hist'.lists)
    <3>1. PICK e \in 0 .. Len(hist.lists) : e = h[a].list
      BY <1>0, <2>3
    <3> QED
      BY <1>0, <2>2, <3>1, EntryFacts
  <2>5. UNCHANGED <<cache, ghost, io, rrd, com>>
    BY <2>2
  <2> QED
    BY <1>0, <1>h, <2>1, <2>3, <2>4, <2>5
<1>10. ASSUME NEW a \in Handlers, HistoryFront(a) PROVE TypeInv'
  <2>1. PICK r : /\ Moved(a, r) /\ h[a].pc = "hfront"
                 /\ r.pc \in {"hpush", "idle"} /\ (r.pc = "hpush" => r.list = h[a].list)
    BY <1>10, HistoryMoves
  <2>2. UNCHANGED <<cache, hist, ghost, io, rrd, com>>
    BY <1>10 DEF HistoryFront
  <2> QED
    BY <1>0, <1>a, <1>h, <2>1, <2>2
<1>11. ASSUME NEW a \in Handlers, HistoryPush(a) PROVE TypeInv'
  <2>1. PICK r : Moved(a, r) /\ r.pc = "idle"
    BY <1>11, HistoryMoves
  <2>2. UNCHANGED <<cache, ghost, io, rrd, com>>
    BY <1>11 DEF HistoryPush
  <2>3. hist' \in ListMap /\ hist'.entry = hist.entry /\ Len(hist'.lists) = Len(hist.lists)
    BY <1>11, HistoryPushFacts
  <2> QED
    BY <1>0, <1>h, <2>1, <2>2, <2>3
<1>12. CASE updateIndexIncr \/ updateIndexFromOneItem \/ CleanLook \/ FetchAll \/ QueryReturns
            \/ CloseConns \/ Exit \/ Quiescent \/ UNCHANGED vars
  <2>1. UNCHANGED <<h, cache, hist, ghost, io, rrd, com>>
    BY <1>12 DEF updateIndexIncr, updateIndexFromOneItem, CleanLook, FetchAll, QueryReturns,
       CloseConns, Exit, Quiescent, vars
  <2> QED
    BY <1>0, <1>s, <2>1
<1>13. CASE DeleteInvalidItems
  <2>1. /\ cache' = [cache EXCEPT !.entry = NoList] /\ UNCHANGED <<h, hist, io, rrd, com>>
        /\ ghost' = [ghost EXCEPT !.gone = @ \cup {cache.entry}]
    BY <1>13 DEF DeleteInvalidItems
  <2>2. cache' \in ListMap /\ cache'.lists = cache.lists /\ cache'.entry \in 0 .. Len(cache'.lists)
    <3>1. PICK e \in 0 .. Len(cache.lists) : e = NoList
      BY <1>0 DEF NoList
    <3> QED
      BY <1>0, <2>1, <3>1, EntryFacts
  <2>3. ghost' \in GhostRec
    <3>0. cache.entry \in Nat /\ ghost.gone \subseteq Nat
      BY <1>0 DEF GhostRec, ListMap
    <3>1. PICK g : g \subseteq Nat /\ g = ghost.gone \cup {cache.entry}
      BY <3>0
    <3>2. ghost' = [ghost EXCEPT !.gone = g]
      BY <2>1, <3>1
    <3> QED
      BY <1>0, <3>1, <3>2 DEF GhostRec
  <2>4. UNCHANGED <<h, hist, io, rrd, com>>
    BY <2>1
  <2> QED
    BY <1>0, <1>s, <2>2, <2>3, <2>4
<1>14. CASE DeleteInvalidHistory
  <2>1. /\ hist' = [hist EXCEPT !.entry = NoList] /\ UNCHANGED <<h, cache, ghost, io, rrd, com>>
    BY <1>14 DEF DeleteInvalidHistory
  <2>2. hist' \in ListMap /\ hist'.lists = hist.lists /\ hist'.entry \in 0 .. Len(hist'.lists)
    <3>1. PICK e \in 0 .. Len(hist.lists) : e = NoList
      BY <1>0 DEF NoList
    <3> QED
      BY <1>0, <2>1, <3>1, EntryFacts
  <2> QED
    BY <1>0, <1>s, <2>1, <2>2
<1>15. CASE FlushRRD \/ syncDiskEnds \/ GetRrd \/ Signal
  <2>1. UNCHANGED <<h, cache, hist, ghost, io, rrd>>
    BY <1>15 DEF FlushRRD, syncDiskEnds, GetRrd, Signal
  <2>2. PICK c \in Committers, pc \in ComPcs :
          com' = [com EXCEPT ![c].pc = pc] /\ com[c].pc \in {"idle", "read"}
    BY <1>15 DEF FlushRRD, syncDiskEnds, GetRrd, Signal, Com, ComPcs
  <2>3. com' \in [Committers -> ComRec]
    BY <2>2, ComTurnsFacts DEF ComTurns, ComMoved
  <2> QED
    BY <1>0, <1>s, <2>1, <2>3
<1>16. CASE ReadFile
  <2>1. /\ UNCHANGED <<h, cache, hist, ghost, rrd>> /\ "get" \in Committers /\ com["get"].pc = "read"
        /\ com' = [com EXCEPT !["get"].pc = "wait"] /\ io' = Append(io, Task("read", "get", <<>>))
    BY <1>16 DEF ReadFile, Com
  <2>2. com' \in [Committers -> ComRec]
    BY <2>1, ComTurnsFacts DEF ComTurns, ComMoved, ComPcs
  <2>3. Task("read", "get", <<>>) \in TaskRec
    BY DEF Task, TaskRec
  <2>4. io' \in Seq(TaskRec)
    BY <1>0, <2>1, <2>3, AppendProperties
  <2> QED
    BY <1>0, <1>s, <2>1, <2>2, <2>4
<1>17. ASSUME NEW c \in Committers, PopAll(c) PROVE TypeInv'
  <2>1. UNCHANGED <<h, hist, ghost, io, rrd>>
    BY <1>17 DEF PopAll
  <2>2. /\ cache' \in ListMap /\ cache'.entry = cache.entry /\ Len(cache'.lists) = Len(cache.lists)
        /\ com' \in [Committers -> ComRec]
    BY <1>0, <1>17, PopMoves DEF ComMoved
  <2> QED
    BY <1>0, <1>s, <2>1, <2>2
<1>18. ASSUME NEW c \in Committers, FlushFile(c) PROVE TypeInv'
  <2>1. UNCHANGED <<h, cache, hist, ghost, rrd>>
    BY <1>18 DEF FlushFile
  <2>2. PICK t \in FlushRec : io' = Append(io, t)
    BY <1>18, FlushMoves
  <2>3. com' \in [Committers -> ComRec]
    BY <1>18, FlushMoves DEF ComMoved
  <2>4. io' \in Seq(TaskRec)
    BY <1>0, <2>2, AppendProperties DEF TaskRec
  <2> QED
    BY <1>0, <1>s, <2>1, <2>3, <2>4
<1>19. CASE flushrrd
  <2>1. UNCHANGED <<h, cache, hist>>
    BY <1>19 DEF flushrrd
  <2>2. /\ io # <<>> /\ io' = Tail(io) /\ com' \in [Committers -> ComRec] /\ rrd' \in RrdRec
        /\ ghost' \in GhostRec
    BY <1>0, <1>19, IoMoves DEF ComMoved
  <2>3. io' \in Seq(TaskRec)
    BY <1>0, <2>2, HeadTask
  <2> QED
    BY <1>0, <1>s, <2>1, <2>2, <2>3
<1>20. CASE ioRead \/ fetch
  <2>1. UNCHANGED <<h, cache, hist, ghost, rrd>> /\ io # <<>> /\ io' = Tail(io)
    BY <1>20 DEF ioRead, fetch, Working
  <2>2. com' \in [Committers -> ComRec]
    <3>1. com' = com \/ com' = [com EXCEPT !["get"] = IdleCom]
      BY <1>20 DEF ioRead, fetch
    <3>2. IdleCom \in ComRec
      BY IdleComFacts
    <3> QED
      BY <1>0, <3>1, <3>2
  <2>3. io' \in Seq(TaskRec)
    BY <1>0, <2>1, HeadTask
  <2> QED
    BY <1>0, <1>s, <2>1, <2>2, <2>3
<1>21. CASE Fetch
  <2>1. UNCHANGED <<h, cache, hist, ghost, rrd, com>> /\ io' = Append(io, Task("fetch", "query", <<>>))
    BY <1>21 DEF Fetch
  <2>2. Task("fetch", "query", <<>>) \in TaskRec
    BY DEF Task, TaskRec
  <2>3. io' \in Seq(TaskRec)
    BY <1>0, <2>1, <2>2, AppendProperties
  <2> QED
    BY <1>0, <1>s, <2>1, <2>3
<1> QED
  BY <1>1, <1>2, <1>3, <1>4, <1>5, <1>6, <1>7, <1>8, <1>9, <1>10, <1>11, <1>12, <1>13, <1>14,
     <1>15, <1>16, <1>17, <1>18, <1>19, <1>20, <1>21
     DEF Next, handleItems, AddItem, CleanCache, CommitByKey, ioWorker, Query

----------------------------------------------------------------------------
(* The index: any number of handlers, as long as MySQL works.              *)

IdxRec == [un : BOOLEAN, done : BOOLEAN, updating : Nat, mysql : BOOLEAN]
Known(i) == i.un \/ i.updating > 0 \/ i.done

\* An accepted point's series is known to the index, or the handler of the
\* point is about to tell the index of it.
IdxInv ==
    /\ TypeInv /\ ~Fails /\ idx \in IdxRec
    /\ ghost.accepted # {} => Known(idx) \/ \E a \in Handlers : h[a].pc \in {"index", "file"}

\* Only the record of the index counts: a known series stays known.
LEMMA StaysKnown ==
    ASSUME IdxInv,
           \/ \E a \in Handlers : IndexMiss(a)
           \/ updateIndexIncr \/ updateIndexFromOneItem
    PROVE  /\ idx' \in IdxRec /\ Known(idx') /\ ghost' = ghost
<1>0. idx \in IdxRec /\ ~Fails
  BY DEF IdxInv
<1>1. ASSUME NEW a \in Handlers, IndexMiss(a) PROVE idx' \in IdxRec /\ Known(idx') /\ ghost' = ghost
  <2>1. \/ idx' = [idx EXCEPT !.done = TRUE] \/ idx' = [idx EXCEPT !.un = TRUE]
    BY <1>1 DEF IndexMiss
  <2>2. ghost' = ghost
    BY <1>1 DEF IndexMiss
  <2>3. CASE idx' = [idx EXCEPT !.done = TRUE]
    BY <1>0, <2>2, <2>3 DEF IdxRec, Known
  <2>4. CASE idx' = [idx EXCEPT !.un = TRUE]
    BY <1>0, <2>2, <2>4 DEF IdxRec, Known
  <2> QED
    BY <2>1, <2>3, <2>4
<1>2. CASE updateIndexIncr
  <2>1. ghost' = ghost /\ idx' = [idx EXCEPT !.un = FALSE, !.updating = @ + 1]
    BY <1>2 DEF updateIndexIncr
  <2>2. PICK n \in Nat : n = idx.updating + 1 /\ n > 0
    BY <1>0 DEF IdxRec
  <2>3. idx' = [idx EXCEPT !.un = FALSE, !.updating = n]
    BY <2>1, <2>2
  <2> QED
    BY <1>0, <2>1, <2>2, <2>3 DEF IdxRec, Known
<1>3. CASE updateIndexFromOneItem
  <2>1. /\ ghost' = ghost /\ idx.updating > 0
        /\ idx' = [idx EXCEPT !.updating = @ - 1, !.mysql = TRUE, !.done = TRUE]
    BY <1>0, <1>3 DEF updateIndexFromOneItem
  <2>2. PICK n \in Nat : n = idx.updating - 1
    BY <1>0, <2>1 DEF IdxRec
  <2>3. idx' = [idx EXCEPT !.updating = n, !.mysql = TRUE, !.done = TRUE]
    BY <2>1, <2>2
  <2> QED
    BY <1>0, <2>1, <2>2, <2>3 DEF IdxRec, Known
<1> QED
  BY <1>1, <1>2, <1>3

\* Preservation: a handler leaves ReceiveItem only with the series known.
LEMMA IdxInvStep == IdxInv /\ [Next]_vars => IdxInv'
<1> SUFFICES ASSUME IdxInv, [Next]_vars PROVE IdxInv'
  OBVIOUS
<1> USE DEF handVars, diskVars, readVars, downVars
<1>0. TypeInv /\ TypeInv' /\ ~Fails /\ idx \in IdxRec
  BY TypeInvStep DEF IdxInv
\* The index is told, or the index task works.
<1>k. CASE \/ \E a \in Handlers : IndexMiss(a)
           \/ updateIndexIncr \/ updateIndexFromOneItem
  BY <1>0, <1>k, StaysKnown DEF IdxInv
\* A handler accepts its point.
<1>a. ASSUME NEW a \in Handlers, Set(a) \/ PushFront(a) PROVE IdxInv'
  <2>1. PICK r : Moved(a, r) /\ r.pc = "index"
    BY <1>0, <1>a, HandlerMoves
  <2>2. h'[a].pc = "index"
    BY <2>1 DEF Moved
  <2>3. idx' = idx
    BY <1>a DEF Set, PushFront
  <2> QED
    BY <1>0, <2>2, <2>3 DEF IdxInv
\* The index has it already, or the handler goes on to look at the file.
<1>i. ASSUME NEW a \in Handlers, IndexHit(a) PROVE IdxInv'
  <2>1. PICK r : Moved(a, r) /\ (IF idx.done THEN r.pc = "hget" ELSE r.pc = "file")
    BY <1>0, <1>i, HandlerMoves
  <2>2. idx.done \/ h'[a].pc = "file"
    BY <2>1 DEF Moved
  <2>3. idx' = idx /\ ghost' = ghost
    BY <1>i DEF IndexHit
  <2> QED
    BY <1>0, <2>2, <2>3 DEF IdxInv, Known
\* Another step of a handler.
<1>h. ASSUME NEW a \in Handlers,
             \/ Send(a) \/ First(a) \/ GetHit(a) \/ GetMiss(a)
             \/ HistoryGet(a) \/ HistoryPut(a) \/ HistoryFront(a) \/ HistoryPush(a)
      PROVE  IdxInv'
  <2>1. idx' = idx /\ ghost' = ghost
    BY <1>h DEF Send, First, GetHit, GetMiss, HistoryGet, HistoryPut, HistoryFront, HistoryPush
  <2>2. \E r : Moved(a, r) /\ h[a].pc \notin {"index", "file"}
    BY <1>0, <1>h, HandlerMoves, HistoryMoves
  <2>3. \A b \in Handlers : h[b].pc \in {"index", "file"} => h'[b] = h[b]
    BY <2>2 DEF Moved
  <2> QED
    BY <1>0, <2>1, <2>3 DEF IdxInv
\* No step of a handler or of the index.
<1>o. CASE h' = h /\ idx' = idx /\ ghost'.accepted = ghost.accepted
  BY <1>0, <1>o DEF IdxInv
<1>1. CASE CleanLook \/ DeleteInvalidHistory \/ FlushRRD \/ syncDiskEnds \/ GetRrd \/ ReadFile
           \/ (\E c \in Committers : CommitByKey(c))
           \/ ioRead \/ fetch \/ Query \/ Signal \/ CloseConns \/ Exit \/ Quiescent \/ UNCHANGED vars
  BY <1>o, <1>1 DEF CleanLook, DeleteInvalidHistory, FlushRRD, syncDiskEnds, GetRrd, ReadFile,
     CommitByKey, PopAll, FlushFile, ioRead, fetch, Query, FetchAll, Fetch, QueryReturns,
     Signal, CloseConns, Exit, Quiescent, vars
<1>2. CASE DeleteInvalidItems
  <2>1. h' = h /\ idx' = idx /\ ghost' = [ghost EXCEPT !.gone = @ \cup {cache.entry}]
    BY <1>2 DEF DeleteInvalidItems
  <2>2. ghost'.accepted = ghost.accepted
    BY <1>0, <2>1 DEF TypeInv, GhostRec
  <2> QED
    BY <1>o, <2>1, <2>2
<1>3. CASE flushrrd
  <2>1. ghost'.accepted = ghost.accepted
    BY <1>0, <1>3, IoMoves
  <2> QED
    BY <1>o, <1>3, <2>1 DEF flushrrd
<1> QED
  BY <1>k, <1>a, <1>i, <1>h, <1>1, <1>2, <1>3
     DEF Next, handleItems, AddItem, CleanCache, ioWorker

\* Whatever handlers, cleanings and commits run between each other: as long as
\* MySQL works, no handled series is left out of the index for good
\* (ReceiveItem, updateIndexIncr).
THEOREM SeriesGetIndexed == ~Fails /\ Spec => []IndexKnows
<1>1. ~Fails /\ Init => IdxInv
  <2> SUFFICES ASSUME ~Fails, Init PROVE IdxInv
    OBVIOUS
  <2>1. ghost.accepted = {} /\ idx \in IdxRec
    BY DEF Init, IdxRec
  <2> QED
    BY <2>1, TypeInvInit DEF IdxInv
<1>2. IdxInv => IndexKnows
  <2> SUFFICES ASSUME IdxInv PROVE IndexKnows
    OBVIOUS
  <2>1. \A a \in Handlers : h[a].pc = "idle" => h[a].pc \notin {"index", "file"}
    OBVIOUS
  <2> QED
    BY <2>1 DEF IdxInv, IndexKnows, Known
<1> QED
  BY <1>1, <1>2, IdxInvStep, PTL DEF Spec

----------------------------------------------------------------------------
(* The channel: any handlers and committers.                               *)

\* Only a committer about to send holds points, and a committer with a task in
\* the channel waits, and has no other there.
ChanInv ==
    /\ TypeInv
    /\ \A c \in Committers : com[c].pc # "send" => com[c].items = <<>>
    /\ \A k \in 1 .. Len(io) :
         io[k].m # "fetch" => io[k].by \in Committers /\ com[io[k].by].pc = "wait"
    /\ \A j, k \in 1 .. Len(io) :
         io[j].m # "fetch" /\ io[k].m # "fetch" /\ io[j].by = io[k].by => j = k

\* No points in an empty list.
LEMMA EmptyRange == Range(<<>>) = {}
  BY DEF Range

\* The tasks that read the file.
LEMMA EmptyTasks ==
    /\ Task("read", "get", <<>>) \in TaskRec /\ Task("read", "get", <<>>).m = "read"
    /\ Task("read", "get", <<>>).by = "get" /\ Task("read", "get", <<>>).items = <<>>
    /\ Task("fetch", "query", <<>>) \in TaskRec /\ Task("fetch", "query", <<>>).m = "fetch"
    /\ Task("fetch", "query", <<>>).items = <<>>
<1>1. Task("read", "get", <<>>) \in TaskRec /\ Task("fetch", "query", <<>>) \in TaskRec
  BY DEF Task, TaskRec
<1>2. /\ Task("read", "get", <<>>).m = "read" /\ Task("read", "get", <<>>).by = "get"
      /\ Task("read", "get", <<>>).items = <<>>
  BY DEF Task
<1>3. Task("fetch", "query", <<>>).m = "fetch" /\ Task("fetch", "query", <<>>).items = <<>>
  BY DEF Task
<1> QED
  BY <1>1, <1>2, <1>3

\* Another task at the end of the channel.
LEMMA AppendTask ==
    ASSUME io \in Seq(TaskRec), NEW t \in TaskRec, io' = Append(io, t)
    PROVE  /\ io' \in Seq(TaskRec) /\ Len(io) \in Nat /\ Len(io') = Len(io) + 1
           /\ \A k \in 1 .. Len(io) : io'[k] = io[k]
           /\ io'[Len(io) + 1] = t
           /\ InIo' = InIo \cup Range(t.items)
<1>1. PICK J \in Seq(TaskRec) : J = io'
  BY AppendProperties
<1>2. /\ Len(io) \in Nat /\ Len(J) = Len(io) + 1 /\ J[Len(io) + 1] = t
      /\ \A k \in 1 .. Len(io) : J[k] = io[k]
  BY <1>1, AppendProperties, LenProperties
<1>3. DOMAIN io = 1 .. Len(io) /\ DOMAIN J = 1 .. Len(io) + 1
  BY <1>2, LenProperties
<1>4. InIo' = UNION {Range(J[k].items) : k \in DOMAIN J}
  BY <1>1 DEF InIo
<1>5. ASSUME NEW x \in InIo' PROVE x \in InIo \cup Range(t.items)
  <2>1. PICK k \in 1 .. Len(io) + 1 : x \in Range(J[k].items)
    BY <1>3, <1>4, <1>5
  <2>2. CASE k = Len(io) + 1
    BY <1>2, <2>1, <2>2
  <2>3. CASE k # Len(io) + 1
    <3>1. k \in 1 .. Len(io) /\ J[k] = io[k]
      BY <1>2, <2>3
    <3> QED
      BY <1>3, <2>1, <3>1 DEF InIo
  <2> QED
    BY <2>2, <2>3
<1>6. ASSUME NEW x \in InIo PROVE x \in InIo'
  <2>1. PICK k \in 1 .. Len(io) : x \in Range(io[k].items)
    BY <1>3, <1>6 DEF InIo
  <2>2. k \in DOMAIN J /\ J[k] = io[k]
    BY <1>2, <1>3
  <2> QED
    BY <1>4, <2>1, <2>2
<1>7. Range(t.items) \subseteq InIo'
  <2>1. Len(io) + 1 \in DOMAIN J
    BY <1>2, <1>3
  <2> QED
    BY <1>2, <1>4, <2>1
<1> QED
  BY <1>1, <1>2, <1>5, <1>6, <1>7

\* The first task is taken from the channel.
LEMMA TailTask ==
    ASSUME io \in Seq(TaskRec), io # <<>>, io' = Tail(io)
    PROVE  /\ io' \in Seq(TaskRec) /\ Len(io) \in Nat \ {0} /\ Len(io') = Len(io) - 1
           /\ io[1] \in TaskRec
           /\ \A k \in 1 .. Len(io) - 1 : io'[k] = io[k + 1]
           /\ InIo = InIo' \cup Range(io[1].items)
<1>1. PICK J \in Seq(TaskRec) : J = io'
  BY HeadTask
<1>2. /\ Len(io) \in Nat \ {0} /\ Len(J) = Len(io) - 1 /\ io[1] \in TaskRec
      /\ \A k \in 1 .. Len(io) - 1 : J[k] = io[k + 1]
  BY <1>1, HeadTask
<1>3. DOMAIN io = 1 .. Len(io) /\ DOMAIN J = 1 .. Len(io) - 1
  BY <1>2, LenProperties
<1>4. InIo' = UNION {Range(J[k].items) : k \in DOMAIN J}
  BY <1>1 DEF InIo
<1>5. ASSUME NEW x \in InIo PROVE x \in InIo' \cup Range(io[1].items)
  <2>1. PICK k \in 1 .. Len(io) : x \in Range(io[k].items)
    BY <1>3, <1>5 DEF InIo
  <2>2. CASE k = 1
    BY <2>1, <2>2
  <2>3. CASE k # 1
    <3>1. k - 1 \in 1 .. Len(io) - 1 /\ (k - 1) + 1 = k
      BY <1>2, <2>3
    <3>2. J[k - 1] = io[k]
      BY <1>2, <3>1
    <3> QED
      BY <1>3, <1>4, <2>1, <3>1, <3>2
  <2> QED
    BY <2>2, <2>3
<1>6. ASSUME NEW x \in InIo' PROVE x \in InIo
  <2>1. PICK k \in 1 .. Len(io) - 1 : x \in Range(J[k].items)
    BY <1>3, <1>4, <1>6
  <2>2. k + 1 \in DOMAIN io /\ J[k] = io[k + 1]
    BY <1>2, <1>3
  <2> QED
    BY <2>1, <2>2 DEF InIo
<1>7. Range(io[1].items) \subseteq InIo
  <2>1. 1 \in DOMAIN io
    BY <1>2, <1>3
  <2> QED
    BY <2>1 DEF InIo
<1> QED
  BY <1>1, <1>2, <1>5, <1>6, <1>7

\* The points with committers when one of them goes on.
LEMMA BetweenFacts ==
    ASSUME NEW c \in Committers, NEW r, ComMoved(c, r)
    PROVE  /\ Between \subseteq Between' \cup Range(com[c].items)
           /\ Between' \subseteq Between \cup Range(r.items)
           /\ Range(r.items) \subseteq Between'
           /\ Range(com[c].items) \subseteq Between
<1>1. \A d \in Committers : com'[d] = IF d = c THEN r ELSE com[d]
  BY DEF ComMoved
<1>2. Between' = UNION {Range(com'[d].items) : d \in Committers}
  BY DEF Between
<1>3. ASSUME NEW x \in Between PROVE x \in Between' \cup Range(com[c].items)
  <2>1. PICK d \in Committers : x \in Range(com[d].items)
    BY <1>3 DEF Between
  <2> QED
    BY <1>1, <1>2, <2>1
<1>4. ASSUME NEW x \in Between' PROVE x \in Between \cup Range(r.items)
  <2>1. PICK d \in Committers : x \in Range(com'[d].items)
    BY <1>2, <1>4
  <2> QED
    BY <1>1, <2>1 DEF Between
<1>5. Range(r.items) \subseteq Between'
  BY <1>1, <1>2
<1>6. Range(com[c].items) \subseteq Between
  BY DEF Between
<1> QED
  BY <1>3, <1>4, <1>5, <1>6

\* The kinds of steps that matter to committers and the channel, for all the
\* layers below.
ComStep(c, r)     == ComMoved(c, r) /\ io' = io /\ com[c].pc # "wait"
                       /\ (r.pc # "send" => r.items = <<>>)
SendStep(c, r, t) == /\ ComMoved(c, r) /\ com[c].pc \in {"send", "read"}
                     /\ r.pc = "wait" /\ r.items = <<>>
                     /\ t \in TaskRec /\ t.m # "fetch" /\ t.by = c /\ t.items = com[c].items
                     /\ io' = Append(io, t)
DoneStep(c, r)    == /\ ComMoved(c, r) /\ io # <<>> /\ io[1].m # "fetch" /\ io[1].by = c
                     /\ io' = Tail(io) /\ r.pc \notin {"send", "wait"} /\ r.items = <<>>

\* A step of a committer that touches neither channel nor file.
LEMMA ComStepKeeps ==
    ASSUME ChanInv, TypeInv', NEW c \in Committers, NEW r, ComStep(c, r)
    PROVE  ChanInv'
<1>1. \A d \in Committers : com'[d] = IF d = c THEN r ELSE com[d]
  BY DEF ComStep, ComMoved
<1>2. \A d \in Committers : com[d].pc = "wait" => com'[d] = com[d]
  BY <1>1 DEF ComStep
<1> QED
  BY <1>1, <1>2 DEF ChanInv, ComStep

\* A task is put at the end of the channel.
LEMMA SendStepKeeps ==
    ASSUME ChanInv, TypeInv', NEW c \in Committers, NEW r, NEW t, SendStep(c, r, t)
    PROVE  ChanInv'
<1>0. io \in Seq(TaskRec) /\ t \in TaskRec /\ io' = Append(io, t)
  BY DEF ChanInv, TypeInv, SendStep
<1>1. \A d \in Committers : com'[d] = IF d = c THEN r ELSE com[d]
  BY DEF SendStep, ComMoved
<1>2. /\ Len(io) \in Nat /\ Len(io') = Len(io) + 1 /\ io'[Len(io) + 1] = t
      /\ \A k \in 1 .. Len(io) : io'[k] = io[k]
  BY <1>0, AppendTask
<1>3. \A k \in 1 .. Len(io') : k \in 1 .. Len(io) \/ k = Len(io) + 1
  BY <1>2
<1>4. \A k \in 1 .. Len(io) : io[k].m # "fetch" => io[k].by \in Committers /\ io[k].by # c
  BY DEF ChanInv, SendStep
<1>5. \A d \in Committers : com'[d].pc # "send" => com'[d].items = <<>>
  BY <1>1 DEF ChanInv, SendStep
<1>6. ASSUME NEW k \in 1 .. Len(io'), io'[k].m # "fetch"
      PROVE  io'[k].by \in Committers /\ com'[io'[k].by].pc = "wait"
  <2>1. CASE k = Len(io) + 1
    BY <1>1, <1>2, <2>1 DEF SendStep
  <2>2. CASE k \in 1 .. Len(io)
    <3>1. io'[k] = io[k] /\ io[k].m # "fetch"
      BY <1>2, <1>6, <2>2
    <3>2. io[k].by \in Committers /\ io[k].by # c /\ com[io[k].by].pc = "wait"
      BY <1>4, <2>2, <3>1 DEF ChanInv
    <3> QED
      BY <1>1, <3>1, <3>2
  <2> QED
    BY <1>3, <2>1, <2>2
<1>7. ASSUME NEW j \in 1 .. Len(io'), NEW k \in 1 .. Len(io'),
             io'[j].m # "fetch", io'[k].m # "fetch", io'[j].by = io'[k].by
      PROVE  j = k
  <2>1. t.by = c
    BY DEF SendStep
  <2>2. CASE j \in 1 .. Len(io) /\ k \in 1 .. Len(io)
    BY <1>2, <1>7, <2>2 DEF ChanInv
  <2>3. CASE j \in 1 .. Len(io) /\ k = Len(io) + 1
    BY <1>2, <1>4, <1>7, <2>1, <2>3
  <2>4. CASE k \in 1 .. Len(io) /\ j = Len(io) + 1
    BY <1>2, <1>4, <1>7, <2>1, <2>4
  <2> QED
    BY <1>3, <2>2, <2>3, <2>4
<1> QED
  BY <1>5, <1>6, <1>7 DEF ChanInv

\* ioWorker has done the first task of the channel.
LEMMA DoneStepKeeps ==
    ASSUME ChanInv, TypeInv', NEW c \in Committers, NEW r, DoneStep(c, r)
    PROVE  ChanInv'
<1>0. io \in Seq(TaskRec) /\ io # <<>> /\ io' = Tail(io)
  BY DEF ChanInv, TypeInv, DoneStep
<1>1. \A d \in Committers : com'[d] = IF d = c THEN r ELSE com[d]
  BY DEF DoneStep, ComMoved
<1>2. /\ Len(io) \in Nat \ {0} /\ Len(io') = Len(io) - 1
      /\ \A k \in 1 .. Len(io) - 1 : io'[k] = io[k + 1]
  BY <1>0, TailTask
<1>3. \A k \in 1 .. Len(io') : k + 1 \in 1 .. Len(io) /\ 1 \in 1 .. Len(io) /\ k + 1 # 1 /\ io'[k] = io[k + 1]
  BY <1>2
<1>4. \A k \in 1 .. Len(io') : io'[k].m # "fetch" => io'[k].by \in Committers /\ io'[k].by # c
  BY <1>3 DEF ChanInv, DoneStep
<1>5. \A d \in Committers : com'[d].pc # "send" => com'[d].items = <<>>
  BY <1>1 DEF ChanInv, DoneStep
<1>6. ASSUME NEW k \in 1 .. Len(io'), io'[k].m # "fetch"
      PROVE  io'[k].by \in Committers /\ com'[io'[k].by].pc = "wait"
  <2>1. io'[k].by \in Committers /\ io'[k].by # c /\ com[io'[k].by].pc = "wait"
    BY <1>3, <1>4, <1>6 DEF ChanInv
  <2> QED
    BY <1>1, <2>1
<1>7. ASSUME NEW j \in 1 .. Len(io'), NEW k \in 1 .. Len(io'),
             io'[j].m # "fetch", io'[k].m # "fetch", io'[j].by = io'[k].by
      PROVE  j = k
  <2>0. /\ j + 1 \in 1 .. Len(io) /\ k + 1 \in 1 .. Len(io) /\ io[j + 1].m # "fetch"
        /\ io[k + 1].m # "fetch" /\ io[j + 1].by = io[k + 1].by
    BY <1>3, <1>7
  <2>1. j + 1 = k + 1
    BY <2>0 DEF ChanInv
  <2> QED
    BY <1>2, <2>1
<1> QED
  BY <1>5, <1>6, <1>7 DEF ChanInv

\* Which steps of committers and ioWorker are which kind.
LEMMA ComKinds ==
    ASSUME ChanInv
    PROVE  /\ FlushRRD \/ syncDiskEnds \/ GetRrd \/ Signal =>
                \E c \in Committers : \E r : ComStep(c, r) /\ r.items = <<>> /\ com[c].items = <<>>
           /\ ReadFile => \E c \in Committers : \E r, t : SendStep(c, r, t)
           /\ \A c \in Committers : PopAll(c) => \E r : ComStep(c, r) /\ com[c].items = <<>>
                /\ (r.items = <<>> \/ r.items = Reverse(Cached)) /\ (Cached = <<>> => r.items = <<>>)
           /\ \A c \in Committers : FlushFile(c) => \E r, t : SendStep(c, r, t)
           /\ flushrrd \/ ioRead => \E c \in Committers : \E r : DoneStep(c, r)
<1>0. TypeInv /\ io \in Seq(TaskRec) /\ com \in [Committers -> ComRec]
  BY DEF ChanInv, TypeInv
<1>i. \A c \in Committers : com[c].pc # "send" => com[c].items = <<>>
  BY DEF ChanInv
<1>1. ASSUME FlushRRD \/ syncDiskEnds \/ GetRrd \/ Signal
      PROVE  \E c \in Committers : \E r : ComStep(c, r) /\ r.items = <<>> /\ com[c].items = <<>>
  <2>1. PICK c \in Committers, pc \in {"pop", "ended"} :
          com' = [com EXCEPT ![c].pc = pc] /\ com[c].pc = "idle"
    BY <1>1 DEF FlushRRD, syncDiskEnds, GetRrd, Signal, Com
  <2>a. pc \in ComPcs /\ com[c].pc \in {"idle", "read"}
    BY <2>1 DEF ComPcs
  <2>b. ComTurns(c, pc)
    BY <1>0, <2>1, <2>a, ComTurnsFacts
  <2>2. PICK r : ComMoved(c, r) /\ r.pc = pc /\ r.items = com[c].items
    BY <2>b DEF ComTurns
  <2>3. io' = io
    BY <1>1 DEF FlushRRD, syncDiskEnds, GetRrd, Signal, diskVars
  <2>4. com[c].items = <<>>
    BY <1>i, <2>1
  <2> QED
    BY <2>1, <2>2, <2>3, <2>4 DEF ComStep
<1>2. ASSUME ReadFile PROVE \E c \in Committers : \E r, t : SendStep(c, r, t)
  <2>1. /\ "get" \in Committers /\ com["get"].pc = "read" /\ com' = [com EXCEPT !["get"].pc = "wait"]
        /\ io' = Append(io, Task("read", "get", <<>>))
    BY <1>2 DEF ReadFile, Com
  <2>a. PICK pc \in ComPcs : pc = "wait"
    BY DEF ComPcs
  <2>b. ComTurns("get", pc)
    BY <1>0, <2>1, <2>a, ComTurnsFacts
  <2>2. PICK r : ComMoved("get", r) /\ r.pc = "wait" /\ r.items = com["get"].items
    BY <2>a, <2>b DEF ComTurns
  <2>3. com["get"].items = <<>>
    BY <1>i, <2>1
  <2>4. PICK t \in TaskRec : t = Task("read", "get", <<>>) /\ t.m = "read" /\ t.by = "get" /\ t.items = <<>>
    BY EmptyTasks
  <2>5. SendStep("get", r, t)
    BY <2>1, <2>2, <2>3, <2>4 DEF SendStep
  <2> QED
    BY <2>1, <2>5
<1>3. ASSUME NEW c \in Committers, PopAll(c)
      PROVE  \E r : ComStep(c, r) /\ com[c].items = <<>>
                    /\ (r.items = <<>> \/ r.items = Reverse(Cached)) /\ (Cached = <<>> => r.items = <<>>)
  <2>1. io' = io /\ com[c].pc = "pop" /\ com[c].items = <<>>
    BY <1>i, <1>3 DEF PopAll, Com, diskVars
  <2>2. CASE Cached = <<>>
    <3>1. ComMoved(c, After(c)) /\ After(c).items = <<>>
      BY <1>0, <1>3, <2>2, PopMoves, AfterFacts
    <3> QED
      BY <2>1, <3>1 DEF ComStep
  <2>3. CASE Cached # <<>>
    <3>1. PICK r : ComMoved(c, r) /\ r.pc = "send" /\ r.items = Reverse(Cached)
      BY <1>0, <1>3, <2>3, PopMoves
    <3> QED
      BY <2>1, <2>3, <3>1 DEF ComStep
  <2> QED
    BY <2>2, <2>3
<1>4. ASSUME NEW c \in Committers, FlushFile(c) PROVE \E r, t : SendStep(c, r, t)
  <2>1. PICK r : ComMoved(c, r) /\ r.pc = "wait" /\ r.items = <<>>
    BY <1>0, <1>4, FlushMoves
  <2>2. PICK t \in FlushRec : io' = Append(io, t) /\ t.by = c /\ t.items = com[c].items
    BY <1>0, <1>4, FlushMoves
  <2>3. com[c].pc = "send" /\ t \in TaskRec /\ t.m # "fetch"
    BY <1>4 DEF FlushFile, Com, TaskRec, FlushRec
  <2> QED
    BY <2>1, <2>2, <2>3 DEF SendStep
<1>5. ASSUME flushrrd PROVE \E c \in Committers : \E r : DoneStep(c, r)
  <2>1. /\ io # <<>> /\ io[1] \in FlushRec /\ io' = Tail(io) /\ ComMoved(io[1].by, After(io[1].by))
    BY <1>0, <1>5, IoMoves
  <2>2. PICK c \in Committers : c = io[1].by
    BY <2>1 DEF FlushRec
  <2>3. io[1].m # "fetch" /\ After(c).items = <<>> /\ After(c).pc \notin {"send", "wait"}
    BY <2>1, AfterFacts DEF FlushRec
  <2> QED
    BY <2>1, <2>2, <2>3 DEF DoneStep
<1>6. ASSUME ioRead PROVE \E c \in Committers : \E r : DoneStep(c, r)
  <2>1. io # <<>> /\ Head(io).m = "read" /\ io' = Tail(io) /\ com' = [com EXCEPT !["get"] = IdleCom]
    BY <1>6 DEF ioRead, Working
  <2>2. io[1] \in TaskRec /\ io[1].m = "read" /\ 1 \in 1 .. Len(io)
    BY <1>0, <2>1, HeadTask
  <2>3. io[1].by = "get" /\ io[1].by \in Committers
    <3>1. io[1].by \in Committers
      BY <2>2 DEF ChanInv
    <3>2. io[1].by = "get"
      BY <2>2 DEF TaskRec, FlushRec
    <3> QED
      BY <3>1, <3>2
  <2>4. ComMoved("get", IdleCom) /\ IdleCom.items = <<>> /\ IdleCom.pc = "idle"
    BY <1>0, <2>1, <2>3, IdleComFacts, ComMovedFacts
  <2>5. DoneStep("get", IdleCom)
    BY <2>1, <2>2, <2>3, <2>4 DEF DoneStep
  <2> QED
    BY <2>3, <2>5
<1> QED
  BY <1>1, <1>2, <1>3, <1>4, <1>5, <1>6

\* Preservation.
LEMMA ChanInvStep == ChanInv /\ [Next]_vars => ChanInv'
<1> SUFFICES ASSUME ChanInv, [Next]_vars PROVE ChanInv'
  OBVIOUS
<1> USE DEF handVars, diskVars, readVars, downVars
<1>0. TypeInv /\ TypeInv' /\ io \in Seq(TaskRec)
  BY TypeInvStep DEF ChanInv, TypeInv
<1>s. CASE io' = io /\ com' = com
  BY <1>0, <1>s DEF ChanInv
<1>1. CASE (\E a \in Handlers : Send(a) \/ handleItems(a)) \/ updateIndexIncr \/ updateIndexFromOneItem
           \/ CleanCache \/ FetchAll \/ QueryReturns \/ CloseConns \/ Exit \/ Quiescent \/ UNCHANGED vars
  BY <1>s, <1>1 DEF Send, handleItems, First, GetHit, GetMiss, Set, PushFront, IndexHit, IndexMiss,
     AddItem, HistoryGet, HistoryPut, HistoryFront, HistoryPush, updateIndexIncr, updateIndexFromOneItem,
     CleanCache, CleanLook, DeleteInvalidItems, DeleteInvalidHistory, FetchAll, QueryReturns,
     CloseConns, Exit, Quiescent, vars
<1>2. CASE FlushRRD \/ syncDiskEnds \/ GetRrd \/ Signal \/ (\E c \in Committers : PopAll(c))
  BY <1>0, <1>2, ComKinds, ComStepKeeps
<1>3. CASE ReadFile \/ (\E c \in Committers : FlushFile(c))
  BY <1>0, <1>3, ComKinds, SendStepKeeps
<1>4. CASE flushrrd \/ ioRead
  BY <1>0, <1>4, ComKinds, DoneStepKeeps
<1>5. CASE fetch
  <2>1. com' = com /\ io # <<>> /\ io' = Tail(io)
    BY <1>5 DEF fetch, Working
  <2>2. /\ Len(io) \in Nat \ {0} /\ Len(io') = Len(io) - 1
        /\ \A k \in 1 .. Len(io) - 1 : io'[k] = io[k + 1]
    BY <1>0, <2>1, TailTask
  <2>3. \A k \in 1 .. Len(io') : k + 1 \in 1 .. Len(io) /\ io'[k] = io[k + 1]
    BY <2>2
  <2>4. \A j, k \in 1 .. Len(io') : j + 1 = k + 1 => j = k
    BY <2>2
  <2> QED
    BY <1>0, <2>1, <2>3, <2>4 DEF ChanInv
<1>6. CASE Fetch
  <2>1. com' = com /\ io' = Append(io, Task("fetch", "query", <<>>))
    BY <1>6 DEF Fetch
  <2>2. PICK t \in TaskRec : t = Task("fetch", "query", <<>>) /\ t.m = "fetch"
    BY EmptyTasks
  <2>3. /\ Len(io) \in Nat /\ Len(io') = Len(io) + 1 /\ io'[Len(io) + 1] = t
        /\ \A k \in 1 .. Len(io) : io'[k] = io[k]
    BY <1>0, <2>1, <2>2, AppendTask
  <2>4. \A k \in 1 .. Len(io') : io'[k].m # "fetch" => k \in 1 .. Len(io) /\ io'[k] = io[k]
    BY <2>2, <2>3
  <2> QED
    BY <1>0, <2>1, <2>4 DEF ChanInv
<1> QED
  BY <1>1, <1>2, <1>3, <1>4, <1>5, <1>6 DEF Next, CommitByKey, ioWorker, Query

\* The channel and the commits agree at the start.
LEMMA ChanInvInit == Init => ChanInv
<1> SUFFICES ASSUME Init PROVE ChanInv
  OBVIOUS
<1>1. io = <<>> /\ \A c \in Committers : com[c].items = <<>>
  BY DEF Init, IdleCom
<1> QED
  BY <1>1, TypeInvInit DEF ChanInv

----------------------------------------------------------------------------
(* The lists of GraphItems: one handler at a time, any committers.         *)

OneHandler == \A a, b \in Handlers : a = b

\* A list is in the map, was cleaned away, or is a new one that the handler is
\* about to put into the map, which has none then.
ListInv ==
    /\ ChanInv /\ OneHandler
    /\ ghost.gone \subseteq 1 .. Len(cache.lists) /\ cache.entry \notin ghost.gone
    /\ clean = "items" => cache.entry # NoList
    /\ \A a \in Handlers : h[a].pc = "set" =>
         cache.entry = NoList /\ h[a].list \notin ghost.gone /\ cache.lists[h[a].list] = <<h[a].ts>>
    /\ \A a \in Handlers : h[a].pc = "push" => h[a].list = cache.entry \/ h[a].list \in ghost.gone

\* CleanCache takes the list out of the map.
LEMMA CleanFacts ==
    ASSUME ListInv, DeleteInvalidItems
    PROVE  /\ cache' \in ListMap /\ cache'.lists = cache.lists /\ cache'.entry = NoList
           /\ cache.entry \in 1 .. Len(cache.lists) /\ Len(cache.lists) \in Nat
           /\ ghost'.gone = ghost.gone \cup {cache.entry} /\ ghost'.accepted = ghost.accepted
           /\ ghost'.late = ghost.late /\ ghost'.failed = ghost.failed
           /\ clean' = "none" /\ UNCHANGED <<h, hist, idx, io, rrd, com, q>>
<1>1. /\ cache \in ListMap /\ cache.entry \in 0 .. Len(cache.lists) /\ ghost \in GhostRec
      /\ cache.entry # NoList
  BY DEF ListInv, ChanInv, TypeInv, DeleteInvalidItems
<1>2. cache.entry \in 1 .. Len(cache.lists) /\ Len(cache.lists) \in Nat
  BY <1>1, CachedFacts
<1>3. PICK e \in 0 .. Len(cache.lists) : e = NoList
  BY <1>2 DEF NoList
<1>4. cache' = [cache EXCEPT !.entry = e]
  BY <1>3 DEF DeleteInvalidItems
<1>5. cache' \in ListMap /\ cache'.lists = cache.lists /\ cache'.entry = NoList
  BY <1>1, <1>3, <1>4, EntryFacts
<1>6. PICK g : g = ghost.gone \cup {cache.entry}
  OBVIOUS
<1>7. ghost' = [ghost EXCEPT !.gone = g]
  BY <1>6 DEF DeleteInvalidItems
<1>8. ghost'.gone = g /\ ghost'.accepted = ghost.accepted /\ ghost'.late = ghost.late /\ ghost'.failed = ghost.failed
  BY <1>1, <1>7 DEF GhostRec
<1>9. clean' = "none" /\ UNCHANGED <<h, hist, idx, io, rrd, com, q>>
  BY DEF DeleteInvalidItems, diskVars, readVars
<1> QED
  BY <1>2, <1>5, <1>6, <1>8, <1>9

\* The handler's new list gets into the map (Set).
LEMMA SetFacts ==
    ASSUME TypeInv, NEW a \in Handlers, Set(a)
    PROVE  /\ h[a].list \in 1 .. Len(cache.lists) /\ h[a].ts \in Times
           /\ cache' \in ListMap /\ cache'.lists = cache.lists /\ cache'.entry = h[a].list
           /\ Len(cache.lists) \in Nat
<1>1. cache \in ListMap /\ h[a].list \in 1 .. Len(cache.lists) /\ h[a].ts \in Times
  BY DEF TypeInv, HandRec, Set, At
<1>2. Len(cache.lists) \in Nat
  BY <1>1, LenProperties DEF ListMap
<1>3. PICK e \in 0 .. Len(cache.lists) : e = h[a].list
  BY <1>1, <1>2
<1>4. cache' = [cache EXCEPT !.entry = e]
  BY <1>3 DEF Set
<1>5. cache' \in ListMap /\ cache'.lists = cache.lists /\ cache'.entry = e
  BY <1>1, <1>4, EntryFacts
<1> QED
  BY <1>1, <1>2, <1>3, <1>5

\* A handler makes a new list (GetMiss).
LEMMA MissFacts ==
    ASSUME TypeInv, NEW a \in Handlers, GetMiss(a)
    PROVE  /\ cache' \in ListMap /\ cache'.entry = cache.entry /\ cache.entry = NoList
           /\ Len(cache.lists) \in Nat /\ Len(cache'.lists) = Len(cache.lists) + 1
           /\ \A k \in 1 .. Len(cache.lists) : cache'.lists[k] = cache.lists[k]
           /\ cache'.lists[Len(cache.lists) + 1] = <<h[a].ts>>
<1>1. cache \in ListMap /\ h[a].ts \in Times
  BY DEF TypeInv, HandRec
<1>a. <<h[a].ts>> \in Seq(Times)
  BY <1>1
<1>2. PICK s \in Seq(Times) : s = <<h[a].ts>>
  BY <1>a
<1>3. cache' = NewList(cache, s) /\ cache.entry = NoList
  BY <1>2 DEF GetMiss
<1> QED
  BY <1>1, <1>2, <1>3, NewListFacts

\* Preservation.
LEMMA ListInvStep == ListInv /\ [Next]_vars => ListInv'
<1> SUFFICES ASSUME ListInv, [Next]_vars PROVE ListInv'
  OBVIOUS
<1> USE DEF handVars, diskVars, readVars, downVars
<1>0. ChanInv /\ ChanInv' /\ TypeInv /\ OneHandler
  BY ChanInvStep DEF ListInv, ChanInv
<1>1. /\ ghost.gone \subseteq 1 .. Len(cache.lists) /\ cache.entry \notin ghost.gone
      /\ clean = "items" => cache.entry # NoList
      /\ cache \in ListMap /\ Len(cache.lists) \in Nat /\ ghost \in GhostRec
      /\ cache.entry \in 0 .. Len(cache.lists)
  BY LenProperties DEF ListInv, ChanInv, TypeInv, ListMap
<1>2. \A a, b \in Handlers : a = b
  BY <1>0 DEF OneHandler
\* Neither lists nor handlers at a list.
<1>s. CASE UNCHANGED <<cache, clean>> /\ ghost'.gone = ghost.gone
           /\ \A a \in Handlers : h'[a] = h[a] \/ h'[a].pc \notin {"set", "push"}
  BY <1>0, <1>1, <1>s DEF ListInv, OneHandler
<1>3. ASSUME NEW a \in Handlers,
             \/ Send(a) \/ First(a) \/ IndexHit(a) \/ IndexMiss(a) \/ AddItem(a)
      PROVE  ListInv'
  <2>1. UNCHANGED <<cache, clean, ghost>>
    BY <1>3 DEF Send, First, IndexHit, IndexMiss, AddItem, HistoryGet, HistoryPut, HistoryFront, HistoryPush
  <2>2. PICK r : Moved(a, r) /\ r.pc \notin {"set", "push"}
    BY <1>0, <1>3, HandlerMoves, HistoryMoves DEF AddItem
  <2> QED
    BY <1>s, <2>1, <2>2 DEF Moved
<1>4. ASSUME NEW a \in Handlers, GetHit(a) PROVE ListInv'
  <2>1. UNCHANGED <<cache, clean, ghost>>
    BY <1>4 DEF GetHit
  <2>2. PICK r : Moved(a, r) /\ r.pc = "push" /\ r.list = cache.entry
    BY <1>0, <1>4, HandlerMoves
  <2>3. \A b \in Handlers : h'[b] = r
    BY <1>2, <2>2 DEF Moved
  <2> QED
    BY <1>0, <1>1, <2>1, <2>2, <2>3 DEF ListInv
<1>5. ASSUME NEW a \in Handlers, GetMiss(a) PROVE ListInv'
  <2>1. UNCHANGED <<clean, ghost>>
    BY <1>5 DEF GetMiss
  <2>2. PICK r : Moved(a, r) /\ r.pc = "set" /\ r.list = Len(cache.lists) + 1 /\ r.ts = h[a].ts
    BY <1>0, <1>5, HandlerMoves
  <2>3. \A b \in Handlers : h'[b] = r
    BY <1>2, <2>2 DEF Moved
  <2>4. /\ cache'.entry = NoList /\ cache.entry = NoList /\ Len(cache'.lists) = Len(cache.lists) + 1
        /\ cache'.lists[Len(cache.lists) + 1] = <<h[a].ts>>
    BY <1>0, <1>5, MissFacts
  <2>5. ghost.gone \subseteq 1 .. Len(cache.lists) + 1 /\ Len(cache.lists) + 1 \notin ghost.gone
    BY <1>1
  <2> QED
    BY <1>0, <1>1, <2>1, <2>2, <2>3, <2>4, <2>5 DEF ListInv
<1>6. ASSUME NEW a \in Handlers, Set(a) PROVE ListInv'
  <2>1. clean' = clean /\ Accept(h[a].ts)
    BY <1>6 DEF Set
  <2>2. PICK r : Moved(a, r) /\ r.pc = "index" /\ h[a].pc = "set"
    BY <1>0, <1>6, HandlerMoves
  <2>3. \A b \in Handlers : h'[b] = r
    BY <1>2, <2>2 DEF Moved
  <2>4. /\ h[a].list \in 1 .. Len(cache.lists) /\ h[a].ts \in Times
        /\ cache'.lists = cache.lists /\ cache'.entry = h[a].list
    BY <1>0, <1>6, SetFacts
  <2>5. ghost'.gone = ghost.gone
    BY <1>1, <2>1, <2>4, AcceptFacts
  <2>6. h[a].list \notin ghost.gone /\ h[a].list # NoList
    BY <2>2, <2>4 DEF ListInv, NoList
  <2> QED
    BY <1>0, <1>1, <2>1, <2>2, <2>3, <2>4, <2>5, <2>6 DEF ListInv
<1>7. ASSUME NEW a \in Handlers, PushFront(a) PROVE ListInv'
  <2>1. clean' = clean /\ Accept(h[a].ts)
    BY <1>7 DEF PushFront
  <2>2. PICK r : Moved(a, r) /\ r.pc = "index"
    BY <1>0, <1>7, HandlerMoves
  <2>3. \A b \in Handlers : h'[b] = r
    BY <1>2, <2>2 DEF Moved
  <2>4. h[a].ts \in Times /\ cache'.entry = cache.entry /\ Len(cache'.lists) = Len(cache.lists)
    BY <1>0, <1>7, PushFacts
  <2>5. ghost'.gone = ghost.gone
    BY <1>1, <2>1, <2>4, AcceptFacts
  <2> QED
    BY <1>0, <1>1, <2>1, <2>2, <2>3, <2>4, <2>5 DEF ListInv
<1>8. CASE \/ updateIndexIncr \/ updateIndexFromOneItem \/ FlushRRD \/ syncDiskEnds \/ GetRrd \/ ReadFile
           \/ (\E c \in Committers : FlushFile(c))
           \/ ioRead \/ fetch \/ Query \/ Signal \/ CloseConns \/ Exit \/ Quiescent \/ UNCHANGED vars
  BY <1>s, <1>8 DEF updateIndexIncr, updateIndexFromOneItem, FlushRRD, syncDiskEnds, GetRrd, ReadFile,
     FlushFile, ioRead, fetch, Query, FetchAll, Fetch, QueryReturns,
     Signal, CloseConns, Exit, Quiescent, vars
<1>9. CASE flushrrd
  <2>1. ghost'.gone = ghost.gone
    BY <1>0, <1>9, IoMoves
  <2>2. UNCHANGED <<h, cache, clean>>
    BY <1>9 DEF flushrrd
  <2> QED
    BY <1>s, <2>1, <2>2
<1>10. CASE CleanLook
  <2>1. UNCHANGED <<h, cache, ghost>> /\ (clean' = "items" => cache.entry # NoList)
    BY <1>10 DEF CleanLook
  <2> QED
    BY <1>0, <1>1, <2>1 DEF ListInv
<1>11. CASE DeleteInvalidHistory
  <2>1. UNCHANGED <<h, cache, ghost>> /\ clean' = "none"
    BY <1>11 DEF DeleteInvalidHistory
  <2> QED
    BY <1>0, <1>1, <2>1 DEF ListInv
<1>12. CASE DeleteInvalidItems
  <2>1. /\ cache'.lists = cache.lists /\ cache'.entry = NoList /\ cache.entry \in 1 .. Len(cache.lists)
        /\ ghost'.gone = ghost.gone \cup {cache.entry} /\ clean' = "none" /\ h' = h
    BY <1>12, CleanFacts
  <2>2. NoList \notin ghost'.gone /\ cache.entry # NoList /\ ghost'.gone \subseteq 1 .. Len(cache.lists)
    BY <1>1, <2>1 DEF NoList
  <2>3. \A a \in Handlers : h[a].pc # "set"
    BY <2>2 DEF ListInv
  <2>4. \A a \in Handlers : h[a].pc = "push" => h[a].list \in ghost'.gone
    BY <2>1 DEF ListInv
  <2> QED
    BY <1>0, <2>1, <2>2, <2>3, <2>4 DEF ListInv
<1>13. ASSUME NEW c \in Committers, PopAll(c) PROVE ListInv'
  <2>0. clean' = clean /\ ghost' = ghost /\ h' = h
    BY <1>13 DEF PopAll
  <2>1. CASE cache' = cache
    BY <1>s, <2>0, <2>1
  <2>2. CASE cache' # cache
    <3>1. /\ cache'.entry = cache.entry /\ Len(cache'.lists) = Len(cache.lists) /\ cache.entry \in 1 .. Len(cache.lists)
      BY <1>0, <1>13, <2>2, PopMoves
    <3>2. \A a \in Handlers : h[a].pc # "set"
      BY <3>1 DEF ListInv, NoList
    <3> QED
      BY <1>0, <1>1, <2>0, <3>1, <3>2 DEF ListInv
  <2> QED
    BY <2>1, <2>2
<1> QED
  BY <1>3, <1>4, <1>5, <1>6, <1>7, <1>8, <1>9, <1>10, <1>11, <1>12, <1>13
     DEF Next, handleItems, CleanCache, CommitByKey, ioWorker

\* The lists agree with their handlers at the start.
LEMMA ListInvInit == OneHandler /\ Init => ListInv
<1> SUFFICES ASSUME OneHandler, Init PROVE ListInv
  OBVIOUS
<1>1. ghost.gone = {} /\ clean = "none" /\ \A a \in Handlers : h[a].pc = "idle"
  BY DEF Init, IdleHand
<1> QED
  BY <1>1, ChanInvInit DEF ListInv

\* The cleaned points stay while the lists that were taken away do.
LEMMA CleanedSame ==
    ASSUME ghost'.gone = ghost.gone, \A l \in ghost.gone : cache'.lists[l] = cache.lists[l]
    PROVE  Cleaned' = Cleaned
  BY DEF Cleaned

\* What each step that touches GraphItems does to the cached and to the
\* cleaned points.
LEMMA CacheEffects ==
    ASSUME ListInv
    PROVE  /\ Cached \in Seq(Times)
           /\ \A a \in Handlers : GetMiss(a) => Cached' = Cached /\ Cleaned' = Cleaned
           /\ \A a \in Handlers : Set(a) => Cached = <<>> /\ Cached' = <<h[a].ts>> /\ Cleaned' = Cleaned
           /\ \A a \in Handlers : PushFront(a) =>
                IF h[a].list = cache.entry THEN Cached' = <<h[a].ts>> \o Cached /\ Cleaned' = Cleaned
                ELSE Cached' = Cached /\ Cleaned' = Cleaned \cup {h[a].ts}
           /\ DeleteInvalidItems => Cached' = <<>> /\ Cleaned' = Cleaned \cup Range(Cached)
           /\ \A c \in Committers : PopAll(c) => Cached' = <<>> /\ Cleaned' = Cleaned
<1>0. /\ TypeInv /\ cache \in ListMap /\ cache.entry \in 0 .. Len(cache.lists) /\ ghost \in GhostRec
      /\ ghost.gone \subseteq 1 .. Len(cache.lists) /\ cache.entry \notin ghost.gone
  BY DEF ListInv, ChanInv, TypeInv
<1>1. /\ Cached \in Seq(Times) /\ Len(cache.lists) \in Nat
      /\ cache.entry = NoList => Cached = <<>>
      /\ cache.entry # NoList => cache.entry \in 1 .. Len(cache.lists) /\ Cached = cache.lists[cache.entry]
  BY <1>0, CachedFacts
<1>2. Cached' = IF cache'.entry = NoList THEN <<>> ELSE cache'.lists[cache'.entry]
  BY DEF Cached, listOf
<1>3. ASSUME NEW a \in Handlers, GetMiss(a) PROVE Cached' = Cached /\ Cleaned' = Cleaned
  <2>1. /\ cache'.entry = cache.entry /\ cache.entry = NoList
        /\ \A k \in 1 .. Len(cache.lists) : cache'.lists[k] = cache.lists[k]
    BY <1>0, <1>3, MissFacts
  <2>2. ghost' = ghost
    BY <1>3 DEF GetMiss
  <2> QED
    BY <1>0, <1>1, <1>2, <2>1, <2>2, CleanedSame
<1>4. ASSUME NEW a \in Handlers, Set(a)
      PROVE  Cached = <<>> /\ Cached' = <<h[a].ts>> /\ Cleaned' = Cleaned
  <2>1. /\ h[a].list \in 1 .. Len(cache.lists) /\ h[a].ts \in Times
        /\ cache'.lists = cache.lists /\ cache'.entry = h[a].list
    BY <1>0, <1>4, SetFacts
  <2>2. h[a].pc = "set" /\ Accept(h[a].ts)
    BY <1>4 DEF Set, At
  <2>3. ghost'.gone = ghost.gone
    BY <1>0, <2>1, <2>2, AcceptFacts
  <2>4. cache.entry = NoList /\ cache.lists[h[a].list] = <<h[a].ts>>
    BY <2>2 DEF ListInv
  <2>5. Cleaned' = Cleaned
    BY <2>1, <2>3, CleanedSame
  <2> QED
    BY <1>1, <1>2, <2>1, <2>4, <2>5 DEF NoList
<1>5. ASSUME NEW a \in Handlers, PushFront(a)
      PROVE  IF h[a].list = cache.entry THEN Cached' = <<h[a].ts>> \o Cached /\ Cleaned' = Cleaned
             ELSE Cached' = Cached /\ Cleaned' = Cleaned \cup {h[a].ts}
  <2>1. /\ h[a].list \in 1 .. Len(cache.lists) /\ h[a].ts \in Times /\ cache'.entry = cache.entry
        /\ \A k \in 1 .. Len(cache.lists) :
             cache'.lists[k] = IF k = h[a].list THEN <<h[a].ts>> \o cache.lists[k] ELSE cache.lists[k]
    BY <1>0, <1>5, PushFacts
  <2>2. h[a].pc = "push" /\ Accept(h[a].ts)
    BY <1>5 DEF PushFront, At
  <2>3. ghost'.gone = ghost.gone
    BY <1>0, <2>1, <2>2, AcceptFacts
  <2>4. CASE h[a].list = cache.entry
    <3>1. Cleaned' = Cleaned
      BY <1>0, <2>1, <2>3, <2>4, CleanedSame
    <3>2. Cached' = <<h[a].ts>> \o Cached
      <4>1. cache.entry # NoList /\ cache'.entry # NoList
        BY <2>1, <2>4 DEF NoList
      <4>2. PICK e \in 1 .. Len(cache.lists) : e = h[a].list /\ e = cache.entry /\ e = cache'.entry
        BY <2>1, <2>4
      <4>3. PICK s : s = cache.lists[e]
        OBVIOUS
      <4>4. cache'.lists[e] = <<h[a].ts>> \o s
        BY <2>1, <4>2, <4>3
      <4>5. Cached = s /\ Cached' = cache'.lists[e]
        BY <1>1, <1>2, <4>1, <4>2, <4>3
      <4> QED
        BY <4>4, <4>5
    <3> QED
      BY <2>4, <3>1, <3>2
  <2>5. CASE h[a].list # cache.entry
    <3>1. h[a].list \in ghost.gone
      BY <2>2, <2>5 DEF ListInv
    <3>2. PICK l \in ghost.gone : l = h[a].list
      BY <3>1
    <3>3. cache.lists[l] \in Seq(Times)
      BY <1>0, <2>1, <3>2, HeldList
    <3>4. Range(<<h[a].ts>> \o cache.lists[l]) = {h[a].ts} \cup Range(cache.lists[l])
      BY <2>1, <3>3, ConsFacts
    <3>5. PICK u : u = <<h[a].ts>> \o cache.lists[l]
      OBVIOUS
    <3>6. cache'.lists[l] = u /\ \A k \in ghost.gone : k # l => cache'.lists[k] = cache.lists[k]
      BY <1>0, <2>1, <3>2, <3>5
    <3>7. Cleaned' = UNION {Range(cache'.lists[k]) : k \in ghost.gone}
      BY <2>3 DEF Cleaned
    <3>8. Range(u) = {h[a].ts} \cup Range(cache.lists[l])
      BY <3>4, <3>5
    <3>9. ASSUME NEW x \in Cleaned' PROVE x \in Cleaned \cup {h[a].ts}
      <4>1. PICK k \in ghost.gone : x \in Range(cache'.lists[k])
        BY <3>7, <3>9
      <4>2. CASE k = l
        BY <3>6, <3>8, <4>1, <4>2 DEF Cleaned
      <4>3. CASE k # l
        BY <3>6, <4>1, <4>3 DEF Cleaned
      <4> QED
        BY <4>2, <4>3
    <3>10. ASSUME NEW x \in Cleaned PROVE x \in Cleaned'
      <4>1. PICK k \in ghost.gone : x \in Range(cache.lists[k])
        BY <3>10 DEF Cleaned
      <4>2. CASE k = l
        BY <3>6, <3>7, <3>8, <4>1, <4>2
      <4>3. CASE k # l
        BY <3>6, <3>7, <4>1, <4>3
      <4> QED
        BY <4>2, <4>3
    <3>11. h[a].ts \in Cleaned'
      BY <3>6, <3>7, <3>8
    <3>12. Cached' = Cached
      BY <1>1, <1>2, <2>1, <2>5
    <3> QED
      BY <2>5, <3>9, <3>10, <3>11, <3>12
  <2> QED
    BY <2>4, <2>5
<1>6. ASSUME DeleteInvalidItems PROVE Cached' = <<>> /\ Cleaned' = Cleaned \cup Range(Cached)
  <2>1. /\ cache'.lists = cache.lists /\ cache'.entry = NoList /\ cache.entry \in 1 .. Len(cache.lists)
        /\ ghost'.gone = ghost.gone \cup {cache.entry}
    BY <1>6, CleanFacts
  <2>2. Cached = cache.lists[cache.entry]
    BY <1>1, <2>1 DEF NoList
  <2>3. Cleaned' = UNION {Range(cache.lists[k]) : k \in ghost.gone \cup {cache.entry}}
    BY <2>1 DEF Cleaned
  <2>4. Cleaned' = Cleaned \cup Range(Cached)
    BY <2>2, <2>3 DEF Cleaned
  <2> QED
    BY <1>2, <2>1, <2>4
<1>7. ASSUME NEW c \in Committers, PopAll(c) PROVE Cached' = <<>> /\ Cleaned' = Cleaned
  <2>0. ghost' = ghost
    BY <1>7 DEF PopAll
  <2>1. CASE Cached = <<>>
    <3>1. cache' = cache
      BY <1>0, <1>7, <2>1, PopMoves
    <3> QED
      BY <2>0, <2>1, <3>1, CleanedSame DEF Cached
  <2>2. CASE Cached # <<>>
    <3>1. /\ cache'.entry = cache.entry /\ cache.entry \in 1 .. Len(cache.lists)
          /\ \A k \in 1 .. Len(cache.lists) :
               cache'.lists[k] = IF k = cache.entry THEN <<>> ELSE cache.lists[k]
      BY <1>0, <1>7, <2>2, PopMoves
    <3>2. Cached' = <<>>
      BY <1>2, <3>1
    <3>3. Cleaned' = Cleaned
      BY <1>0, <2>0, <3>1, CleanedSame
    <3> QED
      BY <3>2, <3>3
  <2> QED
    BY <2>1, <2>2
<1> QED
  BY <1>1, <1>3, <1>4, <1>5, <1>6, <1>7

----------------------------------------------------------------------------
(* Several committers: what is accepted is kept, or overtaken.             *)

\* The least element of a set of naturals.
LEMMA LeastNat ==
    ASSUME NEW T, T \subseteq Nat, T # {}
    PROVE  \E x \in T : \A y \in T : x <= y
<1>1. PICK R : R = OpToRel(<, Nat)
  OBVIOUS
<1>2. IsWellFoundedOn(R, Nat)
  BY <1>1, NatLessThanWellFounded
<1>3. PICK x \in T : \A y \in T : ~(<<y, x>> \in R)
  BY <1>2, WFMin
<1>4. ASSUME NEW y \in T PROVE x <= y
  <2>1. <<y, x>> \notin R
    BY <1>3
  <2>2. y < x => <<y, x>> \in R
    BY <1>1 DEF OpToRel
  <2> QED
    BY <2>1, <2>2
<1> QED
  BY <1>4

\* rrdlite loses a point of a task only to a newer one (update).
LEMMA UpdateKeeps ==
    ASSUME NEW s \in Seq(Times), rrd \in RrdRec, NEW x \in Range(s)
    PROVE  x \in update(s) \/ \E t \in update(s) : t > x
<1>1. DOMAIN s = 1 .. Len(s) /\ Len(s) \in Nat /\ \A i \in 1 .. Len(s) : s[i] \in Times
  BY LenProperties, ElementOfSeq
<1>2. rrd.pts \subseteq Times /\ rrd.pts \subseteq update(s)
  BY UpdateWithin DEF RrdRec
<1> DEFINE Kept(p) == p \in update(s) \/ \E t \in update(s) : t > p
           Bad == {i \in 1 .. Len(s) : ~Kept(s[i])}
<1>3. SUFFICES ASSUME Bad # {} PROVE FALSE
  BY <1>1 DEF Range
<1>4. PICK i \in Bad : \A j \in Bad : i <= j
  <2>1. Bad \subseteq Nat
    BY <1>1
  <2> HIDE DEF Bad
  <2> QED
    BY <1>3, <2>1, LeastNat
<1>5. i \in 1 .. Len(s) /\ ~Kept(s[i]) /\ s[i] \in Times
  BY <1>1, <1>4
<1>6. PICK t \in rrd.pts \cup {s[j] : j \in 1 .. i - 1} : ~(s[i] > t)
  <2>1. i \in DOMAIN s /\ s[i] \notin update(s)
    BY <1>1, <1>5
  <2> QED
    BY <2>1 DEF update
<1>7. CASE t \in rrd.pts
  <2>1. t \in update(s) /\ t \in Times
    BY <1>2, <1>7
  <2> QED
    BY <1>5, <1>6, <2>1 DEF Times
<1>8. CASE t \in {s[j] : j \in 1 .. i - 1}
  <2>1. PICK j \in 1 .. i - 1 : t = s[j]
    BY <1>8
  <2>2. j \in 1 .. Len(s) /\ ~(i <= j) /\ t \in Times
    BY <1>1, <1>5, <2>1
  <2>3. Kept(t)
    BY <1>4, <2>1, <2>2
  <2>4. update(s) \subseteq Times
    BY UpdateWithin
  <2> QED
    BY <1>5, <1>6, <2>2, <2>3, <2>4 DEF Times
<1> QED
  BY <1>6, <1>7, <1>8

KeptInv == ListInv /\ AcceptedKept

\* Preservation: points move from the list to the committer, the channel and
\* the file, and leave this way only overtaken, failed or cleaned away.
LEMMA KeptInvStep == KeptInv /\ [Next]_vars => KeptInv'
<1> SUFFICES ASSUME KeptInv, [Next]_vars PROVE KeptInv'
  OBVIOUS
<1> USE DEF handVars, diskVars, readVars, downVars
<1>0. /\ ListInv /\ ListInv' /\ ChanInv /\ TypeInv /\ ghost \in GhostRec /\ rrd \in RrdRec
      /\ io \in Seq(TaskRec) /\ Cached \in Seq(Times)
  BY ListInvStep, CacheEffects DEF KeptInv, ListInv, ChanInv, TypeInv
<1>e. Range(<<>>) = {}
  BY EmptyRange
<1>i. \A c \in Committers : com[c].pc # "send" => Range(com[c].items) = {}
  BY <1>0, <1>e DEF ChanInv
\* What has to be shown of a step.
<1>k. ASSUME Cleaned \subseteq Cleaned', ghost.failed \subseteq ghost'.failed, rrd.pts \subseteq rrd'.pts,
             \A p \in OnTheWay : \/ p \in OnTheWay' \cup Cleaned' \cup rrd'.pts \cup ghost'.failed
                                 \/ \E t \in rrd'.pts : t > p,
             \A p \in ghost'.accepted : p \in ghost.accepted \cup OnTheWay' \cup Cleaned'
      PROVE  KeptInv'
  <2>1. ASSUME NEW p \in ghost'.accepted, p \notin ghost'.failed, p \notin Cleaned'
        PROVE  p \in OnTheWay' \cup rrd'.pts \/ \E t \in rrd'.pts : t > p
    <3>1. CASE p \in ghost.accepted
      <4>1. p \in OnTheWay \cup rrd.pts \/ \E t \in rrd.pts : t > p
        BY <1>k, <2>1, <3>1 DEF KeptInv, AcceptedKept
      <4> QED
        BY <1>k, <2>1, <4>1
    <3>2. CASE p \notin ghost.accepted
      BY <1>k, <2>1, <3>2
    <3> QED
      BY <3>1, <3>2
  <2> QED
    BY <1>0, <2>1 DEF KeptInv, AcceptedKept
\* Points, lists, committers and channel as they were.
<1>s. CASE UNCHANGED <<cache, rrd, ghost>> /\ Between' = Between /\ InIo' = InIo
  <2>1. Cached' = Cached /\ Cleaned' = Cleaned
    BY <1>s DEF Cached, Cleaned
  <2> QED
    BY <1>k, <1>s, <2>1 DEF OnTheWay
<1>1. ASSUME NEW a \in Handlers,
             \/ Send(a) \/ First(a) \/ GetHit(a) \/ IndexHit(a) \/ IndexMiss(a) \/ AddItem(a)
      PROVE  KeptInv'
  <2>1. UNCHANGED <<cache, rrd, ghost, com, io>>
    BY <1>1 DEF Send, First, GetHit, IndexHit, IndexMiss, AddItem, HistoryGet, HistoryPut, HistoryFront, HistoryPush
  <2> QED
    BY <1>s, <2>1 DEF Between, InIo
<1>2. CASE \/ updateIndexIncr \/ updateIndexFromOneItem \/ CleanLook \/ DeleteInvalidHistory
           \/ FetchAll \/ QueryReturns \/ CloseConns \/ Exit \/ Quiescent \/ UNCHANGED vars
  <2>1. UNCHANGED <<cache, rrd, ghost, com, io>>
    BY <1>2 DEF updateIndexIncr, updateIndexFromOneItem, CleanLook, DeleteInvalidHistory,
       FetchAll, QueryReturns, CloseConns, Exit, Quiescent, vars
  <2> QED
    BY <1>s, <2>1 DEF Between, InIo
<1>3. ASSUME NEW a \in Handlers, GetMiss(a) PROVE KeptInv'
  <2>1. UNCHANGED <<rrd, ghost, com, io>>
    BY <1>3 DEF GetMiss
  <2>2. Cached' = Cached /\ Cleaned' = Cleaned
    BY <1>0, <1>3, CacheEffects
  <2> QED
    BY <1>k, <2>1, <2>2 DEF OnTheWay, Between, InIo
<1>4. ASSUME NEW a \in Handlers, Set(a) PROVE KeptInv'
  <2>1. UNCHANGED <<rrd, com, io>> /\ Accept(h[a].ts) /\ h[a].ts \in Times
    BY <1>0, <1>4, SetFacts DEF Set
  <2>2. Cached = <<>> /\ Cached' = <<h[a].ts>> /\ Cleaned' = Cleaned
    BY <1>0, <1>4, CacheEffects
  <2>3. ghost'.accepted = ghost.accepted \cup {h[a].ts} /\ ghost'.failed = ghost.failed
    BY <1>0, <2>1, AcceptFacts
  <2>4. h[a].ts \in Range(Cached')
    BY <2>2 DEF Range
  <2>5. Between' = Between /\ InIo' = InIo
    BY <2>1 DEF Between, InIo
  <2>6. h[a].ts \in OnTheWay' /\ OnTheWay \subseteq OnTheWay'
    BY <1>e, <2>2, <2>4, <2>5 DEF OnTheWay
  <2> QED
    BY <1>k, <2>1, <2>2, <2>3, <2>6
<1>5. ASSUME NEW a \in Handlers, PushFront(a) PROVE KeptInv'
  <2>1. UNCHANGED <<rrd, com, io>> /\ Accept(h[a].ts) /\ h[a].ts \in Times
    BY <1>0, <1>5, PushFacts DEF PushFront
  <2>2. Range(<<h[a].ts>> \o Cached) = {h[a].ts} \cup Range(Cached)
    BY <1>0, <2>1, ConsFacts
  <2>3. ghost'.accepted = ghost.accepted \cup {h[a].ts} /\ ghost'.failed = ghost.failed
    BY <1>0, <2>1, AcceptFacts
  <2>4. \/ Cached' = <<h[a].ts>> \o Cached /\ Cleaned' = Cleaned
        \/ Cached' = Cached /\ Cleaned' = Cleaned \cup {h[a].ts}
    BY <1>0, <1>5, CacheEffects
  <2>5. Between' = Between /\ InIo' = InIo
    BY <2>1 DEF Between, InIo
  <2>6. /\ OnTheWay \subseteq OnTheWay' /\ h[a].ts \in OnTheWay' \cup Cleaned' /\ Cleaned \subseteq Cleaned'
    BY <2>2, <2>4, <2>5 DEF OnTheWay
  <2> QED
    BY <1>k, <2>1, <2>3, <2>6
<1>6. CASE DeleteInvalidItems
  <2>1. UNCHANGED <<io, rrd, com>> /\ ghost'.accepted = ghost.accepted /\ ghost'.failed = ghost.failed
    BY <1>0, <1>6, CleanFacts
  <2>2. Cached' = <<>> /\ Cleaned' = Cleaned \cup Range(Cached)
    BY <1>0, <1>6, CacheEffects
  <2>3. Between' = Between /\ InIo' = InIo
    BY <2>1 DEF Between, InIo
  <2>4. OnTheWay \subseteq OnTheWay' \cup Cleaned'
    BY <2>2, <2>3 DEF OnTheWay
  <2> QED
    BY <1>k, <2>1, <2>2, <2>4
<1>7. CASE FlushRRD \/ syncDiskEnds \/ GetRrd \/ Signal
  <2>1. UNCHANGED <<cache, rrd, ghost, io>>
    BY <1>7 DEF FlushRRD, syncDiskEnds, GetRrd, Signal
  <2>2c. PICK c \in Committers : \E r : ComMoved(c, r) /\ r.items = <<>> /\ com[c].items = <<>>
    BY <1>0, <1>7, ComKinds DEF ComStep
  <2>2. PICK r : ComMoved(c, r) /\ r.items = <<>> /\ com[c].items = <<>>
    BY <2>2c
  <2>3. Between' = Between
    BY <1>e, <2>2, BetweenFacts
  <2> QED
    BY <1>s, <2>1, <2>3 DEF InIo
<1>8. ASSUME NEW c \in Committers, PopAll(c) PROVE KeptInv'
  <2>1. UNCHANGED <<rrd, ghost, io>>
    BY <1>8 DEF PopAll
  <2>2. Cached' = <<>> /\ Cleaned' = Cleaned
    BY <1>0, <1>8, CacheEffects
  <2>3. PICK r : /\ ComMoved(c, r) /\ com[c].items = <<>>
                 /\ (Cached = <<>> \/ r.items = Reverse(Cached))
    BY <1>0, <1>8, PopMoves, ComKinds DEF ComStep
  <2>4. Range(Cached) \subseteq Range(r.items)
    BY <1>0, <1>e, <2>3, ReverseFacts
  <2>5. Between \subseteq Between' /\ Range(Cached) \subseteq Between'
    BY <1>e, <2>3, <2>4, BetweenFacts
  <2>6. OnTheWay \subseteq OnTheWay'
    BY <2>1, <2>5 DEF OnTheWay, InIo
  <2> QED
    BY <1>k, <2>1, <2>2, <2>6
<1>9. CASE ReadFile \/ \E c \in Committers : FlushFile(c)
  <2>1. UNCHANGED <<cache, rrd, ghost>>
    BY <1>9 DEF ReadFile, FlushFile
  <2>2c. PICK c \in Committers : \E r, t : SendStep(c, r, t)
    BY <1>0, <1>9, ComKinds
  <2>2. PICK r, t : SendStep(c, r, t)
    BY <2>2c
  <2>3. InIo' = InIo \cup Range(com[c].items)
    BY <1>0, <2>2, AppendTask DEF SendStep
  <2>4. Between \subseteq Between' \cup Range(com[c].items)
    BY <2>2, BetweenFacts DEF SendStep
  <2>5. Cached' = Cached /\ Cleaned' = Cleaned
    BY <2>1 DEF Cached, Cleaned
  <2>6. OnTheWay \subseteq OnTheWay'
    BY <2>3, <2>4, <2>5 DEF OnTheWay
  <2> QED
    BY <1>k, <2>1, <2>5, <2>6
<1>10. CASE flushrrd
  <2>1. cache' = cache
    BY <1>10 DEF flushrrd
  <2>2. /\ io # <<>> /\ io[1] \in FlushRec /\ io' = Tail(io)
        /\ \/ rrd'.pts = update(io[1].items) /\ ghost' = ghost
           \/ /\ rrd'.pts = rrd.pts /\ ghost'.failed = ghost.failed \cup Range(io[1].items)
              /\ ghost'.accepted = ghost.accepted /\ ghost'.gone = ghost.gone
    BY <1>0, <1>10, IoMoves
  <2>3. PICK s \in Seq(Times) : s = io[1].items
    BY <2>2 DEF FlushRec
  <2>4. InIo = InIo' \cup Range(s)
    BY <1>0, <2>2, <2>3, TailTask
  <2>5. Cached' = Cached /\ Cleaned' = Cleaned
    BY <2>1, <2>2, CleanedSame DEF Cached
  <2>6. Between \subseteq Between'
    <3>1c. PICK c \in Committers : \E r : DoneStep(c, r)
      BY <1>0, <1>10, ComKinds
    <3>1. PICK r : DoneStep(c, r)
      BY <3>1c
    <3>2. com[c].items = <<>>
      <4>1. 1 \in 1 .. Len(io)
        BY <1>0, <2>2, HeadTask
      <4> QED
        BY <1>0, <3>1, <4>1 DEF DoneStep, ChanInv
    <3> QED
      BY <1>e, <3>1, <3>2, BetweenFacts DEF DoneStep
  <2>7. \A p \in OnTheWay : p \in OnTheWay' \/ p \in Range(s)
    BY <2>4, <2>5, <2>6 DEF OnTheWay
  <2>8. CASE rrd'.pts = update(s) /\ ghost' = ghost
    <3>1. \A p \in Range(s) : p \in rrd'.pts \/ \E t \in rrd'.pts : t > p
      BY <1>0, <2>8, UpdateKeeps
    <3>2. rrd.pts \subseteq rrd'.pts
      BY <1>0, <2>8, UpdateWithin
    <3> QED
      BY <1>k, <2>5, <2>7, <2>8, <3>1, <3>2
  <2>9. CASE /\ rrd'.pts = rrd.pts /\ ghost'.failed = ghost.failed \cup Range(s)
             /\ ghost'.accepted = ghost.accepted
    BY <1>k, <2>5, <2>7, <2>9
  <2> QED
    BY <2>2, <2>3, <2>8, <2>9
<1>11. CASE ioRead
  <2>1. UNCHANGED <<cache, rrd, ghost>>
    BY <1>11 DEF ioRead
  <2>2c. PICK c \in Committers : \E r : DoneStep(c, r)
    BY <1>0, <1>11, ComKinds
  <2>2. PICK r : DoneStep(c, r)
    BY <2>2c
  <2>3. io # <<>> /\ io' = Tail(io) /\ io[1].m # "flush"
    BY <1>0, <1>11, HeadTask DEF ioRead, Working
  <2>4. io[1] \in TaskRec /\ 1 \in 1 .. Len(io)
    BY <1>0, <2>3, HeadTask
  <2>5. io[1].items = <<>>
    BY <2>3, <2>4, TaskKinds
  <2>6. InIo' = InIo
    BY <1>0, <1>e, <2>3, <2>5, TailTask
  <2>7. com[c].items = <<>> /\ r.items = <<>> /\ ComMoved(c, r)
    BY <1>0, <2>2, <2>4 DEF DoneStep, ChanInv
  <2>8. Between' = Between
    BY <1>e, <2>7, BetweenFacts
  <2> QED
    BY <1>s, <2>1, <2>6, <2>8
<1>12. CASE fetch
  <2>1. UNCHANGED <<cache, rrd, ghost, com>> /\ io # <<>> /\ io' = Tail(io) /\ io[1].m # "flush"
    BY <1>0, <1>12, HeadTask DEF fetch, Working
  <2>2. io[1].items = <<>>
    BY <1>0, <2>1, HeadTask, TaskKinds
  <2>3. InIo' = InIo
    BY <1>0, <1>e, <2>1, <2>2, TailTask
  <2> QED
    BY <1>s, <2>1, <2>3 DEF Between
<1>13. CASE Fetch
  <2>1. UNCHANGED <<cache, rrd, ghost, com>> /\ io' = Append(io, Task("fetch", "query", <<>>))
    BY <1>13 DEF Fetch
  <2>2. PICK t \in TaskRec : t = Task("fetch", "query", <<>>) /\ t.items = <<>>
    BY EmptyTasks
  <2>3. InIo' = InIo
    BY <1>0, <1>e, <2>1, <2>2, AppendTask
  <2> QED
    BY <1>s, <2>1, <2>3 DEF Between
<1> QED
  BY <1>1, <1>2, <1>3, <1>4, <1>5, <1>6, <1>7, <1>8, <1>9, <1>10, <1>11, <1>12, <1>13
     DEF Next, handleItems, CleanCache, CommitByKey, ioWorker, Query

\* With one handler at work, whatever syncDisk, GetRrd and the shutdown do
\* between each other, an accepted point is lost only in a flush that failed,
\* in a list that was cleaned away, or to a newer point in the file.
THEOREM AcceptedPointsKept == OneHandler /\ Spec => []AcceptedKept
<1>1. OneHandler /\ Init => KeptInv
  <2> SUFFICES ASSUME OneHandler, Init PROVE KeptInv
    OBVIOUS
  <2>1. ghost.accepted = {}
    BY DEF Init
  <2> QED
    BY <2>1, ListInvInit DEF KeptInv, AcceptedKept
<1>2. KeptInv => AcceptedKept
  BY DEF KeptInv
<1> QED
  BY <1>1, <1>2, KeptInvStep, PTL DEF Spec

----------------------------------------------------------------------------
(* The history behind Graph.Last: one handler at a time.                   *)

\* The handler has yet to look at the history, or is at a list of it.
BeforeHist == {"index", "file", "hget"}
NearHist   == BeforeHist \cup {"hfront", "hpush"}

\* Lists are in order.  The one ever made, as long as it is in the map, misses
\* no accepted point but the one the handler is at.
HistInv ==
    /\ TypeInv /\ OneHandler
    /\ \A l \in 1 .. Len(hist.lists) : Decreasing(hist.lists[l])
    /\ \A a \in Handlers : h[a].pc = "hpush" =>
         hist.lists[h[a].list] = <<>> \/ Head(hist.lists[h[a].list]) < h[a].ts
    /\ \A a \in Handlers : h[a].pc = "hput" =>
         /\ h[a].list = Len(hist.lists)
         /\ Len(hist.lists) = 1 => hist.lists[1] = <<>> /\ ghost.accepted \subseteq {h[a].ts}
    /\ Len(hist.lists) = 0 =>
         \A p \in ghost.accepted : \E a \in Handlers : h[a].ts = p /\ h[a].pc \in BeforeHist
    /\ Len(hist.lists) = 1 /\ hist.entry = 1 =>
         \A p \in ghost.accepted :
            \/ hist.lists[1] # <<>> /\ p <= Head(hist.lists[1])
            \/ \E a \in Handlers : h[a].ts = p /\ h[a].pc \in NearHist

\* A newer point in front, the rest cut: still newest first (PushFrontViolently).
LEMMA PushOrdered ==
    ASSUME NEW s \in Seq(Times), NEW t \in Seq(Times), Decreasing(s), NEW p \in Times,
           s = <<>> \/ Head(s) < p, Len(t) \in 1 .. Len(s) + 1, t[1] = p,
           \A i \in 1 .. Len(t) : i # 1 => t[i] = s[i - 1]
    PROVE  Decreasing(t)
<1>1. /\ Len(s) \in Nat /\ DOMAIN s = 1 .. Len(s) /\ \A i \in 1 .. Len(s) : s[i] \in Times
      /\ Len(t) \in Nat /\ DOMAIN t = 1 .. Len(t)
  BY LenProperties, ElementOfSeq
<1>2. ASSUME NEW i \in 1 .. Len(t), NEW j \in 1 .. Len(t), i < j PROVE t[i] > t[j]
  <2>1. j # 1 /\ j - 1 \in 1 .. Len(s) /\ t[j] = s[j - 1] /\ s[j - 1] \in Times
    BY <1>1, <1>2
  <2>2. CASE i = 1
    <3>1. s # <<>> /\ Head(s) = s[1] /\ s[1] \in Times /\ 1 \in 1 .. Len(s)
      BY <1>1, <2>1
    <3>2. s[1] >= s[j - 1]
      <4>1. CASE j - 1 = 1
        BY <3>1, <4>1 DEF Times
      <4>2. CASE j - 1 # 1
        <5>1. 1 \in DOMAIN s /\ j - 1 \in DOMAIN s /\ 1 < j - 1
          BY <1>1, <2>1, <3>1, <4>2
        <5>2. s[1] > s[j - 1]
          BY <5>1 DEF Decreasing
        <5>3. s[1] \in Int /\ s[j - 1] \in Int
          <6>1. Times \subseteq Int
            BY DEF Times
          <6>2. s[1] \in Times
            BY <3>1
          <6>3. s[j - 1] \in Times
            BY <2>1
          <6> QED
            BY <6>1, <6>2, <6>3
        <5> QED
          BY <5>2, <5>3
      <4> QED
        BY <4>1, <4>2
    <3> QED
      BY <2>1, <2>2, <3>1, <3>2 DEF Times
  <2>3. CASE i # 1
    <3>1. i - 1 \in 1 .. Len(s) /\ t[i] = s[i - 1] /\ i - 1 < j - 1
      BY <1>1, <1>2, <2>3
    <3> QED
      BY <1>1, <2>1, <3>1 DEF Decreasing
  <2> QED
    BY <2>2, <2>3
<1> QED
  BY <1>1, <1>2 DEF Decreasing

\* Preservation.
LEMMA HistInvStep == HistInv /\ [Next]_vars => HistInv'
<1> SUFFICES ASSUME HistInv, [Next]_vars PROVE HistInv'
  OBVIOUS
<1> USE DEF handVars, diskVars, readVars, downVars
<1>0. /\ TypeInv /\ TypeInv' /\ OneHandler /\ hist \in ListMap /\ ghost \in GhostRec
      /\ Len(hist.lists) \in Nat /\ hist.entry \in 0 .. Len(hist.lists)
  BY TypeInvStep, LenProperties DEF HistInv, TypeInv, ListMap
<1>1. \A l \in 1 .. Len(hist.lists) : Decreasing(hist.lists[l])
  BY DEF HistInv
<1>a. ASSUME NEW a \in Handlers
      PROVE  /\ \A b \in Handlers : b = a
             /\ h[a].ts \in Times
             /\ Len(hist.lists) = 0 =>
                  \A p \in ghost.accepted : h[a].ts = p /\ h[a].pc \in BeforeHist
             /\ Len(hist.lists) = 1 /\ hist.entry = 1 =>
                  \A p \in ghost.accepted : \/ hist.lists[1] # <<>> /\ p <= Head(hist.lists[1])
                                            \/ h[a].ts = p /\ h[a].pc \in NearHist
  <2>1. \A b \in Handlers : b = a
    BY <1>0 DEF OneHandler
  <2>2. h[a].ts \in Times
    BY <1>0 DEF TypeInv, HandRec
  <2> QED
    BY <2>1, <2>2 DEF HistInv
\* What has to be shown of a step of the handler.
<1>m. ASSUME NEW a \in Handlers, NEW r, Moved(a, r),
             \A l \in 1 .. Len(hist'.lists) : Decreasing(hist'.lists[l]),
             r.pc = "hpush" => hist'.lists[r.list] = <<>> \/ Head(hist'.lists[r.list]) < r.ts,
             r.pc = "hput" =>
               /\ r.list = Len(hist'.lists)
               /\ Len(hist'.lists) = 1 => hist'.lists[1] = <<>> /\ ghost'.accepted \subseteq {r.ts},
             Len(hist'.lists) = 0 =>
               \A p \in ghost'.accepted : r.ts = p /\ r.pc \in BeforeHist,
             Len(hist'.lists) = 1 /\ hist'.entry = 1 =>
               \A p \in ghost'.accepted : \/ hist'.lists[1] # <<>> /\ p <= Head(hist'.lists[1])
                                          \/ r.ts = p /\ r.pc \in NearHist
      PROVE  HistInv'
  <2>1. h'[a] = r /\ \A b \in Handlers : h'[b] = r
    BY <1>a, <1>m DEF Moved
  <2>2. OneHandler'
    BY <1>0 DEF OneHandler
  <2> QED
    BY <1>0, <1>m, <2>1, <2>2 DEF HistInv
<1>s. CASE UNCHANGED <<h, hist>> /\ ghost'.accepted = ghost.accepted
  BY <1>0, <1>s DEF HistInv, OneHandler
<1>2. ASSUME NEW a \in Handlers, Send(a) \/ First(a) \/ GetHit(a) \/ GetMiss(a) PROVE HistInv'
  <2>1. UNCHANGED <<hist, ghost>>
    BY <1>2 DEF Send, First, GetHit, GetMiss
  <2>2. PICK r : /\ Moved(a, r) /\ h[a].pc \in {"idle", "first", "get"}
                 /\ r.pc \in {"idle", "first", "get", "set", "push"}
    BY <1>0, <1>2, HandlerMoves
  <2>3. h[a].pc \notin BeforeHist /\ h[a].pc \notin NearHist
    BY <2>2 DEF BeforeHist, NearHist
  <2> QED
    BY <1>1, <1>a, <1>m, <2>1, <2>2, <2>3
<1>3. ASSUME NEW a \in Handlers, Set(a) \/ PushFront(a) PROVE HistInv'
  <2>1. hist' = hist /\ Accept(h[a].ts) /\ h[a].ts \in Times
    BY <1>a, <1>3 DEF Set, PushFront
  <2>2. PICK r : Moved(a, r) /\ h[a].pc \in {"set", "push"} /\ r.pc = "index" /\ r.ts = h[a].ts
    BY <1>0, <1>3, HandlerMoves
  <2>3. ghost'.accepted = ghost.accepted \cup {h[a].ts}
    BY <1>0, <2>1, AcceptFacts
  <2>4. h[a].pc \notin BeforeHist /\ h[a].pc \notin NearHist /\ r.pc \in BeforeHist /\ r.pc \in NearHist
    BY <2>2 DEF BeforeHist, NearHist
  <2> QED
    BY <1>1, <1>a, <1>m, <2>1, <2>2, <2>3, <2>4
<1>4. ASSUME NEW a \in Handlers, IndexHit(a) \/ IndexMiss(a) PROVE HistInv'
  <2>1. UNCHANGED <<hist, ghost>>
    BY <1>4 DEF IndexHit, IndexMiss
  <2>2. PICK r : Moved(a, r) /\ r.pc \in {"hget", "file"} /\ r.ts = h[a].ts
    BY <1>0, <1>4, HandlerMoves
  <2>3. r.pc \in BeforeHist /\ r.pc \in NearHist
    BY <2>2 DEF BeforeHist, NearHist
  <2> QED
    BY <1>1, <1>a, <1>m, <2>1, <2>2, <2>3
<1>5. ASSUME NEW a \in Handlers, HistoryGet(a) PROVE HistInv'
  <2>0. ghost' = ghost
    BY <1>5 DEF HistoryGet
  <2>1. PICK r : /\ Moved(a, r) /\ r.ts = h[a].ts
                 /\ IF hist.entry # NoList THEN r.pc = "hfront" /\ r.list = hist.entry
                    ELSE r.pc = "hput" /\ r.list = Len(hist.lists) + 1
    BY <1>0, <1>5, HistoryMoves
  <2>2. CASE hist.entry # NoList
    <3>1. hist' = hist /\ r.pc = "hfront" /\ r.pc \in NearHist /\ Len(hist.lists) # 0
      BY <1>0, <1>5, <2>1, <2>2 DEF HistoryGet, NearHist, NoList
    <3> QED
      BY <1>1, <1>a, <1>m, <2>0, <2>1, <3>1
  <2>3. CASE hist.entry = NoList
    <3>1. /\ hist'.entry = hist.entry /\ Len(hist'.lists) = Len(hist.lists) + 1
          /\ \A k \in 1 .. Len(hist.lists) : hist'.lists[k] = hist.lists[k]
          /\ hist'.lists[Len(hist.lists) + 1] = <<>>
      <4>1. PICK z \in Seq(Times) : z = <<>>
        BY EmptySeq
      <4>2. hist' = NewList(hist, z)
        BY <1>5, <2>3, <4>1 DEF HistoryGet
      <4> QED
        BY <1>0, <4>1, <4>2, NewListFacts
    <3>2. Decreasing(<<>>)
      BY DEF Decreasing
    <3>3. \A l \in 1 .. Len(hist'.lists) : Decreasing(hist'.lists[l])
      <4>1. \A l \in 1 .. Len(hist'.lists) : l \in 1 .. Len(hist.lists) \/ l = Len(hist.lists) + 1
        BY <1>0, <3>1
      <4> QED
        BY <1>1, <3>1, <3>2, <4>1
    <3>4. r.pc = "hput" /\ r.list = Len(hist'.lists) /\ Len(hist'.lists) # 0 /\ hist'.entry # 1
      BY <1>0, <2>1, <2>3, <3>1 DEF NoList
    <3>5. Len(hist'.lists) = 1 => Len(hist.lists) = 0 /\ hist'.lists[1] = <<>>
      BY <1>0, <3>1
    <3>6. Len(hist'.lists) = 1 => ghost.accepted \subseteq {r.ts}
      BY <1>a, <2>1, <3>5
    <3> QED
      BY <1>m, <2>0, <2>1, <3>3, <3>4, <3>5, <3>6
  <2> QED
    BY <2>2, <2>3
<1>6. ASSUME NEW a \in Handlers, HistoryPut(a) PROVE HistInv'
  <2>1. ghost' = ghost
    BY <1>6 DEF HistoryPut
  <2>2. PICK r : /\ Moved(a, r) /\ h[a].pc = "hput" /\ r.pc = "hfront"
                 /\ r.ts = h[a].ts /\ r.list = h[a].list
    BY <1>0, <1>6, HistoryMoves
  <2>3. /\ h[a].list = Len(hist.lists) /\ h[a].list \in 1 .. Len(hist.lists)
        /\ Len(hist.lists) = 1 => ghost.accepted \subseteq {h[a].ts}
    BY <1>0, <2>2 DEF HistInv, TypeInv
  <2>4. hist'.lists = hist.lists
    <3>1. PICK e \in 0 .. Len(hist.lists) : e = h[a].list
      BY <1>0, <2>3
    <3>2. hist' = [hist EXCEPT !.entry = e]
      BY <1>6, <3>1 DEF HistoryPut
    <3> QED
      BY <1>0, <3>2, EntryFacts
  <2>5. r.pc \in NearHist /\ Len(hist.lists) # 0
    BY <1>0, <2>2, <2>3 DEF NearHist
  <2> QED
    BY <1>1, <1>m, <2>1, <2>2, <2>3, <2>4, <2>5
<1>7. ASSUME NEW a \in Handlers, HistoryFront(a) PROVE HistInv'
  <2>1. UNCHANGED <<hist, ghost>>
    BY <1>7 DEF HistoryFront
  <2>2. PICK r : /\ Moved(a, r) /\ h[a].pc = "hfront"
                 /\ LET s == hist.lists[h[a].list]
                    IN  IF s = <<>> \/ Head(s) < h[a].ts
                        THEN r.pc = "hpush" /\ r.ts = h[a].ts /\ r.list = h[a].list
                        ELSE r.pc = "idle"
    BY <1>0, <1>7, HistoryMoves
  <2>3. h[a].list \in 1 .. Len(hist.lists) /\ Len(hist.lists) # 0
    BY <1>0, <2>2 DEF TypeInv
  <2>4. PICK s \in Seq(Times) : s = hist.lists[h[a].list]
    BY <1>0, <2>3, HeldList
  <2>5. CASE s = <<>> \/ Head(s) < h[a].ts
    <3>1. r.pc = "hpush" /\ r.ts = h[a].ts /\ r.list = h[a].list
      BY <2>2, <2>4, <2>5
    <3>2. r.pc \in NearHist
      BY <3>1 DEF NearHist
    <3> QED
      BY <1>1, <1>a, <1>m, <2>1, <2>2, <2>3, <2>4, <2>5, <3>1, <3>2
  <2>6. CASE ~(s = <<>> \/ Head(s) < h[a].ts)
    <3>1. r.pc = "idle" /\ s # <<>> /\ h[a].ts <= Head(s)
      <4>1. r.pc = "idle" /\ s # <<>> /\ ~(Head(s) < h[a].ts)
        BY <2>2, <2>4, <2>6
      <4>2. Head(s) \in Times /\ h[a].ts \in Times
        BY <1>a, <4>1, HeadTailProperties
      <4> QED
        BY <4>1, <4>2 DEF Times
    <3>2. Len(hist.lists) = 1 => s = hist.lists[1]
      BY <2>3, <2>4
    <3> QED
      BY <1>1, <1>a, <1>m, <2>1, <2>2, <2>3, <3>1, <3>2
  <2> QED
    BY <2>5, <2>6
<1>8. ASSUME NEW a \in Handlers, HistoryPush(a) PROVE HistInv'
  <2>1. ghost' = ghost
    BY <1>8 DEF HistoryPush
  <2>2. PICK r : Moved(a, r) /\ h[a].pc = "hpush" /\ r.pc = "idle"
    BY <1>0, <1>8, HistoryMoves
  <2>3. PICK l \in 1 .. Len(hist.lists) : l = h[a].list
    BY <1>0, <1>8, HistoryPushFacts
  <2>4. PICK s \in Seq(Times), t \in Seq(Times) : s = hist.lists[l] /\ t = hist'.lists[l]
    BY <1>0, <1>8, <2>3, HistoryPushFacts
  <2>5. /\ hist'.entry = hist.entry /\ Len(hist'.lists) = Len(hist.lists)
        /\ \A k \in 1 .. Len(hist.lists) : k # l => hist'.lists[k] = hist.lists[k]
    BY <1>0, <1>8, <2>3, HistoryPushFacts
  <2>6. /\ Len(t) \in 1 .. Len(s) + 1 /\ t[1] = h[a].ts
        /\ \A i \in 1 .. Len(t) : i # 1 => t[i] = s[i - 1]
    BY <1>0, <1>8, <2>3, <2>4, HistoryPushFacts
  <2>7. s = <<>> \/ Head(s) < h[a].ts
    BY <2>2, <2>3, <2>4 DEF HistInv
  <2>8. Decreasing(s) /\ h[a].ts \in Times
    BY <1>1, <1>a, <2>3, <2>4
  <2>9. Decreasing(t)
    BY <2>6, <2>7, <2>8, PushOrdered
  <2>10. \A k \in 1 .. Len(hist'.lists) : Decreasing(hist'.lists[k])
    BY <1>1, <2>4, <2>5, <2>9
  <2>11. Len(s) \in Nat /\ Len(t) \in Nat
    BY LenProperties
  <2>12. t # <<>> /\ Head(t) = h[a].ts
    BY <2>6, <2>11
  <2>13. ASSUME Len(hist.lists) = 1, hist.entry = 1, NEW p \in ghost.accepted PROVE p <= Head(t)
    <3>1. s = hist.lists[1] /\ p \in Times
      BY <1>0, <2>3, <2>4, <2>13 DEF GhostRec
    <3>2. CASE h[a].ts = p
      BY <2>8, <2>12, <3>2 DEF Times
    <3>3. CASE h[a].ts # p
      <4>1. s # <<>> /\ p <= Head(s)
        BY <1>a, <2>13, <3>1, <3>3
      <4>2. Head(s) \in Times /\ Head(s) < h[a].ts
        BY <2>7, <4>1, HeadTailProperties
      <4>3. PICK u \in Times, v \in Times : u = Head(s) /\ v = h[a].ts
        BY <2>8, <4>2
      <4>4. p <= u /\ u < v
        BY <4>1, <4>2, <4>3
      <4>5. p <= v
        BY <3>1, <4>4 DEF Times
      <4> QED
        BY <2>12, <4>3, <4>5
    <3> QED
      BY <3>2, <3>3
  <2>14. Len(hist.lists) # 0 /\ (Len(hist.lists) = 1 => t = hist'.lists[1])
    BY <2>3, <2>4
  <2> QED
    BY <1>m, <2>1, <2>2, <2>5, <2>10, <2>12, <2>13, <2>14
<1>9. CASE DeleteInvalidHistory
  <2>1. UNCHANGED <<h, ghost>>
    BY <1>9 DEF DeleteInvalidHistory
  <2>2. hist'.lists = hist.lists /\ hist'.entry = 0
    <3>1. PICK e \in 0 .. Len(hist.lists) : e = 0
      BY <1>0
    <3>2. hist' = [hist EXCEPT !.entry = e]
      BY <1>9, <3>1 DEF DeleteInvalidHistory, NoList
    <3> QED
      BY <1>0, <3>1, <3>2, EntryFacts
  <2> QED
    BY <1>0, <2>1, <2>2 DEF HistInv, OneHandler
<1>10. CASE \/ updateIndexIncr \/ updateIndexFromOneItem \/ CleanLook
            \/ FlushRRD \/ syncDiskEnds \/ GetRrd \/ ReadFile
            \/ (\E c \in Committers : CommitByKey(c))
            \/ ioRead \/ fetch \/ Query \/ Signal \/ CloseConns \/ Exit \/ Quiescent \/ UNCHANGED vars
  BY <1>s, <1>10 DEF updateIndexIncr, updateIndexFromOneItem, CleanLook, FlushRRD, syncDiskEnds,
     GetRrd, ReadFile, CommitByKey, PopAll, FlushFile, ioRead, fetch, Query, FetchAll, Fetch,
     QueryReturns, Signal, CloseConns, Exit, Quiescent, vars
<1>11. CASE DeleteInvalidItems
  <2>1. UNCHANGED <<h, hist>> /\ ghost' = [ghost EXCEPT !.gone = @ \cup {cache.entry}]
    BY <1>11 DEF DeleteInvalidItems
  <2>2. ghost'.accepted = ghost.accepted
    BY <1>0, <2>1 DEF GhostRec
  <2> QED
    BY <1>s, <2>1, <2>2
<1>12. CASE flushrrd
  <2>1. ghost'.accepted = ghost.accepted
    BY <1>0, <1>12, IoMoves
  <2> QED
    BY <1>s, <1>12, <2>1 DEF flushrrd
<1> QED
  BY <1>2, <1>3, <1>4, <1>5, <1>6, <1>7, <1>8, <1>9, <1>10, <1>11, <1>12
     DEF Next, handleItems, AddItem, CleanCache, ioWorker

\* With one handler at work, the history is always newest first, and Graph.Last
\* answers with the newest point accepted, late points and cleanings included
\* (AddItem, GetLast).
THEOREM LastAnswersNewest == OneHandler /\ Spec => []LastIsNewest
<1>1. OneHandler /\ Init => HistInv
  <2> SUFFICES ASSUME OneHandler, Init PROVE HistInv
    OBVIOUS
  <2>1. /\ ghost.accepted = {} /\ hist.lists = <<>>
        /\ \A a \in Handlers : h[a].pc = "idle"
    BY DEF Init, IdleHand, Nothing
  <2> QED
    BY <2>1, TypeInvInit DEF HistInv
<1>2. HistInv => LastIsNewest
  <2> SUFFICES ASSUME HistInv PROVE LastIsNewest
    OBVIOUS
  <2>1. hist \in ListMap /\ ghost \in GhostRec
    BY DEF HistInv, TypeInv
  <2>2. DOMAIN hist.lists = 1 .. Len(hist.lists)
    BY <2>1, LenProperties DEF ListMap
  <2>3. ASSUME Len(hist.lists) = 1, hist.entry = 1, \A a \in Handlers : h[a].pc = "idle",
               NEW p \in ghost.accepted
        PROVE  Head(hist.lists[1]) >= p
    <3>1. "idle" \notin NearHist
      BY DEF NearHist, BeforeHist
    <3>2. hist.lists[1] # <<>> /\ p <= Head(hist.lists[1])
      BY <2>3, <3>1 DEF HistInv
    <3>3. hist.lists[1] \in Seq(Times) /\ p \in Times
      BY <2>1, <2>3, HeldList DEF GhostRec
    <3>4. Head(hist.lists[1]) \in Times
      BY <3>2, <3>3, HeadTailProperties
    <3> QED
      BY <3>2, <3>3, <3>4 DEF Times
  <2> QED
    BY <2>2, <2>3 DEF HistInv, LastIsNewest
<1> QED
  BY <1>1, <1>2, HistInvStep, PTL DEF Spec

----------------------------------------------------------------------------
(* One handler and one committer: points move in order.                    *)

OneCommitter == \A c, d \in Committers : c = d

Increasing(s) == \A i, j \in DOMAIN s : i < j => s[i] < s[j]
Flight        == Between \cup InIo

\* The handler's point is newer than the list it is going to.
Newer(a) ==
    h[a].pc = "get" \/ (h[a].pc = "push" /\ h[a].list = cache.entry)
      => Cached = <<>> \/ Head(Cached) < h[a].ts

\* The list is newest first, what is taken out of it oldest first.
OrderInv ==
    /\ ListInv /\ OneCommitter /\ ~Fails
    /\ Decreasing(Cached)
    /\ \A a \in Handlers : Newer(a)
    /\ \A c \in Committers : Increasing(com[c].items)
    /\ \A k \in 1 .. Len(io) : Increasing(io[k].items)

\* Oldest first (PopAll).
LEMMA ReverseOrder ==
    ASSUME NEW s \in Seq(Times), Decreasing(s)
    PROVE  Increasing(Reverse(s))
<1>1. /\ Len(s) \in Nat /\ DOMAIN s = 1 .. Len(s) /\ \A i \in 1 .. Len(s) : s[i] \in Times
  BY LenProperties, ElementOfSeq
<1>2. PICK t \in Seq(Times) : t = Reverse(s)
  BY ReverseFacts
<1>3. Len(t) = Len(s) /\ \A i \in 1 .. Len(s) : t[i] = s[Len(s) - i + 1]
  BY <1>2, ReverseFacts
<1>4. DOMAIN t = 1 .. Len(s)
  BY <1>1, <1>3, LenProperties
<1>5. ASSUME NEW i \in 1 .. Len(s), NEW j \in 1 .. Len(s), i < j PROVE t[i] < t[j]
  <2>0. /\ Len(s) - i + 1 \in 1 .. Len(s) /\ Len(s) - j + 1 \in 1 .. Len(s)
        /\ Len(s) - j + 1 < Len(s) - i + 1
    BY <1>1, <1>5
  <2>1. PICK m \in 1 .. Len(s), n \in 1 .. Len(s) : m = Len(s) - i + 1 /\ n = Len(s) - j + 1
    BY <2>0
  <2>2. s[n] > s[m]
    BY <1>1, <2>0, <2>1 DEF Decreasing
  <2>3. s[m] \in Times /\ s[n] \in Times /\ t[i] = s[m] /\ t[j] = s[n]
    BY <1>1, <1>3, <2>1
  <2> QED
    BY <2>2, <2>3 DEF Times
<1> QED
  BY <1>2, <1>4, <1>5 DEF Increasing

\* A newer point in front (PushFront).
LEMMA ConsOrder ==
    ASSUME NEW s \in Seq(Times), NEW p \in Times, Decreasing(s), s = <<>> \/ Head(s) < p
    PROVE  Decreasing(<<p>> \o s)
<1>0. Len(s) \in Nat
  BY LenProperties
<1>1. PICK t \in Seq(Times) :
        /\ t = <<p>> \o s /\ Len(t) = Len(s) + 1 /\ t[1] = p
        /\ \A i \in 1 .. Len(s) : t[i + 1] = s[i]
  <2>1. /\ <<p>> \o s \in Seq(Times) /\ Len(<<p>> \o s) = Len(s) + 1 /\ (<<p>> \o s)[1] = p
        /\ \A i \in 1 .. Len(s) : (<<p>> \o s)[i + 1] = s[i]
    BY ConsFacts
  <2> QED
    BY <2>1, Zenon
<1>2. \A i \in 1 .. Len(t) : i # 1 => t[i] = s[i - 1]
  <2>1. \A i \in 1 .. Len(t) : i # 1 => i - 1 \in 1 .. Len(s) /\ (i - 1) + 1 = i
    BY <1>0, <1>1
  <2> QED
    BY <1>1, <2>1
<1>3. Len(t) \in 1 .. Len(s) + 1
  BY <1>0, <1>1
<1>4. Decreasing(t)
  BY <1>1, <1>2, <1>3, PushOrdered
<1> QED
  BY <1>1, <1>4

\* Empty and one-point lists are in order.
LEMMA ShortOrder ==
    /\ Decreasing(<<>>) /\ Increasing(<<>>)
    /\ \A p \in Times : Decreasing(<<p>>)
<1>1. Decreasing(<<>>) /\ Increasing(<<>>)
  BY DEF Decreasing, Increasing
<1>2. ASSUME NEW p \in Times PROVE Decreasing(<<p>>)
  <2>1. DOMAIN <<p>> = 1 .. 1
    OBVIOUS
  <2>2. \A i, j \in 1 .. 1 : ~(i < j)
    OBVIOUS
  <2> QED
    BY <2>1, <2>2 DEF Decreasing
<1> QED
  BY <1>1, <1>2

\* Preservation.
LEMMA OrderInvStep == OrderInv /\ [Next]_vars => OrderInv'
<1> SUFFICES ASSUME OrderInv, [Next]_vars PROVE OrderInv'
  OBVIOUS
<1> USE DEF handVars, diskVars, readVars, downVars
<1>0. /\ ListInv /\ ListInv' /\ ChanInv /\ TypeInv /\ io \in Seq(TaskRec) /\ OneCommitter /\ OneHandler /\ ~Fails
      /\ Cached \in Seq(Times) /\ com \in [Committers -> ComRec]
  BY ListInvStep, CacheEffects DEF OrderInv, ListInv, ChanInv, TypeInv
<1>1. /\ Decreasing(Cached) /\ \A a \in Handlers : Newer(a)
      /\ \A c \in Committers : Increasing(com[c].items)
      /\ \A k \in 1 .. Len(io) : Increasing(io[k].items)
  BY DEF OrderInv
<1>c. ASSUME Decreasing(Cached)', \A a \in Handlers : Newer(a)',
             \A c \in Committers : Increasing(com'[c].items),
             \A k \in 1 .. Len(io') : Increasing(io'[k].items)
      PROVE  OrderInv'
  BY <1>0, <1>c DEF OrderInv, OneCommitter
\* The handler moves, with the cache as it was or with another front.
<1>h. ASSUME NEW a \in Handlers, NEW r, Moved(a, r), UNCHANGED <<com, io>>, Decreasing(Cached)',
             r.pc = "get" \/ (r.pc = "push" /\ r.list = cache'.entry)
               => Cached' = <<>> \/ Head(Cached)' < r.ts
      PROVE  OrderInv'
  <2>1. \A b \in Handlers : h'[b] = r
    BY <1>0, <1>h DEF Moved, OneHandler
  <2>2. \A b \in Handlers : Newer(b)'
    BY <1>h, <2>1 DEF Newer
  <2> QED
    BY <1>1, <1>c, <1>h, <2>2
\* No handler moves, and the list in the map is as it was or empty.
<1>s. ASSUME h' = h, \/ cache' = cache \/ Cached' = <<>>,
             \A c \in Committers : Increasing(com'[c].items),
             \A k \in 1 .. Len(io') : Increasing(io'[k].items)
      PROVE  OrderInv'
  <2>1. CASE cache' = cache
    <3>1. Cached' = Cached
      BY <2>1 DEF Cached
    <3>2. Decreasing(Cached)'
      BY <1>1, <3>1
    <3>3. \A a \in Handlers : Newer(a)'
      BY <1>1, <1>s, <2>1, <3>1 DEF Newer
    <3> QED
      BY <1>c, <1>s, <3>2, <3>3
  <2>2. CASE Cached' = <<>>
    <3>1. Decreasing(Cached)'
      BY <2>2, ShortOrder
    <3>2. \A a \in Handlers : Newer(a)'
      BY <2>2 DEF Newer
    <3> QED
      BY <1>c, <1>s, <3>1, <3>2
  <2> QED
    BY <1>s, <2>1, <2>2
<1>2. ASSUME NEW a \in Handlers,
             \/ Send(a) \/ First(a) \/ GetHit(a) \/ GetMiss(a)
             \/ IndexHit(a) \/ IndexMiss(a) \/ AddItem(a)
      PROVE  OrderInv'
  <2>1. UNCHANGED <<com, io>>
    BY <1>2 DEF Send, First, GetHit, GetMiss, IndexHit, IndexMiss, AddItem,
       HistoryGet, HistoryPut, HistoryFront, HistoryPush
  <2>2. Cached' = Cached
    <3>1. CASE GetMiss(a)
      BY <1>0, <3>1, CacheEffects
    <3>2. CASE ~GetMiss(a)
      BY <1>2, <3>2 DEF Send, First, GetHit, IndexHit, IndexMiss, AddItem,
         HistoryGet, HistoryPut, HistoryFront, HistoryPush, Cached
    <3> QED
      BY <3>1, <3>2
  <2>3. PICK r : /\ Moved(a, r)
                 /\ r.pc = "get" => ~Old(a) /\ r.ts = h[a].ts
                 /\ r.pc = "push" => h[a].pc = "get" /\ r.ts = h[a].ts
    <3>1. CASE First(a)
      BY <1>0, <3>1, HandlerMoves
    <3>2. CASE ~First(a)
      BY <1>0, <1>2, <3>2, HandlerMoves, HistoryMoves DEF AddItem
    <3> QED
      BY <3>1, <3>2
  <2>4. ASSUME r.pc = "get" PROVE Cached = <<>> \/ Head(Cached) < r.ts
    <3>1. Cached = <<>> \/ ~(h[a].ts <= Head(Cached))
      BY <2>3, <2>4 DEF Old
    <3>2. h[a].ts \in Times /\ (Cached # <<>> => Head(Cached) \in Times)
      BY <1>0, HeadTailProperties DEF TypeInv, HandRec
    <3>3. Cached = <<>> \/ Head(Cached) < h[a].ts
      BY <3>1, <3>2 DEF Times
    <3> QED
      BY <2>3, <2>4, <3>3
  <2>5. ASSUME r.pc = "push" PROVE Cached = <<>> \/ Head(Cached) < r.ts
    BY <1>1, <2>3, <2>5 DEF Newer
  <2> QED
    BY <1>1, <1>h, <2>1, <2>2, <2>3, <2>4, <2>5
<1>3. ASSUME NEW a \in Handlers, Set(a) PROVE OrderInv'
  <2>1. UNCHANGED <<com, io>> /\ h[a].ts \in Times
    BY <1>0, <1>3, SetFacts DEF Set
  <2>2. Cached' = <<h[a].ts>>
    BY <1>0, <1>3, CacheEffects
  <2>3. PICK r : Moved(a, r) /\ r.pc = "index"
    BY <1>0, <1>3, HandlerMoves
  <2>4. Decreasing(Cached)'
    BY <2>1, <2>2, ShortOrder
  <2> QED
    BY <1>h, <2>1, <2>3, <2>4
<1>4. ASSUME NEW a \in Handlers, PushFront(a) PROVE OrderInv'
  <2>1. UNCHANGED <<com, io>> /\ h[a].ts \in Times /\ h[a].pc = "push"
    BY <1>0, <1>4, PushFacts DEF PushFront, At
  <2>2. PICK r : Moved(a, r) /\ r.pc = "index"
    BY <1>0, <1>4, HandlerMoves
  <2>3. Decreasing(Cached)'
    <3>1. CASE h[a].list = cache.entry
      <4>1. Cached = <<>> \/ Head(Cached) < h[a].ts
        BY <1>1, <2>1, <3>1 DEF Newer
      <4>2. Cached' = <<h[a].ts>> \o Cached
        BY <1>0, <1>4, <3>1, CacheEffects
      <4>3. Decreasing(<<h[a].ts>> \o Cached)
        BY <1>0, <1>1, <2>1, <4>1, ConsOrder
      <4> QED
        BY <4>2, <4>3
    <3>2. CASE h[a].list # cache.entry
      <4>1. Cached' = Cached
        BY <1>0, <1>4, <3>2, CacheEffects
      <4> QED
        BY <1>1, <4>1
    <3> QED
      BY <3>1, <3>2
  <2> QED
    BY <1>h, <2>1, <2>2, <2>3
<1>5. CASE \/ updateIndexIncr \/ updateIndexFromOneItem \/ CleanCache
           \/ FetchAll \/ QueryReturns \/ CloseConns \/ Exit \/ Quiescent \/ UNCHANGED vars
  <2>1. UNCHANGED <<h, com, io>>
    BY <1>5 DEF updateIndexIncr, updateIndexFromOneItem, CleanCache, CleanLook, DeleteInvalidItems,
       DeleteInvalidHistory, FetchAll, QueryReturns, CloseConns, Exit, Quiescent, vars
  <2>2. \/ cache' = cache \/ Cached' = <<>>
    <3>1. CASE DeleteInvalidItems
      BY <1>0, <3>1, CacheEffects
    <3>2. CASE ~DeleteInvalidItems
      BY <1>5, <3>2 DEF updateIndexIncr, updateIndexFromOneItem, CleanCache, CleanLook,
         DeleteInvalidHistory, FetchAll, QueryReturns, CloseConns, Exit, Quiescent, vars
    <3> QED
      BY <3>1, <3>2
  <2> QED
    BY <1>1, <1>s, <2>1, <2>2
<1>6. CASE FlushRRD \/ syncDiskEnds \/ GetRrd \/ Signal
  <2>1. UNCHANGED <<h, cache, io>>
    BY <1>6 DEF FlushRRD, syncDiskEnds, GetRrd, Signal
  <2>2c. PICK c \in Committers : \E r : ComMoved(c, r) /\ r.items = <<>>
    BY <1>0, <1>6, ComKinds DEF ComStep
  <2>2. PICK r : ComMoved(c, r) /\ r.items = <<>>
    BY <2>2c
  <2>3. \A d \in Committers : Increasing(com'[d].items)
    BY <1>1, <2>2, ShortOrder DEF ComMoved
  <2> QED
    BY <1>1, <1>s, <2>1, <2>3
<1>7. ASSUME NEW c \in Committers, PopAll(c) PROVE OrderInv'
  <2>1. UNCHANGED <<h, io>>
    BY <1>7 DEF PopAll
  <2>2. Cached' = <<>>
    BY <1>0, <1>7, CacheEffects
  <2>3. PICK r : ComMoved(c, r) /\ (r.items = <<>> \/ r.items = Reverse(Cached))
    BY <1>0, <1>7, ComKinds DEF ComStep
  <2>4. Increasing(r.items)
    BY <1>0, <1>1, <2>3, ReverseOrder, ShortOrder
  <2>5. \A d \in Committers : Increasing(com'[d].items)
    BY <1>1, <2>3, <2>4 DEF ComMoved
  <2> QED
    BY <1>1, <1>s, <2>1, <2>2, <2>5
<1>8. CASE ReadFile \/ \E c \in Committers : FlushFile(c)
  <2>1. UNCHANGED <<h, cache>>
    BY <1>8 DEF ReadFile, FlushFile
  <2>2c. PICK c \in Committers : \E r, t : SendStep(c, r, t)
    BY <1>0, <1>8, ComKinds
  <2>2. PICK r, t : SendStep(c, r, t)
    BY <2>2c
  <2>3. \A d \in Committers : Increasing(com'[d].items)
    BY <1>1, <2>2, ShortOrder DEF SendStep, ComMoved
  <2>4. t \in TaskRec /\ io' = Append(io, t) /\ t.items = com[c].items
    BY <2>2 DEF SendStep
  <2>5. /\ Len(io) \in Nat /\ Len(io') = Len(io) + 1 /\ io'[Len(io) + 1] = t
        /\ \A k \in 1 .. Len(io) : io'[k] = io[k]
    BY <1>0, <2>4, AppendTask
  <2>6. \A k \in 1 .. Len(io') : k \in 1 .. Len(io) \/ k = Len(io) + 1
    BY <2>5
  <2>7. \A k \in 1 .. Len(io') : Increasing(io'[k].items)
    BY <1>1, <2>4, <2>5, <2>6
  <2> QED
    BY <1>s, <2>1, <2>3, <2>7
<1>9. CASE flushrrd \/ ioRead \/ fetch
  <2>1. UNCHANGED <<h, cache>> /\ io # <<>> /\ io' = Tail(io)
    BY <1>9 DEF flushrrd, ioRead, fetch, Working
  <2>2. /\ Len(io) \in Nat \ {0} /\ Len(io') = Len(io) - 1
        /\ \A k \in 1 .. Len(io) - 1 : io'[k] = io[k + 1]
    BY <1>0, <2>1, TailTask
  <2>3. \A k \in 1 .. Len(io') : k + 1 \in 1 .. Len(io) /\ io'[k] = io[k + 1]
    BY <2>2
  <2>4. \A k \in 1 .. Len(io') : Increasing(io'[k].items)
    BY <1>1, <2>3
  <2>5. \A d \in Committers : Increasing(com'[d].items)
    <3>1. CASE fetch
      BY <1>1, <3>1 DEF fetch
    <3>2. CASE flushrrd \/ ioRead
      <4>1c. PICK c \in Committers : \E r : ComMoved(c, r) /\ r.items = <<>>
        BY <1>0, <3>2, ComKinds DEF DoneStep
      <4>1. PICK r : ComMoved(c, r) /\ r.items = <<>>
        BY <4>1c
      <4> QED
        BY <1>1, <4>1, ShortOrder DEF ComMoved
    <3> QED
      BY <1>9, <3>1, <3>2
  <2> QED
    BY <1>s, <2>1, <2>4, <2>5
<1>10. CASE Fetch
  <2>1. UNCHANGED <<h, cache, com>> /\ io' = Append(io, Task("fetch", "query", <<>>))
    BY <1>10 DEF Fetch
  <2>2. PICK t \in TaskRec : t = Task("fetch", "query", <<>>) /\ t.items = <<>>
    BY EmptyTasks
  <2>3. /\ Len(io) \in Nat /\ Len(io') = Len(io) + 1 /\ io'[Len(io) + 1] = t
        /\ \A k \in 1 .. Len(io) : io'[k] = io[k]
    BY <1>0, <2>1, <2>2, AppendTask
  <2>4. \A k \in 1 .. Len(io') : k \in 1 .. Len(io) \/ k = Len(io) + 1
    BY <2>3
  <2>5. \A k \in 1 .. Len(io') : Increasing(io'[k].items)
    BY <1>1, <2>2, <2>3, <2>4, ShortOrder
  <2> QED
    BY <1>1, <1>s, <2>1, <2>5
<1> QED
  BY <1>2, <1>3, <1>4, <1>5, <1>6, <1>7, <1>8, <1>9, <1>10
     DEF Next, handleItems, CommitByKey, ioWorker, Query

\* A committer that neither sends nor waits has nothing underway.
LEMMA FlightEmpty ==
    ChanInv /\ (\A c \in Committers : com[c].pc \notin {"send", "wait"}) => Flight = {}
<1> SUFFICES ASSUME ChanInv, \A c \in Committers : com[c].pc \notin {"send", "wait"}
             PROVE  Flight = {}
  OBVIOUS
<1>1. io \in Seq(TaskRec) /\ DOMAIN io = 1 .. Len(io)
  BY LenProperties DEF ChanInv, TypeInv
<1>2. \A c \in Committers : Range(com[c].items) = {}
  BY EmptyRange DEF ChanInv
<1>3. ASSUME NEW k \in 1 .. Len(io) PROVE Range(io[k].items) = {}
  <2>1. io[k] \in TaskRec
    BY <1>1, <1>3, ElementOfSeq
  <2>2. io[k].m = "fetch"
    BY <1>3 DEF ChanInv
  <2> QED
    BY <2>1, <2>2, TaskKinds, EmptyRange
<1>4. Between = {}
  BY <1>2 DEF Between
<1>5. InIo = {}
  <2>1. \A k \in DOMAIN io : Range(io[k].items) = {}
    BY <1>1, <1>3
  <2> QED
    BY <2>1 DEF InIo
<1> QED
  BY <1>4, <1>5 DEF Flight

\* The only points underway are those of the task that is being flushed.
LEMMA FlightIsTask ==
    ASSUME ChanInv, OneCommitter, flushrrd
    PROVE  Flight = Range(io[1].items) /\ Flight' = InIo' \cup Between'
           /\ \A c \in Committers : com'[c].pc \notin {"send", "wait"}
<1>0. TypeInv /\ io \in Seq(TaskRec) /\ DOMAIN io = 1 .. Len(io)
  BY LenProperties DEF ChanInv, TypeInv
<1>1. io # <<>> /\ io[1] \in FlushRec /\ 1 \in 1 .. Len(io)
  BY <1>0, IoMoves, HeadTask
<1>2c. PICK c \in Committers : \E r : DoneStep(c, r)
  BY ComKinds
<1>2. PICK r : DoneStep(c, r)
  BY <1>2c
<1>3. \A d \in Committers : d = c
  BY DEF OneCommitter
<1>4. com[c].pc = "wait" /\ com[c].items = <<>>
  BY <1>1, <1>2 DEF ChanInv, DoneStep
<1>5. Between = {}
  BY <1>3, <1>4, EmptyRange DEF Between
<1>6. ASSUME NEW k \in 1 .. Len(io), k # 1 PROVE Range(io[k].items) = {}
  <2>1. io[k] \in TaskRec
    BY <1>0, <1>6, ElementOfSeq
  <2>2. io[k].m # "flush"
    <3> SUFFICES ASSUME io[k].m = "flush" PROVE FALSE
      OBVIOUS
    <3>1. io[k].by = c /\ io[1].by = c /\ io[1].m # "fetch"
      BY <1>2, <1>3, <1>6 DEF ChanInv, DoneStep
    <3> QED
      BY <1>1, <1>6, <3>1 DEF ChanInv
  <2> QED
    BY <2>1, <2>2, TaskKinds, EmptyRange
<1>7. InIo = Range(io[1].items)
  <2>1. ASSUME NEW x \in InIo PROVE x \in Range(io[1].items)
    <3>1. PICK k \in 1 .. Len(io) : x \in Range(io[k].items)
      BY <1>0, <2>1 DEF InIo
    <3> QED
      BY <1>6, <3>1
  <2>2. Range(io[1].items) \subseteq InIo
    BY <1>0, <1>1 DEF InIo
  <2> QED
    BY <2>1, <2>2
<1>8. com'[c] = r /\ r.pc \notin {"send", "wait"}
  BY <1>2 DEF DoneStep, ComMoved
<1> QED
  BY <1>3, <1>5, <1>7, <1>8 DEF Flight

\* Of accepted, late and cleaned points, and those in the list, underway and in
\* the file: those that have to be kept are somewhere, and newer than all that
\* were further on the way before them.
Points(acc, late, away, list, fly, file) ==
    /\ file \cup fly \cup list \subseteq acc
    /\ \A x \in acc \ (late \cup away) :
         /\ x \in file \cup fly \cup list
         /\ x \in fly => x \in file \/ \A y \in file : x > y
         /\ x \in file \cup fly \/ \A y \in file \cup fly : x > y

\* A point is accepted into the list, or into one that was cleaned away.
LEMMA PointsAccept ==
    ASSUME NEW A, NEW L, NEW M, NEW C, NEW K, NEW F, NEW D, NEW p \in Times,
           A \subseteq Times, Points(A, L, C, K, F, D), L \subseteq M,
           p \notin A /\ p \notin M => \A y \in A : y <= p
    PROVE  /\ Points(A \cup {p}, M, C, K \cup {p}, F, D)
           /\ Points(A \cup {p}, M, C \cup {p}, K, F, D)
<1>1. D \cup F \cup K \subseteq A
  BY DEF Points
<1>2. ASSUME NEW x \in A, x \notin M, x \notin C
      PROVE  /\ x \in D \cup F \cup K
             /\ x \in F => x \in D \/ \A y \in D : x > y
             /\ x \in D \cup F \/ \A y \in D \cup F : x > y
  BY <1>2 DEF Points
<1>3. ASSUME p \notin A, p \notin M PROVE p \notin D \cup F /\ \A y \in D \cup F : p > y
  <2>1. ASSUME NEW y \in D \cup F PROVE p > y
    <3>1. y \in A /\ y \in Times /\ y # p /\ y <= p
      BY <1>1, <1>3
    <3> QED
      BY <3>1 DEF Times
  <2> QED
    BY <1>1, <1>3, <2>1
<1>4. Points(A \cup {p}, M, C, K \cup {p}, F, D)
  <2>1. D \cup F \cup (K \cup {p}) \subseteq A \cup {p}
    BY <1>1
  <2>2. ASSUME NEW x \in (A \cup {p}) \ (M \cup C)
        PROVE  /\ x \in D \cup F \cup (K \cup {p})
               /\ x \in F => x \in D \/ \A y \in D : x > y
               /\ x \in D \cup F \/ \A y \in D \cup F : x > y
    <3>1. CASE x \in A
      BY <1>2, <2>2, <3>1
    <3>2. CASE x \notin A
      BY <1>3, <2>2, <3>2
    <3> QED
      BY <3>1, <3>2
  <2> QED
    BY <2>1, <2>2 DEF Points
<1>5. Points(A \cup {p}, M, C \cup {p}, K, F, D)
  BY <1>1, <1>2 DEF Points
<1> QED
  BY <1>4, <1>5

\* The list is cleaned away; taken out of the map's list; flushed.
LEMMA PointsMove ==
    ASSUME NEW A, NEW L, NEW C, NEW K, NEW F, NEW D, Points(A, L, C, K, F, D)
    PROVE  /\ Points(A, L, C \cup K, {}, F, D)
           /\ F = {} => Points(A, L, C, {}, K, D)
           /\ \A E : /\ D \subseteq E /\ E \subseteq D \cup F
                     /\ \A x \in F : (\A y \in D : x > y) => x \in E
                     => Points(A, L, C, K, {}, E)
<1>1. Points(A, L, C \cup K, {}, F, D)
  BY DEF Points
<1>2. F = {} => Points(A, L, C, {}, K, D)
  BY DEF Points
<1>3. ASSUME NEW E, D \subseteq E, E \subseteq D \cup F,
             \A x \in F : (\A y \in D : x > y) => x \in E
      PROVE  Points(A, L, C, K, {}, E)
  <2>1. E \cup {} \cup K \subseteq A
    BY <1>3 DEF Points
  <2>2. ASSUME NEW x \in A \ (L \cup C)
        PROVE  /\ x \in E \cup {} \cup K
               /\ x \in {} => x \in E \/ \A y \in E : x > y
               /\ x \in E \cup {} \/ \A y \in E \cup {} : x > y
    <3>1. CASE x \in D \cup F
      BY <1>3, <2>2, <3>1 DEF Points
    <3>2. CASE x \notin D \cup F
      BY <1>3, <2>2, <3>2 DEF Points
    <3> QED
      BY <3>1, <3>2
  <2> QED
    BY <2>1, <2>2 DEF Points
<1> QED
  BY <1>1, <1>2, <1>3

\* rrdlite takes a point of an ordered task that is newer than the file.
LEMMA UpdateTakes ==
    ASSUME NEW s \in Seq(Times), rrd \in RrdRec, Increasing(s), NEW x \in Range(s),
           \A y \in rrd.pts : x > y
    PROVE  x \in update(s)
<1>1. DOMAIN s = 1 .. Len(s) /\ Len(s) \in Nat /\ \A i \in 1 .. Len(s) : s[i] \in Times
  BY LenProperties, ElementOfSeq
<1>2. PICK i \in 1 .. Len(s) : x = s[i]
  BY <1>1 DEF Range
<1>3. ASSUME NEW j \in 1 .. i - 1 PROVE x > s[j]
  <2>1. j \in DOMAIN s /\ i \in DOMAIN s /\ j < i
    BY <1>1
  <2>2. s[j] < s[i] /\ s[j] \in Times /\ s[i] \in Times
    BY <1>1, <2>1 DEF Increasing
  <2> QED
    BY <1>2, <2>2 DEF Times
<1>4. \A t \in rrd.pts \cup {s[j] : j \in 1 .. i - 1} : s[i] > t
  BY <1>2, <1>3
<1> QED
  BY <1>1, <1>2, <1>4 DEF update

FlowInv == OrderInv /\ Points(ghost.accepted, ghost.late, Cleaned, Range(Cached), Flight, rrd.pts)

\* What a flush does to points underway and in the file.
LEMMA FlushEffects ==
    ASSUME OrderInv, OrderInv', flushrrd
    PROVE  /\ ghost' = ghost /\ rrd.pts \subseteq rrd'.pts /\ rrd'.pts \subseteq rrd.pts \cup Flight
           /\ Flight' = {} /\ Flight = Range(io[1].items)
           /\ \A x \in Flight : (\A y \in rrd.pts : x > y) => x \in rrd'.pts
<1>0. /\ ChanInv /\ ChanInv' /\ TypeInv /\ OneCommitter /\ rrd \in RrdRec /\ ~Fails /\ io \in Seq(TaskRec)
      /\ \A k \in 1 .. Len(io) : Increasing(io[k].items)
  BY DEF OrderInv, ListInv, ChanInv, TypeInv
<1>1. /\ io # <<>> /\ io[1] \in FlushRec /\ rrd'.pts = update(io[1].items) /\ ghost' = ghost
  BY <1>0, IoMoves
<1>2. PICK s \in Seq(Times) : s = io[1].items
  BY <1>1 DEF FlushRec
<1>3. Flight = Range(s) /\ \A c \in Committers : com'[c].pc \notin {"send", "wait"}
  BY <1>0, <1>2, FlightIsTask
<1>4. Flight' = {}
  <2>1. (ChanInv /\ (\A c \in Committers : com[c].pc \notin {"send", "wait"}) => Flight = {})'
    BY FlightEmpty, PTL
  <2> QED
    BY <1>0, <1>3, <2>1
<1>5. Increasing(s)
  BY <1>0, <1>1, <1>2, HeadTask
<1>6. \A x \in Range(s) : (\A y \in rrd.pts : x > y) => x \in update(s)
  BY <1>0, <1>5, UpdateTakes
<1> QED
  BY <1>0, <1>1, <1>2, <1>3, <1>4, <1>6, UpdateWithin

\* Preservation.
LEMMA FlowInvStep == FlowInv /\ [Next]_vars => FlowInv'
<1> SUFFICES ASSUME FlowInv, [Next]_vars PROVE FlowInv'
  OBVIOUS
<1> USE DEF handVars, diskVars, readVars, downVars
<1>0. /\ OrderInv /\ OrderInv' /\ ListInv /\ ChanInv /\ TypeInv /\ io \in Seq(TaskRec) /\ OneCommitter
      /\ Cached \in Seq(Times) /\ ghost \in GhostRec /\ rrd \in RrdRec
  BY OrderInvStep, CacheEffects DEF FlowInv, OrderInv, ListInv, ChanInv, TypeInv
<1>p. Points(ghost.accepted, ghost.late, Cleaned, Range(Cached), Flight, rrd.pts)
  BY DEF FlowInv
<1>e. Range(<<>>) = {}
  BY EmptyRange
<1>q. ASSUME Points(ghost'.accepted, ghost'.late, Cleaned', Range(Cached'), Flight', rrd'.pts)
      PROVE  FlowInv'
  BY <1>0, <1>q DEF FlowInv
\* No point is anywhere else.
<1>s. CASE UNCHANGED <<rrd, ghost>> /\ Cached' = Cached /\ Cleaned' = Cleaned /\ Flight' = Flight
  BY <1>p, <1>q, <1>s
<1>1. ASSUME NEW a \in Handlers,
             \/ Send(a) \/ First(a) \/ GetHit(a) \/ IndexHit(a) \/ IndexMiss(a) \/ AddItem(a)
      PROVE  FlowInv'
  <2>1. UNCHANGED <<cache, rrd, ghost, com, io>>
    BY <1>1 DEF Send, First, GetHit, IndexHit, IndexMiss, AddItem, HistoryGet, HistoryPut, HistoryFront, HistoryPush
  <2> QED
    BY <1>s, <2>1 DEF Cached, Cleaned, Flight, Between, InIo
<1>2. CASE \/ updateIndexIncr \/ updateIndexFromOneItem \/ CleanLook \/ DeleteInvalidHistory
           \/ FetchAll \/ QueryReturns \/ CloseConns \/ Exit \/ Quiescent \/ UNCHANGED vars
  <2>1. UNCHANGED <<cache, rrd, ghost, com, io>>
    BY <1>2 DEF updateIndexIncr, updateIndexFromOneItem, CleanLook, DeleteInvalidHistory,
       FetchAll, QueryReturns, CloseConns, Exit, Quiescent, vars
  <2> QED
    BY <1>s, <2>1 DEF Cached, Cleaned, Flight, Between, InIo
<1>3. ASSUME NEW a \in Handlers, GetMiss(a) PROVE FlowInv'
  <2>1. UNCHANGED <<rrd, ghost, com, io>>
    BY <1>3 DEF GetMiss
  <2>2. Cached' = Cached /\ Cleaned' = Cleaned
    BY <1>0, <1>3, CacheEffects
  <2> QED
    BY <1>s, <2>1, <2>2 DEF Flight, Between, InIo
<1>4. ASSUME NEW a \in Handlers, Set(a) \/ PushFront(a) PROVE FlowInv'
  <2>1. UNCHANGED <<rrd, com, io>> /\ Accept(h[a].ts)
    BY <1>4 DEF Set, PushFront
  <2>2. PICK p \in Times : p = h[a].ts
    BY <1>0 DEF TypeInv, HandRec
  <2>3. /\ ghost'.accepted = ghost.accepted \cup {p} /\ ghost.late \subseteq ghost'.late
        /\ p \notin ghost.accepted /\ p \notin ghost'.late => \A y \in ghost.accepted : y <= p
    BY <1>0, <2>1, <2>2, AcceptFacts
  <2>4. ghost.accepted \subseteq Times
    BY <1>0 DEF GhostRec
  <2>5. /\ Points(ghost.accepted \cup {p}, ghost'.late, Cleaned, Range(Cached) \cup {p}, Flight, rrd.pts)
        /\ Points(ghost.accepted \cup {p}, ghost'.late, Cleaned \cup {p}, Range(Cached), Flight, rrd.pts)
    BY <1>p, <2>3, <2>4, PointsAccept
  <2>6. Flight' = Flight
    BY <2>1 DEF Flight, Between, InIo
  <2>7. \/ Range(Cached') = Range(Cached) \cup {p} /\ Cleaned' = Cleaned
        \/ Range(Cached') = Range(Cached) /\ Cleaned' = Cleaned \cup {p}
    <3>1. CASE Set(a)
      <4>1. Cached = <<>> /\ Cached' = <<p>> /\ Cleaned' = Cleaned
        BY <1>0, <2>2, <3>1, CacheEffects
      <4>2. Range(<<p>>) = {p}
        BY DEF Range
      <4> QED
        BY <1>e, <4>1, <4>2
    <3>2. CASE PushFront(a)
      <4>1. Range(<<p>> \o Cached) = {p} \cup Range(Cached)
        BY <1>0, ConsFacts
      <4>2. \/ Cached' = <<p>> \o Cached /\ Cleaned' = Cleaned
            \/ Cached' = Cached /\ Cleaned' = Cleaned \cup {p}
        BY <1>0, <2>2, <3>2, CacheEffects
      <4> QED
        BY <4>1, <4>2
    <3> QED
      BY <1>4, <3>1, <3>2
  <2> QED
    BY <1>q, <2>1, <2>3, <2>5, <2>6, <2>7
<1>5. CASE DeleteInvalidItems
  <2>1. UNCHANGED <<io, rrd, com>> /\ ghost'.accepted = ghost.accepted /\ ghost'.late = ghost.late
    BY <1>0, <1>5, CleanFacts
  <2>2. Cached' = <<>> /\ Cleaned' = Cleaned \cup Range(Cached)
    BY <1>0, <1>5, CacheEffects
  <2>3. Flight' = Flight
    BY <2>1 DEF Flight, Between, InIo
  <2>4. Points(ghost.accepted, ghost.late, Cleaned \cup Range(Cached), {}, Flight, rrd.pts)
    BY <1>p, PointsMove
  <2> QED
    BY <1>e, <1>q, <2>1, <2>2, <2>3, <2>4
<1>6. CASE FlushRRD \/ syncDiskEnds \/ GetRrd \/ Signal
  <2>1. UNCHANGED <<cache, rrd, ghost, io>>
    BY <1>6 DEF FlushRRD, syncDiskEnds, GetRrd, Signal
  <2>2c. PICK c \in Committers : \E r : ComMoved(c, r) /\ r.items = <<>> /\ com[c].items = <<>>
    BY <1>0, <1>6, ComKinds DEF ComStep
  <2>2. PICK r : ComMoved(c, r) /\ r.items = <<>> /\ com[c].items = <<>>
    BY <2>2c
  <2>3. Between' = Between
    BY <1>e, <2>2, BetweenFacts
  <2> QED
    BY <1>s, <2>1, <2>3 DEF Cached, Cleaned, Flight, InIo
<1>7. ASSUME NEW c \in Committers, PopAll(c) PROVE FlowInv'
  <2>1. UNCHANGED <<rrd, ghost, io>> /\ com[c].pc = "pop"
    BY <1>7 DEF PopAll, Com
  <2>2. Cached' = <<>> /\ Cleaned' = Cleaned
    BY <1>0, <1>7, CacheEffects
  <2>3. Flight = {}
    <3>1. \A d \in Committers : com[d].pc \notin {"send", "wait"}
      BY <1>0, <2>1 DEF OneCommitter
    <3> QED
      BY <1>0, <3>1, FlightEmpty
  <2>4. PICK r : /\ ComMoved(c, r) /\ com[c].items = <<>>
                 /\ r.items = <<>> \/ r.items = Reverse(Cached)
                 /\ Cached = <<>> => r.items = <<>>
                 /\ Cached = <<>> \/ r.items = Reverse(Cached)
    BY <1>0, <1>7, PopMoves, ComKinds DEF ComStep
  <2>5. Range(r.items) = Range(Cached)
    BY <1>0, <1>e, <2>4, ReverseFacts
  <2>6. Between = {} /\ InIo' = {}
    BY <2>1, <2>3 DEF Flight, InIo
  <2>7. Between' = Range(Cached)
    BY <1>e, <2>4, <2>5, <2>6, BetweenFacts
  <2>8. Flight' = Range(Cached)
    BY <2>6, <2>7 DEF Flight
  <2>9. Points(ghost.accepted, ghost.late, Cleaned, {}, Range(Cached), rrd.pts)
    BY <1>p, <2>3, PointsMove
  <2> QED
    BY <1>e, <1>q, <2>1, <2>2, <2>8, <2>9
<1>8. CASE ReadFile \/ \E c \in Committers : FlushFile(c)
  <2>1. UNCHANGED <<cache, rrd, ghost>>
    BY <1>8 DEF ReadFile, FlushFile
  <2>2c. PICK c \in Committers : \E r, t : SendStep(c, r, t)
    BY <1>0, <1>8, ComKinds
  <2>2. PICK r, t : SendStep(c, r, t)
    BY <2>2c
  <2>3. InIo' = InIo \cup Range(com[c].items)
    BY <1>0, <2>2, AppendTask DEF SendStep
  <2>4. /\ Between \subseteq Between' \cup Range(com[c].items) /\ Between' \subseteq Between
        /\ Range(com[c].items) \subseteq Between
    BY <1>e, <2>2, BetweenFacts DEF SendStep
  <2>5. Flight' = Flight
    BY <2>3, <2>4 DEF Flight
  <2> QED
    BY <1>s, <2>1, <2>5 DEF Cached, Cleaned
<1>9. CASE flushrrd
  <2>1. cache' = cache
    BY <1>9 DEF flushrrd
  <2>2. /\ ghost' = ghost /\ rrd.pts \subseteq rrd'.pts /\ rrd'.pts \subseteq rrd.pts \cup Flight
        /\ Flight' = {}
        /\ \A x \in Flight : (\A y \in rrd.pts : x > y) => x \in rrd'.pts
    BY <1>0, <1>9, FlushEffects
  <2>3. Cached' = Cached /\ Cleaned' = Cleaned
    BY <2>1, <2>2 DEF Cached, Cleaned
  <2>4. Points(ghost.accepted, ghost.late, Cleaned, Range(Cached), {}, rrd'.pts)
    BY <1>p, <2>2, PointsMove
  <2> QED
    BY <1>q, <2>2, <2>3, <2>4
<1>10. CASE ioRead \/ fetch
  <2>1. UNCHANGED <<cache, rrd, ghost>> /\ io # <<>> /\ io' = Tail(io) /\ io[1].m # "flush"
    BY <1>0, <1>10, HeadTask DEF ioRead, fetch, Working
  <2>2. io[1] \in TaskRec /\ 1 \in 1 .. Len(io) /\ io[1].items = <<>>
    BY <1>0, <2>1, HeadTask, TaskKinds
  <2>3. InIo' = InIo
    BY <1>0, <1>e, <2>1, <2>2, TailTask
  <2>4. Between' = Between
    <3>1. CASE fetch
      BY <3>1 DEF fetch, Between
    <3>2. CASE ioRead
      <4>1c. PICK c \in Committers : \E r : DoneStep(c, r)
        BY <1>0, <3>2, ComKinds
      <4>1. PICK r : DoneStep(c, r)
        BY <4>1c
      <4>2. com[c].items = <<>> /\ r.items = <<>> /\ ComMoved(c, r)
        BY <1>0, <2>2, <4>1 DEF DoneStep, ChanInv
      <4> QED
        BY <1>e, <4>2, BetweenFacts
    <3> QED
      BY <1>10, <3>1, <3>2
  <2> QED
    BY <1>s, <2>1, <2>3, <2>4 DEF Cached, Cleaned, Flight
<1>11. CASE Fetch
  <2>1. UNCHANGED <<cache, rrd, ghost, com>> /\ io' = Append(io, Task("fetch", "query", <<>>))
    BY <1>11 DEF Fetch
  <2>2. PICK t \in TaskRec : t = Task("fetch", "query", <<>>) /\ t.items = <<>>
    BY EmptyTasks
  <2>3. InIo' = InIo
    BY <1>0, <1>e, <2>1, <2>2, AppendTask
  <2> QED
    BY <1>s, <2>1, <2>3 DEF Cached, Cleaned, Flight, Between
<1> QED
  BY <1>1, <1>2, <1>3, <1>4, <1>5, <1>6, <1>7, <1>8, <1>9, <1>10, <1>11
     DEF Next, handleItems, CleanCache, CommitByKey, ioWorker, Query

\* Nothing is on its way at the start.
LEMMA FlowInvInit == OneHandler /\ OneCommitter /\ ~Fails /\ Init => FlowInv
<1> SUFFICES ASSUME OneHandler, OneCommitter, ~Fails, Init PROVE FlowInv
  OBVIOUS
<1>1. /\ ghost.accepted = {} /\ ghost.gone = {} /\ rrd.pts = {} /\ io = <<>> /\ cache = Nothing
      /\ \A a \in Handlers : h[a].pc = "idle"
      /\ \A c \in Committers : com[c].items = <<>>
  BY DEF Init, IdleHand, IdleCom
<1>2. Cached = <<>>
  BY <1>1 DEF Cached, listOf, Nothing
<1>3. OrderInv
  <2>1. \A a \in Handlers : Newer(a)
    BY <1>1 DEF Newer
  <2>2. Len(io) = 0
    BY <1>1
  <2> QED
    <3>1. ListInv
      BY ListInvInit
    <3>2. Decreasing(Cached) /\ \A c \in Committers : Increasing(com[c].items)
      BY <1>1, <1>2, ShortOrder
    <3>3. 1 .. Len(io) = {}
      BY <2>2
    <3> QED
      BY <2>1, <3>1, <3>2, <3>3 DEF OrderInv
<1>4. Flight = {}
  <2>1. \A c \in Committers : com[c].pc = "idle"
    BY DEF Init, IdleCom
  <2> QED
    BY <2>1, FlightEmpty, ChanInvInit
<1>5. Points({}, ghost.late, Cleaned, {}, {}, {})
  BY DEF Points
<1> QED
  BY <1>1, <1>2, <1>3, <1>4, <1>5, EmptyRange DEF FlowInv

\* With one handler and one committer at work and no errors from the disk: a
\* point that was the newest when it was accepted is never lost on its way to
\* the file, however commits, cleanings, late and repeated points interleave.
THEOREM NewestNeverLost == OneHandler /\ OneCommitter /\ ~Fails /\ Spec => []NoneLost
<1>1. FlowInv => NoneLost
  BY DEF FlowInv, Points, NoneLost, OnTheWay, Flight
<1> QED
  BY <1>1, FlowInvInit, FlowInvStep, PTL DEF Spec

----------------------------------------------------------------------------
(* Graph.Query: the same conditions, any number of queries.                *)

QueryRec == [pc : {"idle", "send", "wait", "done"}, cache : SUBSET Times,
             disk : SUBSET Times, due : SUBSET Times]

\* A task with this point is before the query's own task in the channel.
Ahead(x) == \E j, k \in 1 .. Len(io) : j < k /\ io[k].m = "fetch" /\ x \in Range(io[j].items)

\* There is a fetch task exactly while the query waits for it, and what the
\* query has found neither in the list nor in the file is in the channel, in
\* front of that task, and newer than the file.
QueryInv ==
    /\ FlowInv /\ q \in QueryRec
    /\ \A k \in 1 .. Len(io) : io[k].m = "fetch" => q.pc = "wait"
    /\ \A j, k \in 1 .. Len(io) : io[j].m = "fetch" /\ io[k].m = "fetch" => j = k
    /\ q.pc \in {"send", "wait"} =>
         \A x \in q.due : \/ x \in q.cache \cup rrd.pts
                          \/ /\ x \in InIo /\ \A y \in rrd.pts : x > y
                             /\ q.pc = "wait" => Ahead(x)
    /\ QuerySees

\* The query goes on.
LEMMA QueryMoves ==
    ASSUME q \in QueryRec, rrd \in RrdRec
    PROVE  /\ Fetch => q' \in QueryRec /\ q.pc = "send" /\ q'.pc = "wait" /\ q'.cache = q.cache /\ q'.due = q.due
           /\ fetch => /\ q' \in QueryRec /\ q'.pc = "done" /\ q'.disk = rrd.pts
                       /\ q'.cache = q.cache /\ q'.due = q.due
           /\ QueryReturns => q' \in QueryRec /\ q'.pc = "idle"
<1>1. ASSUME Fetch PROVE q' \in QueryRec /\ q.pc = "send" /\ q'.pc = "wait" /\ q'.cache = q.cache /\ q'.due = q.due
  <2>1. q.pc = "send" /\ q' = [q EXCEPT !.pc = "wait"]
    BY <1>1 DEF Fetch
  <2> QED
    BY <2>1 DEF QueryRec
<1>2. ASSUME fetch
      PROVE  q' \in QueryRec /\ q'.pc = "done" /\ q'.disk = rrd.pts /\ q'.cache = q.cache /\ q'.due = q.due
  <2>1. PICK d \in SUBSET Times : d = rrd.pts
    BY DEF RrdRec
  <2>2. q' = [q EXCEPT !.pc = "done", !.disk = d]
    BY <1>2, <2>1 DEF fetch
  <2> QED
    BY <2>1, <2>2 DEF QueryRec
<1>3. ASSUME QueryReturns PROVE q' \in QueryRec /\ q'.pc = "idle"
  BY <1>3 DEF QueryReturns, IdleQuery, QueryRec
<1> QED
  BY <1>1, <1>2, <1>3

\* Preservation.
LEMMA QueryInvStep == QueryInv /\ [Next]_vars => QueryInv'
<1> SUFFICES ASSUME QueryInv, [Next]_vars PROVE QueryInv'
  OBVIOUS
<1> USE DEF handVars, diskVars, readVars, downVars
<1>0. /\ FlowInv /\ FlowInv' /\ OrderInv /\ OrderInv' /\ ListInv /\ ChanInv /\ TypeInv
      /\ io \in Seq(TaskRec) /\ OneCommitter /\ Cached \in Seq(Times) /\ ghost \in GhostRec
      /\ rrd \in RrdRec /\ q \in QueryRec
  BY FlowInvStep, CacheEffects DEF QueryInv, FlowInv, OrderInv, ListInv, ChanInv, TypeInv
<1>1. /\ \A k \in 1 .. Len(io) : io[k].m = "fetch" => q.pc = "wait"
      /\ \A j, k \in 1 .. Len(io) : io[j].m = "fetch" /\ io[k].m = "fetch" => j = k
      /\ QuerySees
  BY DEF QueryInv
<1>2. ASSUME q.pc \in {"send", "wait"}, NEW x \in q.due
      PROVE  \/ x \in q.cache \cup rrd.pts
             \/ /\ x \in InIo /\ \A y \in rrd.pts : x > y
                /\ q.pc = "wait" => Ahead(x)
  BY <1>2 DEF QueryInv
<1>e. Range(<<>>) = {}
  BY EmptyRange
\* Channel, file and query as they were.
<1>s. CASE UNCHANGED <<io, rrd, q>>
  <2>1. InIo' = InIo /\ \A x : Ahead(x)' <=> Ahead(x)
    BY <1>s DEF InIo, Ahead
  <2>2. ASSUME q.pc \in {"send", "wait"}, NEW x \in q.due
        PROVE  \/ x \in q.cache \cup rrd.pts
               \/ /\ x \in InIo' /\ \A y \in rrd.pts : x > y
                  /\ q.pc = "wait" => Ahead(x)'
    BY <1>2, <2>1, <2>2
  <2> QED
    BY <1>0, <1>1, <1>s, <2>2 DEF QueryInv, QuerySees
<1>3. CASE \/ \E a \in Handlers : Send(a) \/ handleItems(a)
           \/ updateIndexIncr \/ updateIndexFromOneItem \/ CleanCache
           \/ FlushRRD \/ syncDiskEnds \/ GetRrd \/ (\E c \in Committers : PopAll(c))
           \/ Signal \/ CloseConns \/ Exit \/ Quiescent \/ UNCHANGED vars
  BY <1>s, <1>3 DEF Send, handleItems, First, GetHit, GetMiss, Set, PushFront, IndexHit, IndexMiss,
     AddItem, HistoryGet, HistoryPut, HistoryFront, HistoryPush, updateIndexIncr, updateIndexFromOneItem,
     CleanCache, CleanLook, DeleteInvalidItems, DeleteInvalidHistory, FlushRRD, syncDiskEnds, GetRrd,
     PopAll, Signal, CloseConns, Exit, Quiescent, vars
\* Another task in the channel.
<1>4. CASE ReadFile \/ \E c \in Committers : FlushFile(c)
  <2>1. UNCHANGED <<rrd, q>>
    BY <1>4 DEF ReadFile, FlushFile
  <2>2c. PICK c \in Committers : \E r, t : SendStep(c, r, t)
    BY <1>0, <1>4, ComKinds
  <2>2. PICK r, t : SendStep(c, r, t)
    BY <2>2c
  <2>3. t \in TaskRec /\ t.m # "fetch" /\ io' = Append(io, t)
    BY <2>2 DEF SendStep
  <2>4. /\ Len(io) \in Nat /\ Len(io') = Len(io) + 1 /\ io'[Len(io) + 1] = t
        /\ \A k \in 1 .. Len(io) : io'[k] = io[k]
        /\ InIo \subseteq InIo'
    BY <1>0, <2>3, AppendTask
  <2>5. \A k \in 1 .. Len(io') : io'[k].m = "fetch" => k \in 1 .. Len(io) /\ io'[k] = io[k]
    BY <2>3, <2>4
  <2>6. \A k \in 1 .. Len(io) : k \in 1 .. Len(io')
    BY <2>4
  <2>7. \A x : Ahead(x) => Ahead(x)'
    BY <2>4, <2>6 DEF Ahead
  <2>8. ASSUME q.pc \in {"send", "wait"}, NEW x \in q.due
        PROVE  \/ x \in q.cache \cup rrd.pts
               \/ /\ x \in InIo' /\ \A y \in rrd.pts : x > y
                  /\ q.pc = "wait" => Ahead(x)'
    BY <1>2, <2>4, <2>7, <2>8
  <2> QED
    BY <1>0, <1>1, <2>1, <2>5, <2>8 DEF QueryInv, QuerySees
\* The points of a task are in the file.
<1>5. CASE flushrrd
  <2>1. q' = q /\ io # <<>> /\ io' = Tail(io)
    BY <1>5 DEF flushrrd, Working
  <2>2. /\ rrd.pts \subseteq rrd'.pts
        /\ \A x \in Flight : (\A y \in rrd.pts : x > y) => x \in rrd'.pts
    BY <1>0, <1>5, FlushEffects
  <2>3. /\ Len(io) \in Nat \ {0} /\ Len(io') = Len(io) - 1
        /\ \A k \in 1 .. Len(io) - 1 : io'[k] = io[k + 1]
    BY <1>0, <2>1, TailTask
  <2>4. \A k \in 1 .. Len(io') : k + 1 \in 1 .. Len(io) /\ io'[k] = io[k + 1]
    BY <2>3
  <2>5. \A j, k \in 1 .. Len(io') : j + 1 = k + 1 => j = k
    BY <2>3
  <2>6. \A k \in 1 .. Len(io') : io'[k].m = "fetch" => q.pc = "wait"
    BY <1>1, <2>4
  <2>7. \A j, k \in 1 .. Len(io') : io'[j].m = "fetch" /\ io'[k].m = "fetch" => j = k
    BY <1>1, <2>4, <2>5
  <2>8. ASSUME q.pc \in {"send", "wait"}, NEW x \in q.due PROVE x \in q.cache \cup rrd'.pts
    <3>1. InIo \subseteq Flight
      BY DEF Flight
    <3> QED
      BY <1>2, <2>2, <2>8, <3>1
  <2> QED
    BY <1>0, <1>1, <2>1, <2>6, <2>7, <2>8 DEF QueryInv, QuerySees
\* A task without points is done.
<1>6. CASE ioRead
  <2>1. UNCHANGED <<rrd, q>> /\ io # <<>> /\ io' = Tail(io) /\ io[1].m = "read"
    BY <1>0, <1>6, HeadTask DEF ioRead, Working
  <2>2. io[1].items = <<>>
    BY <1>0, <2>1, HeadTask, TaskKinds
  <2>3. /\ Len(io) \in Nat \ {0} /\ Len(io') = Len(io) - 1 /\ InIo' = InIo
        /\ \A k \in 1 .. Len(io) - 1 : io'[k] = io[k + 1]
    BY <1>0, <1>e, <2>1, <2>2, TailTask
  <2>4. \A k \in 1 .. Len(io') : k + 1 \in 1 .. Len(io) /\ io'[k] = io[k + 1]
    BY <2>3
  <2>5. \A j, k \in 1 .. Len(io') : j + 1 = k + 1 => j = k
    BY <2>3
  <2>6. \A k \in 1 .. Len(io') : io'[k].m = "fetch" => q.pc = "wait"
    BY <1>1, <2>4
  <2>7. \A j, k \in 1 .. Len(io') : io'[j].m = "fetch" /\ io'[k].m = "fetch" => j = k
    BY <1>1, <2>4, <2>5
  <2>8. ASSUME NEW x, Ahead(x) PROVE Ahead(x)'
    <3>1. PICK j \in 1 .. Len(io), k \in 1 .. Len(io) : j < k /\ io[k].m = "fetch" /\ x \in Range(io[j].items)
      BY <2>8 DEF Ahead
    <3>2. j # 1 /\ k # 1
      BY <1>e, <2>1, <2>2, <2>3, <3>1
    <3>3. /\ j - 1 \in 1 .. Len(io') /\ k - 1 \in 1 .. Len(io') /\ j - 1 < k - 1
          /\ io'[j - 1] = io[j] /\ io'[k - 1] = io[k]
      <4>1. /\ j - 1 \in 1 .. Len(io) - 1 /\ k - 1 \in 1 .. Len(io) - 1 /\ j - 1 < k - 1
            /\ (j - 1) + 1 = j /\ (k - 1) + 1 = k
        BY <2>3, <3>1, <3>2
      <4> QED
        BY <2>3, <4>1
    <3> QED
      BY <3>1, <3>3 DEF Ahead
  <2>9. ASSUME q.pc \in {"send", "wait"}, NEW x \in q.due
        PROVE  \/ x \in q.cache \cup rrd.pts
               \/ /\ x \in InIo' /\ \A y \in rrd.pts : x > y
                  /\ q.pc = "wait" => Ahead(x)'
    BY <1>2, <2>3, <2>8, <2>9
  <2> QED
    BY <1>0, <1>1, <2>1, <2>6, <2>7, <2>9 DEF QueryInv, QuerySees
\* The query's task is done: nothing is ahead of it.
<1>7. CASE fetch
  <2>1. rrd' = rrd /\ io # <<>> /\ io' = Tail(io) /\ io[1].m = "fetch"
    BY <1>0, <1>7, HeadTask DEF fetch, Working
  <2>2. /\ Len(io) \in Nat \ {0} /\ Len(io') = Len(io) - 1
        /\ \A k \in 1 .. Len(io) - 1 : io'[k] = io[k + 1]
    BY <1>0, <2>1, TailTask
  <2>3. q' \in QueryRec /\ q'.pc = "done" /\ q'.disk = rrd.pts /\ q'.cache = q.cache /\ q'.due = q.due
    BY <1>0, <1>7, QueryMoves
  <2>4. \A k \in 1 .. Len(io) : io[k].m = "fetch" => k = 1
    BY <1>1, <2>1, <2>2
  <2>5. \A k \in 1 .. Len(io') : k + 1 \in 1 .. Len(io) /\ k + 1 # 1 /\ io'[k] = io[k + 1]
    BY <2>2
  <2>6. \A k \in 1 .. Len(io') : io'[k].m # "fetch"
    BY <2>4, <2>5
  <2>7. q.pc = "wait"
    BY <1>1, <2>1, <2>2
  <2>8. \A x : ~Ahead(x)
    <3>1. \A j, k \in 1 .. Len(io) : j < k => k # 1
      BY <2>2
    <3> QED
      BY <2>4, <3>1 DEF Ahead
  <2>9. q.due \subseteq q.cache \cup rrd.pts
    BY <1>2, <2>7, <2>8
  <2> QED
    BY <1>0, <2>3, <2>6, <2>9 DEF QueryInv, QuerySees
\* The query looks at the list.
<1>8. CASE FetchAll
  <2>1. /\ UNCHANGED <<io, rrd>> /\ q.pc = "idle"
        /\ q' = [pc |-> "send", cache |-> Range(Cached), disk |-> {},
                 due |-> ghost.accepted \ (ghost.late \cup Cleaned \cup Between)]
    BY <1>8 DEF FetchAll
  <2>2. PICK D : D = ghost.accepted \ (ghost.late \cup Cleaned \cup Between)
    OBVIOUS
  <2>3. D \subseteq Times /\ Range(Cached) \subseteq Times
    BY <1>0, <2>2, UpdateWithin DEF GhostRec
  <2>4. q' \in QueryRec /\ q'.pc = "send" /\ q'.cache = Range(Cached) /\ q'.due = D
    BY <2>1, <2>2, <2>3 DEF QueryRec
  <2>5. ASSUME NEW x \in D
        PROVE  x \in Range(Cached) \cup rrd.pts \/ (x \in InIo /\ \A y \in rrd.pts : x > y)
    <3>1. x \in ghost.accepted \ (ghost.late \cup Cleaned) /\ x \notin Between
      BY <2>2, <2>5
    <3>2. /\ x \in rrd.pts \cup Flight \cup Range(Cached)
          /\ x \in Flight => x \in rrd.pts \/ \A y \in rrd.pts : x > y
      BY <1>0, <3>1 DEF FlowInv, Points
    <3> QED
      BY <3>1, <3>2 DEF Flight
  <2>6. InIo' = InIo
    BY <2>1 DEF InIo
  <2>7. \A k \in 1 .. Len(io) : io[k].m # "fetch"
    BY <1>1, <2>1
  <2>8. UNCHANGED <<io, rrd>>
    BY <2>1
  <2> QED
    BY <1>0, <2>4, <2>5, <2>6, <2>7, <2>8 DEF QueryInv, QuerySees
\* The query's task is put behind all others.
<1>9. CASE Fetch
  <2>1. rrd' = rrd /\ io' = Append(io, Task("fetch", "query", <<>>))
    BY <1>9 DEF Fetch
  <2>2. PICK t \in TaskRec : t = Task("fetch", "query", <<>>) /\ t.items = <<>> /\ t.m = "fetch"
    BY EmptyTasks
  <2>3. /\ Len(io) \in Nat /\ Len(io') = Len(io) + 1 /\ io'[Len(io) + 1] = t /\ InIo' = InIo
        /\ \A k \in 1 .. Len(io) : io'[k] = io[k]
    BY <1>0, <1>e, <2>1, <2>2, AppendTask
  <2>4. q' \in QueryRec /\ q.pc = "send" /\ q'.pc = "wait" /\ q'.cache = q.cache /\ q'.due = q.due
    BY <1>0, <1>9, QueryMoves
  <2>5. \A k \in 1 .. Len(io) : io[k].m # "fetch"
    BY <1>1, <2>4
  <2>6. \A k \in 1 .. Len(io') : io'[k].m = "fetch" => k = Len(io) + 1
    <3>1. \A k \in 1 .. Len(io') : k \in 1 .. Len(io) \/ k = Len(io) + 1
      BY <2>3
    <3> QED
      BY <2>3, <2>5, <3>1
  <2>7. ASSUME NEW x \in InIo PROVE Ahead(x)'
    <3>1. DOMAIN io = 1 .. Len(io)
      BY <1>0, LenProperties
    <3>2. PICK j \in 1 .. Len(io) : x \in Range(io[j].items)
      BY <2>7, <3>1 DEF InIo
    <3>3. PICK k \in 1 .. Len(io') : k = Len(io) + 1
      BY <2>3
    <3>4. j \in 1 .. Len(io') /\ j < k /\ io'[j] = io[j] /\ io'[k].m = "fetch"
      BY <2>2, <2>3, <3>3
    <3> QED
      BY <3>2, <3>4 DEF Ahead
  <2>8. ASSUME NEW x \in q.due
        PROVE  \/ x \in q.cache \cup rrd.pts
               \/ x \in InIo' /\ (\A y \in rrd.pts : x > y) /\ Ahead(x)'
    BY <1>2, <2>3, <2>4, <2>7
  <2> QED
    BY <1>0, <2>1, <2>4, <2>6, <2>8 DEF QueryInv, QuerySees
<1>10. CASE QueryReturns
  <2>1. UNCHANGED <<io, rrd>> /\ q.pc = "done"
    BY <1>10 DEF QueryReturns
  <2>2. q' \in QueryRec /\ q'.pc = "idle"
    BY <1>0, <1>10, QueryMoves
  <2>3. \A k \in 1 .. Len(io) : io[k].m # "fetch"
    BY <1>1, <2>1
  <2> QED
    BY <1>0, <2>1, <2>2, <2>3 DEF QueryInv, QuerySees
<1> QED
  BY <1>3, <1>4, <1>5, <1>6, <1>7, <1>8, <1>9, <1>10
     DEF Next, CommitByKey, ioWorker, Query

\* Under the same conditions a query misses no point that was accepted, and not
\* just being moved, when it began: what it did not see in the list is in the
\* file when its own task has come through the channel.
THEOREM QueriesSeeAll == OneHandler /\ OneCommitter /\ ~Fails /\ Spec => []QuerySees
<1>1. OneHandler /\ OneCommitter /\ ~Fails /\ Init => QueryInv
  <2> SUFFICES ASSUME OneHandler, OneCommitter, ~Fails, Init PROVE QueryInv
    OBVIOUS
  <2>1. io = <<>> /\ q = IdleQuery
    BY DEF Init
  <2>2. q \in QueryRec /\ q.pc = "idle" /\ Len(io) = 0
    BY <2>1 DEF IdleQuery, QueryRec
  <2> QED
    BY <2>2, FlowInvInit DEF QueryInv, QuerySees
<1>2. QueryInv => QuerySees
  BY DEF QueryInv
<1> QED
  BY <1>1, <1>2, QueryInvStep, PTL DEF Spec

============================================================================
