--------------------------- MODULE Nodata_proofs ---------------------------
(***************************************************************************)
(* nodata: no mock is made over a real point, whatever fails, for every    *)
(* horizon and every table of rows.                                        *)
(***************************************************************************)
EXTENDS Nodata, TLAPS

USE NodataAssumption

\* Ages are naturals, and records have their fields.
Ages ==
    /\ reals \subseteq Nat /\ last.age \in Nat /\ item.age \in Nat /\ item.fage \in Nat
    /\ mock.age \in Nat /\ sending.mock.age \in Nat
    /\ outage \in Nat /\ taken.outage \in Nat
    /\ last = [some |-> last.some, age |-> last.age, mock |-> last.mock]
    /\ item = [some |-> item.some, age |-> item.age, mock |-> item.mock, fage |-> item.fage]
    /\ mock = [some |-> mock.some, age |-> mock.age]
    /\ sending = [at |-> sending.at, mock |-> [some |-> sending.mock.some, age |-> sending.mock.age]]

\* A mock is for two steps back at least, while it waits and while it is sent.
MocksAreOld ==
    /\ mock.some => mock.age >= genTs
    /\ sending.at # "idle" => sending.mock.age >= genTs

\* graph's last point is a real one as long as a real one is at most genTs old.
RealsWin == \A a \in reals : a <= genTs /\ ~last.mock /\ last.some /\ last.age <= a

\* What was fetched knows the real points from before the fetch.
FetchKnows == \A a \in reals : a > outage => ~item.mock /\ item.age <= a

NodataInv == Ages /\ MocksAreOld /\ RealsWin /\ FetchKnows /\ MockInGap

\* An age grows by one step, or stays at the horizon.
LEMMA OlderFacts == ASSUME NEW a \in Nat PROVE Older(a) \in Nat /\ a <= Older(a) /\ Older(a) <= a + 1
BY DEF Older

\* A step passes: everything is a step older.
LEMMA TickStep == NodataInv /\ Tick => NodataInv'
<1> SUFFICES ASSUME NodataInv, Tick PROVE NodataInv'
  OBVIOUS
<1>1. /\ reals \subseteq Nat /\ last.age \in Nat /\ item.age \in Nat /\ item.fage \in Nat
      /\ mock.age \in Nat /\ sending.mock.age \in Nat /\ outage \in Nat /\ taken.outage \in Nat
  BY DEF NodataInv, Ages
<1>2. reals' = {a + 1 : a \in reals \ {genTs}} /\ taken' = taken
  BY DEF Tick
<1>3. /\ last' = [some |-> last.some, age |-> last'.age, mock |-> last.mock]
      /\ last'.age = IF last.some THEN Older(last.age) ELSE last.age
  BY DEF Tick, NodataInv, Ages
<1>4. /\ item' = [some |-> item.some, age |-> item'.age, mock |-> item.mock, fage |-> item'.fage]
      /\ item'.age = IF item.some THEN Older(item.age) ELSE item.age
      /\ item'.fage = IF item.some THEN Older(item.fage) ELSE item.fage
  BY DEF Tick, NodataInv, Ages
<1>5. /\ mock' = [some |-> mock.some, age |-> mock'.age]
      /\ mock'.age = IF mock.some THEN Older(mock.age) ELSE mock.age
  BY DEF Tick, NodataInv, Ages
<1>6. /\ sending' = [at |-> sending.at, mock |-> [some |-> sending.mock.some, age |-> sending'.mock.age]]
      /\ sending'.mock.age = IF sending.at = "idle" THEN sending.mock.age ELSE Older(sending.mock.age)
  BY DEF Tick, NodataInv, Ages
<1>7. outage' = IF outage < 2 THEN outage + 1 ELSE 2
  BY DEF Tick
<1>8. /\ Older(last.age) \in Nat /\ Older(last.age) <= last.age + 1
      /\ Older(item.age) \in Nat /\ Older(item.age) <= item.age + 1 /\ Older(item.fage) \in Nat
      /\ Older(mock.age) \in Nat /\ mock.age <= Older(mock.age)
      /\ Older(sending.mock.age) \in Nat /\ sending.mock.age <= Older(sending.mock.age)
  BY <1>1, OlderFacts
<1>9. Ages'
  <2>1. reals' \subseteq Nat /\ outage' \in Nat /\ taken'.outage \in Nat
    BY <1>1, <1>2, <1>7
  <2>2. last'.age \in Nat /\ item'.age \in Nat /\ item'.fage \in Nat /\ mock'.age \in Nat /\ sending'.mock.age \in Nat
    BY <1>1, <1>3, <1>4, <1>5, <1>6, <1>8
  <2>3. last'.some = last.some /\ last'.mock = last.mock
    BY <1>3
  <2>4. item'.some = item.some /\ item'.mock = item.mock
    BY <1>4
  <2>5. mock'.some = mock.some /\ sending'.at = sending.at /\ sending'.mock.some = sending.mock.some
    BY <1>5, <1>6
  <2> QED
    BY <1>3, <1>4, <1>5, <1>6, <2>1, <2>2, <2>3, <2>4, <2>5 DEF Ages
<1>10. MocksAreOld'
  <2>1. mock'.some = mock.some /\ sending'.at = sending.at
    BY <1>5, <1>6
  <2> QED
    BY <1>1, <1>5, <1>6, <1>8, <2>1 DEF NodataInv, MocksAreOld, genTs
<1>11. ASSUME NEW b \in reals' PROVE /\ b <= genTs /\ ~last'.mock /\ last'.some /\ last'.age <= b
                                     /\ b > outage' => ~item'.mock /\ item'.age <= b
  <2>1. PICK a \in reals : b = a + 1 /\ a # genTs
    BY <1>2
  <2>2. a \in Nat /\ a <= genTs /\ ~last.mock /\ last.some /\ last.age <= a
    BY <1>1 DEF NodataInv, RealsWin
  <2>3. b <= genTs /\ ~last'.mock /\ last'.some /\ last'.age <= b
    BY <1>1, <1>3, <1>8, <2>1, <2>2 DEF genTs
  <2>4. ASSUME b > outage' PROVE ~item'.mock /\ item'.age <= b
    <3>1. a > outage
      BY <1>1, <1>7, <2>1, <2>2, <2>3, <2>4 DEF genTs
    <3>2. ~item.mock /\ item.age <= a
      BY <3>1 DEF NodataInv, FetchKnows
    <3> QED
      BY <1>1, <1>4, <1>8, <2>1, <2>2, <3>2
  <2> QED
    BY <2>3, <2>4
<1>12. MockInGap'
  BY <1>2 DEF NodataInv, MockInGap
<1> QED
  BY <1>9, <1>10, <1>11, <1>12 DEF NodataInv, RealsWin, FetchKnows

\* judge takes no series for silent that has a real point to mock over.
LEMMA JudgeStep == NodataInv /\ judge => NodataInv'
<1> SUFFICES ASSUME NodataInv, judge PROVE NodataInv'
  OBVIOUS
<1>1. UNCHANGED <<reals, last, item, sending, outage>>
  BY DEF judge
<1>2. CASE UNCHANGED <<mock, taken>>
  BY <1>1, <1>2 DEF NodataInv, Ages, MocksAreOld, RealsWin, FetchKnows, MockInGap
<1>3. CASE Silent(item) /\ genMock
  <2>1. /\ mock' = [some |-> TRUE, age |-> genTs]
        /\ taken' = [hit |-> genTs \in reals, outage |-> outage]
    BY <1>3 DEF genMock
  <2>2. MockInGap'
    <3> SUFFICES ASSUME genTs \in reals PROVE outage >= 2
      BY <2>1 DEF MockInGap
    <3>1. ~(genTs > outage)
      BY <1>3 DEF NodataInv, FetchKnows, Ages, Silent, getTimeout, genTs
    <3> QED
      BY <3>1 DEF NodataInv, Ages, genTs
  <2>3. Ages'
    BY <1>1, <2>1 DEF NodataInv, Ages, genTs
  <2>4. MocksAreOld'
    BY <1>1, <2>1 DEF NodataInv, MocksAreOld, genTs
  <2> QED
    BY <1>1, <2>2, <2>3, <2>4 DEF NodataInv, RealsWin, FetchKnows
<1> QED
  BY <1>2, <1>3 DEF judge

\* Everything else keeps the invariant too.
LEMMA NodataNext == NodataInv /\ [NodataStep]_nodataVars => NodataInv'
<1> SUFFICES ASSUME NodataInv, [NodataStep]_nodataVars PROVE NodataInv'
  OBVIOUS
<1>1. ASSUME UNCHANGED <<reals, last, item, mock, sending, outage, taken>> PROVE NodataInv'
  BY <1>1 DEF NodataInv, Ages, MocksAreOld, RealsWin, FetchKnows, MockInGap
<1>2. CASE Report
  <2>1. /\ reals' = reals \cup {0} /\ last' = [some |-> TRUE, age |-> 0, mock |-> FALSE]
        /\ UNCHANGED <<item, mock, sending, outage, taken>>
    BY <1>2 DEF Report
  <2>2. Ages' /\ MocksAreOld' /\ MockInGap'
    BY <2>1 DEF NodataInv, Ages, MocksAreOld, MockInGap
  <2>3. RealsWin'
    BY <2>1 DEF NodataInv, RealsWin, Ages, genTs
  <2>4. FetchKnows'
    BY <2>1 DEF NodataInv, FetchKnows, Ages
  <2> QED
    BY <2>2, <2>3, <2>4 DEF NodataInv
<1>3. CASE Tick
  BY <1>3, TickStep
<1>4. CASE syncNdConfig
  BY <1>1, <1>4 DEF syncNdConfig
<1>5. CASE fetchItemsAndStore
  <2>1. CASE UNCHANGED <<item, outage>>
    BY <1>1, <1>5, <2>1 DEF fetchItemsAndStore
  <2>2. CASE AddItem(last) /\ outage' = 0
    <3>1. /\ item' = [some |-> TRUE, age |-> last.age, mock |-> last.mock, fage |-> 0]
          /\ UNCHANGED <<reals, last, mock, sending, taken>>
      BY <1>5, <2>2 DEF AddItem, fetchItemsAndStore
    <3>2. Ages' /\ MocksAreOld' /\ MockInGap' /\ RealsWin'
      BY <2>2, <3>1 DEF NodataInv, Ages, MocksAreOld, MockInGap, RealsWin
    <3>3. FetchKnows'
      BY <3>1 DEF NodataInv, FetchKnows, RealsWin
    <3> QED
      BY <3>2, <3>3 DEF NodataInv
  <2>3. CASE ~last.some /\ outage' = 0 /\ UNCHANGED item
    <3>1. reals = {} /\ UNCHANGED <<reals, last, mock, sending, taken>>
      BY <1>5, <2>3 DEF NodataInv, RealsWin, fetchItemsAndStore
    <3> QED
      BY <2>3, <3>1 DEF NodataInv, Ages, MocksAreOld, RealsWin, FetchKnows, MockInGap
  <2> QED
    BY <1>5, <2>1, <2>2, <2>3 DEF fetchItemsAndStore
<1>6. CASE judge
  BY <1>6, JudgeStep
<1>7. CASE SendMockOnce
  <2>1. /\ sending' = [at |-> "sliced", mock |-> mock] /\ mock.some
        /\ UNCHANGED <<reals, last, item, mock, outage, taken>>
    BY <1>7 DEF SendMockOnce
  <2> QED
    BY <2>1 DEF NodataInv, Ages, MocksAreOld, RealsWin, FetchKnows, MockInGap
<1>8. CASE Clear
  <2>1. /\ sending' = [sending EXCEPT !.at = "out"] /\ mock' = NoMock /\ sending.at = "sliced"
        /\ UNCHANGED <<reals, last, item, outage, taken>>
    BY <1>8 DEF Clear
  <2>2. sending' = [at |-> "out", mock |-> sending.mock]
    BY <2>1 DEF NodataInv, Ages
  <2> QED
    BY <2>1, <2>2 DEF NodataInv, Ages, MocksAreOld, RealsWin, FetchKnows, MockInGap, NoMock
<1>9. CASE sendItemsToTransfer
  <2>1. /\ sending.at = "out" /\ sending' = [at |-> "idle", mock |-> NoMock]
        /\ UNCHANGED <<reals, item, mock, outage, taken>>
    BY <1>9 DEF sendItemsToTransfer
  <2>2. CASE last' = last
    BY <2>1, <2>2 DEF NodataInv, Ages, MocksAreOld, RealsWin, FetchKnows, MockInGap, NoMock
  <2>3. CASE /\ ~(last.some /\ last.age <= sending.mock.age)
             /\ last' = [some |-> TRUE, age |-> sending.mock.age, mock |-> TRUE]
    <3>1. reals = {}
      <4> SUFFICES ASSUME NEW a \in reals PROVE FALSE
        OBVIOUS
      <4>1. a \in Nat /\ a <= genTs /\ last.some /\ last.age <= a /\ last.age \in Nat
        BY DEF NodataInv, RealsWin, Ages
      <4>2. sending.mock.age \in Nat /\ sending.mock.age >= genTs
        BY <2>1 DEF NodataInv, MocksAreOld, Ages
      <4> QED
        BY <2>3, <4>1, <4>2 DEF genTs
    <3> QED
      BY <2>1, <2>3, <3>1 DEF NodataInv, Ages, MocksAreOld, RealsWin, FetchKnows, MockInGap, NoMock
  <2> QED
    BY <1>9, <2>2, <2>3 DEF sendItemsToTransfer
<1>10. CASE UNCHANGED nodataVars
  BY <1>1, <1>10 DEF nodataVars
<1> QED
  BY <1>2, <1>3, <1>4, <1>5, <1>6, <1>7, <1>8, <1>9, <1>10 DEF NodataStep

\* As long as the collector has not failed for two steps, no mock is made for a
\* step in which the agent sent a point, however the crons, the sender and the
\* agent's points interleave (judge_cron.go, genMock).
THEOREM NoMockOverReal == NodataSpec => []MockInGap
<1>1. NodataInit => NodataInv
  <2> SUFFICES ASSUME NodataInit PROVE NodataInv
    OBVIOUS
  <2>1. /\ reals = {} /\ last = NoPoint /\ item = NoItem /\ mock = NoMock /\ outage = 0
        /\ sending = [at |-> "idle", mock |-> NoMock] /\ taken = [hit |-> FALSE, outage |-> 0]
    BY DEF NodataInit
  <2>2. /\ last.age = 0 /\ item.age = 0 /\ item.fage = 0 /\ mock.age = 0 /\ ~mock.some
        /\ sending.at = "idle" /\ sending.mock = mock /\ taken.outage = 0 /\ ~taken.hit
    BY <2>1 DEF NoPoint, NoItem, NoMock
  <2>3. /\ last = [some |-> last.some, age |-> last.age, mock |-> last.mock]
        /\ item = [some |-> item.some, age |-> item.age, mock |-> item.mock, fage |-> item.fage]
        /\ mock = [some |-> mock.some, age |-> mock.age]
    BY <2>1 DEF NoPoint, NoItem, NoMock
  <2>4. sending = [at |-> sending.at, mock |-> [some |-> sending.mock.some, age |-> sending.mock.age]]
    BY <2>1 DEF NoMock
  <2>5. Ages
    BY <2>1, <2>2, <2>3, <2>4 DEF Ages
  <2> QED
    BY <2>1, <2>2, <2>5 DEF NodataInv, MocksAreOld, RealsWin, FetchKnows, MockInGap
<1>2. NodataInv => MockInGap
  BY DEF NodataInv
<1> QED
  BY <1>1, <1>2, NodataNext, PTL DEF NodataSpec

============================================================================
