----------------------------- MODULE Dashboard -----------------------------
(* Screens, graphs and temporary graphs of the dashboard (controllers             *)
(* dashboard_screen and dashboard_graph). A string is the sequence of its bytes,  *)
(* because what a temporary graph is known by is put together from strings.       *)
EXTENDS Db, Sequences, SequencesExt

CONSTANTS EndpointLists, CounterLists,  \* the lists of strings a client may send
          MaxScreens, MaxGraphs, MaxTmp, MaxBoardReqs

VARIABLES screens,      \* table dashboard_screen
          graphs,       \* table dashboard_graph
          tmpGraphs,    \* table tmp_graph
          creating,     \* temporary graphs inserted and not yet looked up
          answered,     \* what the clients asked for and the ids they got
          boardNext, boardReqs

boardVars == <<screens, graphs, tmpGraphs, creating, answered, boardNext, boardReqs>>

----------------------------------------------------------------------------
(* Strings: what sort.Strings, strings.Join and strings.Split do, with "|".       *)

Colon == 58
Bar == 124
String == Seq(Nat)

Less(s, t) ==
    \/ s # t /\ IsPrefix(s, t)
    \/ \E i \in DOMAIN s \cap DOMAIN t :
         s[i] < t[i] /\ SubSeq(s, 1, i - 1) = SubSeq(t, 1, i - 1)

Sorted(l) == SortSeq(l, Less)

(* A bar between each two elements. *)
Join(l) == FlattenSeq([i \in 1..(2 * Len(l) - 1) |->
                         IF i % 2 = 1 THEN l[(i + 1) \div 2] ELSE <<Bar>>])

Split(s) ==
    LET cuts == <<0>> \o SetToSortSeq({i \in DOMAIN s : s[i] = Bar}, <) \o <<Len(s) + 1>>
    IN  [k \in 1..(Len(cuts) - 1) |-> SubSeq(s, cuts[k] + 1, cuts[k + 1] - 1)]

(* The column of a list. *)
Column(l) == Join(Sorted(l))

ASSUME BoardAssumption ==
    /\ MaxScreens \in Nat /\ MaxGraphs \in Nat /\ MaxTmp \in Nat /\ MaxBoardReqs \in Nat
    /\ \A l \in EndpointLists \cup CounterLists : Column(l) \in String

DashboardScreen == [id : 1..MaxScreens, pid : 0..MaxScreens, name : {"x", "y"}]
DashboardGraph == [id : 1..MaxGraphs, screen_id : 1..MaxScreens, hosts : String, counters : String,
                   timespan : {60, 3600}, falcon_tags : BOOLEAN]
DashboardTmpGraph == [id : 1..MaxTmp, endpoints : String, counters : String, ck : String]

BoardTypeOK ==
    /\ screens \subseteq DashboardScreen
    /\ graphs \subseteq DashboardGraph
    /\ tmpGraphs \subseteq DashboardTmpGraph
    /\ \A a \in answered : a.es \in EndpointLists /\ a.cs \in CounterLists /\ a.id \in 1..MaxTmp

BoardInit ==
    /\ screens = {} /\ graphs = {} /\ tmpGraphs = {} /\ creating = {} /\ answered = {}
    /\ boardNext = [screen |-> 1, graph |-> 1, tmp |-> 1] /\ boardReqs = 0

BoardRequest == boardReqs < MaxBoardReqs /\ boardReqs' = boardReqs + 1

----------------------------------------------------------------------------
(* Screens. The pair of parent and name is unique; a second create answers the    *)
(* screen that is there. Deleting one leaves its children and graphs.             *)

ScreenAt(pid, name) == {s \in screens : s.pid = pid /\ s.name = name}

ScreenCreate(pid, name) ==
    /\ BoardRequest
    /\ IF ScreenAt(pid, name) = {}
       THEN /\ boardNext.screen <= MaxScreens
            /\ screens' = screens \cup {[id |-> boardNext.screen, pid |-> pid, name |-> name]}
            /\ boardNext' = [boardNext EXCEPT !.screen = @ + 1]
       ELSE UNCHANGED <<screens, boardNext>>
    /\ UNCHANGED <<graphs, tmpGraphs, creating, answered>>

ScreenDelete(s) ==
    /\ BoardRequest
    /\ screens' = Without(screens, s)
    /\ UNCHANGED <<graphs, tmpGraphs, creating, answered, boardNext>>

(* Parent and name are set when the form has them; the update fails when the pair *)
(* is taken.                                                                      *)
Unset == -1

ScreenUpdate(s, pid, name) ==
    /\ BoardRequest /\ s \in Ids(screens)
    /\ LET new == [Row(screens, s) EXCEPT !.pid = IF pid = Unset THEN @ ELSE pid,
                                          !.name = IF name = "" THEN @ ELSE name]
       IN  /\ \A o \in ScreenAt(new.pid, new.name) : o.id = s
           /\ screens' = Save(screens, new)
    /\ UNCHANGED <<graphs, tmpGraphs, creating, answered, boardNext>>

ScreenGet(s) == {x \in screens : x.id = s}
ScreenGetsByPid(pid) == {x \in screens : x.pid = pid}

----------------------------------------------------------------------------
(* Graphs of a screen. Creating one drops the tags; a zero or empty field of an   *)
(* update leaves the column as it was, and an unknown id is answered all the same.*)

DashboardGraphCreate(s, es, cs, span) ==
    /\ BoardRequest /\ boardNext.graph <= MaxGraphs
    /\ graphs' = graphs \cup
         {[id |-> boardNext.graph, screen_id |-> s, hosts |-> Column(es), counters |-> Column(cs),
           timespan |-> IF span = 0 THEN 3600 ELSE span, falcon_tags |-> FALSE]}
    /\ boardNext' = [boardNext EXCEPT !.graph = @ + 1]
    /\ UNCHANGED <<screens, tmpGraphs, creating, answered>>

DashboardGraphUpdate(g, s, es, cs, span, tags) ==
    /\ BoardRequest
    /\ graphs' =
         {IF r.id # g THEN r
          ELSE [r EXCEPT !.screen_id = IF s = 0 THEN @ ELSE s,
                         !.hosts = IF es = <<>> THEN @ ELSE Column(es),
                         !.counters = IF cs = <<>> THEN @ ELSE Column(cs),
                         !.timespan = IF span = 0 THEN @ ELSE span,
                         !.falcon_tags = @ \/ tags] : r \in graphs}
    /\ UNCHANGED <<screens, tmpGraphs, creating, answered, boardNext>>

DashboardGraphDelete(g) ==
    /\ BoardRequest
    /\ graphs' = Without(graphs, g)
    /\ UNCHANGED <<screens, tmpGraphs, creating, answered, boardNext>>

Pages(rows) == {<<r.id, Split(r.hosts), Split(r.counters)>> : r \in rows}
DashboardGraphGet(g) == Pages({r \in graphs : r.id = g})
DashboardGraphGetsByScreenID(s) == Pages({r \in graphs : r.screen_id = s})

----------------------------------------------------------------------------
(* Temporary graphs. Both columns, with a colon between them, are hashed for the  *)
(* key, which is unique; two keys with one md5 are not considered.                *)

(* Slip: the endpoints are taken in the order of the client. *)
KeyAsSent(es, cs) == Join(es) \o <<Colon>> \o Column(cs)
Key(es, cs) == Column(es) \o <<Colon>> \o Column(cs)

DashboardTmpGraphCreate(es, cs) ==
    /\ BoardRequest
    /\ IF \E r \in tmpGraphs : r.ck = Key(es, cs)
       THEN UNCHANGED <<tmpGraphs, boardNext>>
       ELSE /\ boardNext.tmp <= MaxTmp
            /\ tmpGraphs' = tmpGraphs \cup
                 {[id |-> boardNext.tmp, endpoints |-> Column(es), counters |-> Column(cs),
                   ck |-> Key(es, cs)]}
            /\ boardNext' = [boardNext EXCEPT !.tmp = @ + 1]
    /\ creating' = creating \cup {<<es, cs>>}
    /\ UNCHANGED <<screens, graphs, answered>>

(* The row is looked up by its key in a second statement. *)
TmpGraphAnswer(es, cs) ==
    /\ <<es, cs>> \in creating
    /\ \E r \in tmpGraphs :
         /\ r.ck = Key(es, cs)
         /\ answered' = answered \cup {[es |-> es, cs |-> cs, id |-> r.id]}
    /\ creating' = creating \ {<<es, cs>>}
    /\ UNCHANGED <<screens, graphs, tmpGraphs, boardNext, boardReqs>>

DashboardTmpGraphQuery(id) ==
    {<<Split(r.endpoints), Split(r.counters)>> : r \in {x \in tmpGraphs : x.id = id}}

----------------------------------------------------------------------------
BoardNextStep ==
    \/ \E pid \in 0..MaxScreens, name \in {"x", "y"} : ScreenCreate(pid, name)
    \/ \E s \in 1..MaxScreens :
         \/ ScreenDelete(s)
         \/ \E pid \in {Unset} \cup 0..MaxScreens, name \in {"", "x", "y"} : ScreenUpdate(s, pid, name)
         \/ \E es \in EndpointLists, cs \in CounterLists, span \in {0, 60} :
              DashboardGraphCreate(s, es, cs, span)
    \/ \E g \in 1..MaxGraphs :
         \/ DashboardGraphDelete(g)
         \/ \E s \in 0..MaxScreens, es \in {<<>>} \cup EndpointLists, cs \in {<<>>} \cup CounterLists,
              span \in {0, 60}, tags \in BOOLEAN : DashboardGraphUpdate(g, s, es, cs, span, tags)
    \/ \E es \in EndpointLists, cs \in CounterLists :
         DashboardTmpGraphCreate(es, cs) \/ TmpGraphAnswer(es, cs)

BoardSpec == BoardInit /\ [][BoardNextStep]_boardVars

----------------------------------------------------------------------------
NoColon(s) == \A i \in DOMAIN s : s[i] # Colon

(* A link to a temporary graph is stable: who asks for the same endpoints and     *)
(* counters, in whatever order and however the requests interleave, gets the same *)
(* id, and the id shows the strings that were asked for, unless the colon between *)
(* the columns can be taken for another one: the endpoint a with the counter b:c  *)
(* and the endpoint a:b with the counter c are one graph, that of whoever asked   *)
(* first (DashboardTmpGraphCreate).                                               *)
TmpGraphStable ==
    /\ \A a, b \in answered :
         Column(a.es) = Column(b.es) /\ Column(a.cs) = Column(b.cs) => a.id = b.id
    /\ \A a \in answered : \E r \in tmpGraphs :
         /\ r.id = a.id
         /\ NoColon(Column(a.es)) /\ NoColon(r.endpoints) =>
              DashboardTmpGraphQuery(a.id) = {<<Split(Column(a.es)), Split(Column(a.cs))>>}

============================================================================
