-------------------------------- MODULE Hbs --------------------------------
(* From the portal database to the judges: hbs reloads nine tables one after the  *)
(* other, each by itself, and answers judges and agents from what it has; a judge *)
(* asks again and again and keeps the last answer. One host is followed.          *)
EXTENDS Naturals, FiniteSets, Sequences, FiniteSetsExt, SequencesExt

CONSTANTS HbsTpls,          \* ids of templates
          HbsGrps,          \* ids of host groups
          StrategyRows,     \* rows of table strategy; uuid is metric and tags
          InheritLimit,     \* 10 in ParentIds
          MaxEdits,         \* changes of the database
          MaxHbsFaults      \* failing queries and calls

ASSUME HbsAssumption ==
    /\ IsFiniteSet(HbsTpls) /\ HbsTpls \subseteq Nat \ {0} /\ HbsTpls # {}
    /\ IsFiniteSet(HbsGrps) /\ HbsGrps \subseteq Nat \ {0} /\ HbsGrps # {}
    /\ InheritLimit \in Nat \ {0} /\ MaxEdits \in Nat /\ MaxHbsFaults \in Nat

VARIABLES db,           \* the tables, as far as they are about the host
          cache,        \* the tables as hbs has them
          loading,      \* the table LoopInit loads next
          judge,        \* StrategyMap and ExpressionMap of a judge: ids of the host's rules
          edits, hbsFaults,
          since,        \* history: tables loaded since the last change or fault
          told          \* history: maps of the judge replaced since all tables are current

hbsVars == <<db, cache, loading, judge, edits, hbsFaults, since, told>>

(* The order of LoopInit. *)
Tables == <<"plugins", "groupTemplates", "hostGroups", "hosts", "templates", "strategies",
            "hostTemplateIds", "expressions", "monitored">>

(* Loads until every table is current: a round and one table more, for the        *)
(* strategies are filtered by the templates loaded before them.                   *)
Current == Len(Tables) + 1

(* An expression as it is made, and one without an action, paused, or with less   *)
(* than a metric and a tag.                                                       *)
ActiveExpression == [id |-> "e", action_id |-> 1, pause |-> FALSE, tags |-> 2]
Expressions == {ActiveExpression, [ActiveExpression EXCEPT !.action_id = 0],
                [ActiveExpression EXCEPT !.pause = TRUE], [ActiveExpression EXCEPT !.tags = 1]}

(* The database: templates with parents, strategies, the groups of the host, what *)
(* is bound to the groups, whether the host is known and monitored.               *)
DbInit ==
    [tpls |-> [t \in HbsTpls |-> IF t = Min(HbsTpls) THEN 0 ELSE t - 1],
     strategies |-> StrategyRows, grpTpl |-> {Min(HbsGrps)} \X HbsTpls, grps |-> {Min(HbsGrps)},
     plugins |-> {<<Min(HbsGrps), "sys">>}, known |-> TRUE, maintain |-> FALSE, night |-> FALSE,
     expressions |-> {ActiveExpression}]

Empty == [t \in {Tables[i] : i \in 1..Len(Tables)} |->
            IF t \in {"templates", "hostTemplateIds"} THEN <<>> ELSE IF t \in {"hosts", "monitored"} THEN FALSE ELSE {}]

HbsInit ==
    /\ db = DbInit
    /\ cache = Empty /\ loading = 1
    /\ judge = [strategies |-> {}, expressions |-> {}]
    /\ edits = 0 /\ hbsFaults = 0
    /\ since = 0 /\ told = {}

HbsFault == hbsFaults < MaxHbsFaults /\ hbsFaults' = hbsFaults + 1
Members(s) == {s[i] : i \in DOMAIN s}

----------------------------------------------------------------------------
(* Inheritance (cache.ParentIds, CalcInheritStrategies).                          *)

(* A template and its ancestors, the oldest first; none at all when the chain has *)
(* InheritLimit templates or more.                                                *)
ParentIds(tpls, t) ==
    LET up[n \in 0..InheritLimit] ==
            IF n = 0 THEN t ELSE LET c == up[n - 1] IN IF c \in DOMAIN tpls THEN tpls[c] ELSE 0
        line == [n \in 0..InheritLimit |-> up[n]]
        depth == CHOOSE n \in 0..InheritLimit :
                   /\ n = InheritLimit \/ line[n] \notin DOMAIN tpls
                   /\ \A k \in 0..(n - 1) : line[k] \in DOMAIN tpls
    IN IF depth = InheritLimit THEN <<>> ELSE [i \in 1..depth |-> line[depth - i]]

(* Empty chains are skipped, and those contained in another are dropped, unless   *)
(* the search meets an equal one first.                                           *)
UniqueBuckets(buckets) ==
    LET some == {i \in DOMAIN buckets : buckets[i] # <<>>}
        over(i) == {j \in some \ {i} : Members(buckets[i]) \subseteq Members(buckets[j])}
    IN {i \in some : over(i) = {} \/ buckets[Min(over(i))] = buckets[i]}

(* Slip: the strategies of the parent win. *)
OverridesParent(bucket, ss, s, i) ==
    ~\E j \in 1..(i - 1) : \E o \in ss : o.tpl = bucket[j] /\ o.uuid = s.uuid
(* A strategy of a chain counts unless a younger template has one for the same    *)
(* metric and tags.                                                               *)
Overrides(bucket, ss, s, i) ==
    ~\E j \in (i + 1)..Len(bucket) : \E o \in ss : o.tpl = bucket[j] /\ o.uuid = s.uuid
OfBucket(bucket, ss) ==
    {s.id : s \in {x \in ss : \E i \in 1..Len(bucket) : bucket[i] = x.tpl /\ Overrides(bucket, ss, x, i)}}

Buckets(tpls, tids) == [i \in DOMAIN tids |-> ParentIds(tpls, tids[i])]
CalcInheritStrategies(tpls, tids, ss) ==
    LET buckets == Buckets(tpls, tids)
    IN UNION {OfBucket(buckets[i], ss) : i \in UniqueBuckets(buckets)}

----------------------------------------------------------------------------
(* Loading. What each query returns, for the host.                                *)

QueryPlugins(d) == d.plugins
QueryGroupTemplates(d) == d.grpTpl
QueryHostGroups(d) == d.grps
QueryHosts(d) == d.known
QueryTemplates(d) == d.tpls

(* Rules outside their hours are left out, and those whose template is not loaded.*)
InHours(d, s) == s.hours = "always" \/ ~d.night
QueryStrategies(d, tpls) == {s \in d.strategies : InHours(d, s) /\ s.tpl \in DOMAIN tpls}

(* The join of bindings and memberships has a row per pair, in any order: a       *)
(* template bound to two groups of the host comes twice.                          *)
QueryHostTemplateIds(d) ==
    LET pairs == {p \in d.grpTpl : p[1] \in d.grps}
    IN {[i \in 1..Cardinality(pairs) |-> s[i][2]] : s \in SetToSeqs(pairs)}

(* Those with an action, not the paused ones, nor those that cannot be parsed. *)
parseExpression(e) == e.tags >= 2
QueryExpressions(d) ==
    {e.id : e \in {x \in d.expressions : x.action_id > 0 /\ ~x.pause /\ parseExpression(x)}}
QueryMonitoredHosts(d) == d.known /\ ~d.maintain

(* Rows for the agents: the few metrics an agent must be told to collect, at any  *)
(* hour, straight from the database.                                              *)
QueryBuiltinMetrics(d, tids) == {s \in d.strategies : s.builtin /\ s.tpl \in tids}

(* One step of LoopInit: a query that fails leaves the table. *)
Load(t, answers) ==
    /\ Tables[loading] = t
    /\ loading' = (loading % Len(Tables)) + 1
    /\ \/ /\ \E rows \in answers : cache' = [cache EXCEPT ![t] = rows]
          /\ since' = Min({since + 1, Current}) /\ UNCHANGED hbsFaults
       \/ /\ HbsFault /\ UNCHANGED cache
          /\ since' = IF since = Current THEN Current ELSE 0
    /\ UNCHANGED <<db, judge, edits, told>>

GroupPluginsInit == Load("plugins", {QueryPlugins(db)})
GroupTemplatesInit == Load("groupTemplates", {QueryGroupTemplates(db)})
HostGroupsMapInit == Load("hostGroups", {QueryHostGroups(db)})
HostMapInit == Load("hosts", {QueryHosts(db)})
TemplateCacheInit == Load("templates", {QueryTemplates(db)})

(* Without any template the strategies are not queried and stay. *)
StrategiesInit ==
    Load("strategies", IF cache["templates"] = <<>> THEN {cache["strategies"]}
                       ELSE {QueryStrategies(db, cache["templates"])})

HostTemplateIdsInit == Load("hostTemplateIds", QueryHostTemplateIds(db))
ExpressionCacheInit == Load("expressions", {QueryExpressions(db)})
MonitoredHostsInit == Load("monitored", {QueryMonitoredHosts(db)})

LoopInit ==
    \/ GroupPluginsInit \/ GroupTemplatesInit \/ HostGroupsMapInit \/ HostMapInit
    \/ TemplateCacheInit \/ StrategiesInit \/ HostTemplateIdsInit
    \/ ExpressionCacheInit \/ MonitoredHostsInit

----------------------------------------------------------------------------
(* Answers.                                                                       *)

GetStrategies ==
    IF ~cache["monitored"] THEN {}
    ELSE CalcInheritStrategies(cache["templates"], cache["hostTemplateIds"], cache["strategies"])
GetExpressions == cache["expressions"]

(* For the agent of the host. *)
GetPlugins == IF ~cache["hosts"] THEN {} ELSE {p[2] : p \in {q \in cache["plugins"] : q[1] \in cache["hostGroups"]}}
GetBuiltinMetrics ==
    LET tids == {p[2] : p \in {q \in cache["groupTemplates"] : q[1] \in cache["hostGroups"]}}
        all == tids \cup UNION {Members(ParentIds(cache["templates"], t)) : t \in tids}
    IN IF ~cache["hosts"] THEN {} ELSE {s.id : s \in QueryBuiltinMetrics(db, all)}

(* A judge replaces its map by the answer; a call that fails leaves it.           *)
syncStrategies ==
    /\ judge' = [judge EXCEPT !.strategies = GetStrategies]
    /\ told' = IF since = Current THEN told \cup {"strategies"} ELSE {}
    /\ UNCHANGED <<db, cache, loading, edits, hbsFaults, since>>

syncExpression ==
    /\ judge' = [judge EXCEPT !.expressions = GetExpressions]
    /\ told' = IF since = Current THEN told \cup {"expressions"} ELSE {}
    /\ UNCHANGED <<db, cache, loading, edits, hbsFaults, since>>

----------------------------------------------------------------------------
(* The api changes the database, and the hours pass.                              *)
Toggle(S, e) == IF e \in S THEN S \ {e} ELSE S \cup {e}

DbEdit ==
    /\ edits < MaxEdits /\ edits' = edits + 1
    /\ \/ \E g \in HbsGrps : db' = [db EXCEPT !.grps = Toggle(@, g)]
       \/ \E g \in HbsGrps, t \in HbsTpls : db' = [db EXCEPT !.grpTpl = Toggle(@, <<g, t>>)]
       \/ \E s \in StrategyRows : db' = [db EXCEPT !.strategies = Toggle(@, s)]
       \/ \E t \in DOMAIN db.tpls, p \in {0} \cup HbsTpls : db' = [db EXCEPT !.tpls[t] = p]
       \/ \E t \in DOMAIN db.tpls :
            db' = [db EXCEPT !.tpls = [x \in DOMAIN db.tpls \ {t} |-> db.tpls[x]],
                             !.strategies = {s \in db.strategies : s.tpl # t},
                             !.grpTpl = {b \in db.grpTpl : b[2] # t}]
       \/ \E g \in HbsGrps : db' = [db EXCEPT !.plugins = Toggle(@, <<g, "sys">>)]
       \/ db' = [db EXCEPT !.maintain = ~@]
       \/ db' = [db EXCEPT !.known = ~@]
       \/ db' = [db EXCEPT !.night = ~@]
       \/ \E e \in Expressions : db' = [db EXCEPT !.expressions = {e}]
    /\ since' = 0 /\ told' = {}
    /\ UNCHANGED <<cache, loading, judge, hbsFaults>>

----------------------------------------------------------------------------
HbsNextStep == LoopInit \/ syncStrategies \/ syncExpression \/ DbEdit

HbsSpec == HbsInit /\ [][HbsNextStep]_hbsVars

HbsTypeOK ==
    /\ loading \in 1..Len(Tables)
    /\ judge.strategies \subseteq {s.id : s \in StrategyRows}
    /\ \A s \in cache["strategies"] : s \in StrategyRows
    /\ Members(cache["hostTemplateIds"]) \subseteq HbsTpls

(* What the database means, without loops: the strategies of a bound template and *)
(* its ancestors, except those that a younger template of the chain replaces;     *)
(* chains that are part of another bound chain do not count by themselves.        *)
Bound(d) == {p[2] : p \in {q \in d.grpTpl : q[1] \in d.grps}}
Chains(d) == {ParentIds(d.tpls, t) : t \in Bound(d)} \ {<<>>}
Maximal(d) == {c \in Chains(d) : ~\E b \in Chains(d) : b # c /\ Members(c) \subseteq Members(b)}
Replaced(c, i, uuid, ss) == \E j \in DOMAIN c, o \in ss : j > i /\ c[j] = o.tpl /\ o.uuid = uuid
Meant(d) ==
    IF d.maintain \/ ~d.known THEN {}
    ELSE LET now == {s \in d.strategies : s.hours = "always" \/ ~d.night} IN
         {s.id : s \in {x \in now : \E c \in Maximal(d) : \E i \in DOMAIN c :
                           c[i] = x.tpl /\ ~Replaced(c, i, x.uuid, now)}}
Twice(d) == \E t \in HbsTpls : \E g, h \in d.grps : g # h /\ {<<g, t>>, <<h, t>>} \subseteq d.grpTpl

(* However the changes, the loading of the tables and the calls interleave, and   *)
(* whichever queries fail: a round of LoopInit and one table after the database   *)
(* came to rest, agents are told the plugins and metrics it means for their host, *)
(* and the next answer leaves the judge with the rules it means. Only when the    *)
(* host gets a template through two groups may rules that a younger template      *)
(* replaces be there as well.                                                     *)
AnswersSettle ==
    since = Current =>
       /\ GetPlugins = IF db.known THEN {p[2] : p \in {q \in db.plugins : q[1] \in db.grps}} ELSE {}
       /\ GetBuiltinMetrics =
            IF ~db.known THEN {}
            ELSE {s.id : s \in {x \in db.strategies :
                   x.builtin /\ (x.tpl \in Bound(db) \/ \E c \in Chains(db) : x.tpl \in Members(c))}}
       /\ told = {"strategies", "expressions"} =>
            LET meant == Meant(db) IN
            /\ meant \subseteq judge.strategies
            /\ Twice(db) \/ judge.strategies = meant
            /\ judge.expressions = {e.id : e \in {x \in db.expressions : x.action_id > 0 /\ ~x.pause /\ x.tags >= 2}}

============================================================================
