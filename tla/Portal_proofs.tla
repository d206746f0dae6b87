--------------------------- MODULE Portal_proofs ---------------------------
(***************************************************************************)
(* The tables behind the portal, for any number of rows and requests: host *)
(* groups, templates, the dashboard, the alarm cases, and the goroutines   *)
(* of the aggregator that follow the cluster table.  Each part has its own *)
(* specification and its own inductive invariant.  What the handlers share *)
(* is Db, whose statements are described by the first lemmas.              *)
(***************************************************************************)
EXTENDS HostGroups, Templates, Dashboard, AlarmCases, Aggregator, FiniteSetTheorems,
        SequenceTheorems, WellFoundedInduction, TLAPS

----------------------------------------------------------------------------
(* Sums over finite sets.  SumFunctionOnSet is a recursive function on the *)
(* subsets of the set; that there is such a function and what it returns   *)
(* follows from the least size, and the smallest subset, for which it      *)
(* would fail.                                                             *)

\* The least element of a set of naturals.
LEMMA LeastNat ==
    ASSUME NEW T, T \subseteq Nat, T # {}
    PROVE  \E x \in T : \A y \in T : x <= y
<1>1. PICK R : R = OpToRel(<, Nat)
  OBVIOUS
<1>2. IsWellFoundedOn(R, Nat)
  BY <1>1, NatLessThanWellFounded
<1>3. PICK x \in T : \A y \in T : ~(<<y, x>> \in R)
  BY <1>2, WFMin
<1>4. ASSUME NEW y \in T PROVE x <= y
  <2>1. <<y, x>> \notin R
    BY <1>3
  <2>2. y < x => <<y, x>> \in R
    BY <1>1 DEF OpToRel
  <2> QED
    BY <2>1, <2>2
<1> QED
  BY <1>4

\* What SumFunctionOnSet is at each subset, when there is such a function.

Pick(s) == CHOOSE x \in s : TRUE
Adds(f, D, F) == F = [s \in D |-> IF s = {} THEN 0 ELSE f[Pick(s)] + F[s \ {Pick(s)}]]
Small(S, n) == {s \in SUBSET S : Cardinality(s) <= n}

\* One element less.
LEMMA OneLess ==
    ASSUME NEW S, IsFiniteSet(S), NEW s, s \subseteq S, s # {}
    PROVE  /\ Pick(s) \in s /\ IsFiniteSet(s) /\ Cardinality(s) \in Nat /\ s \ {Pick(s)} \subseteq S
           /\ s \ {Pick(s)} # s /\ Cardinality(s \ {Pick(s)}) = Cardinality(s) - 1
           /\ Cardinality(s \ {Pick(s)}) \in Nat
<1>1. Pick(s) \in s
  BY DEF Pick
<1>2. IsFiniteSet(s) /\ Cardinality(s) \in Nat
  BY FS_Subset, FS_CardinalityType
<1>3. IsFiniteSet(s \ {Pick(s)}) /\ Cardinality(s \ {Pick(s)}) = Cardinality(s) - 1
  BY <1>1, <1>2, FS_RemoveElement
<1>4. Cardinality(s \ {Pick(s)}) \in Nat
  BY <1>3, FS_CardinalityType
<1> QED
  BY <1>1, <1>2, <1>3, <1>4

\* The sum function exists up to any size.
LEMMA SumsUpTo ==
    ASSUME NEW S, IsFiniteSet(S), NEW f, NEW m \in Nat
    PROVE  \E F : Adds(f, Small(S, m), F)
<1> DEFINE Bad == {n \in Nat : ~\E F : Adds(f, Small(S, n), F)}
<1>1. ASSUME Bad # {} PROVE FALSE
  <2>0. Bad \subseteq Nat
    OBVIOUS
  <2>1. \E n \in Bad : \A k \in Bad : n <= k
    <3> HIDE DEF Bad
    <3> QED
      BY <1>1, <2>0, LeastNat
  <2>2. PICK n \in Nat : /\ ~\E F : Adds(f, Small(S, n), F)
                         /\ \A k \in Nat : k < n => \E F : Adds(f, Small(S, k), F)
    BY <2>1
  <2>3. CASE n = 0
    <3>1. PICK F : F = [s \in Small(S, 0) |-> 0]
      OBVIOUS
    <3>2. \A s \in Small(S, 0) : s = {}
      <4>1. ASSUME NEW s \in Small(S, 0), s # {} PROVE FALSE
        <5>1. Cardinality(s) <= 0 /\ s \subseteq S
          BY <4>1 DEF Small
        <5>2. Cardinality(s) \in Nat /\ Cardinality(s) - 1 \in Nat
          BY <4>1, <5>1, OneLess
        <5> QED
          BY <5>1, <5>2
      <4> QED
        BY <4>1
    <3>3. Adds(f, Small(S, 0), F)
      BY <3>1, <3>2 DEF Adds
    <3> QED
      BY <2>2, <2>3, <3>3
  <2>4. CASE n # 0
    <3>1. n - 1 \in Nat /\ n - 1 < n
      BY <2>4
    <3>2. PICK F : Adds(f, Small(S, n - 1), F)
      BY <2>2, <3>1
    <3>3. PICK G : G = [s \in Small(S, n) |-> IF s = {} THEN 0 ELSE f[Pick(s)] + F[s \ {Pick(s)}]]
      OBVIOUS
    <3>4. ASSUME NEW s \in Small(S, n), s # {} PROVE G[s \ {Pick(s)}] = F[s \ {Pick(s)}]
      <4>1. PICK r : r = s \ {Pick(s)}
        OBVIOUS
      <4>2. r \in Small(S, n - 1) /\ r \in Small(S, n)
        <5>1. s \subseteq S /\ Cardinality(s) <= n
          BY <3>4 DEF Small
        <5>2. r \subseteq S /\ Cardinality(r) = Cardinality(s) - 1 /\ Cardinality(s) \in Nat
          BY <3>4, <4>1, <5>1, OneLess
        <5> QED
          BY <5>1, <5>2, <3>1 DEF Small
      <4>3. G[r] = IF r = {} THEN 0 ELSE f[Pick(r)] + F[r \ {Pick(r)}]
        BY <3>3, <4>2
      <4>4. F[r] = IF r = {} THEN 0 ELSE f[Pick(r)] + F[r \ {Pick(r)}]
        BY <3>2, <4>2 DEF Adds
      <4> QED
        BY <4>1, <4>3, <4>4
    <3>5. Adds(f, Small(S, n), G)
      BY <3>3, <3>4 DEF Adds
    <3> QED
      BY <2>2, <3>5
  <2> QED
    BY <2>3, <2>4
<1> QED
  BY <1>1

\* SumFunctionOnSet is the sum function at the whole set.
LEMMA SumIs ==
    ASSUME NEW S, IsFiniteSet(S), NEW f
    PROVE  \E G : Adds(f, SUBSET S, G) /\ SumFunctionOnSet(f, S) = G[S]
<1>1. PICK n \in Nat : n = Cardinality(S)
  BY FS_CardinalityType
<1>2. SUBSET S = Small(S, n)
  <2>1. ASSUME NEW T \in SUBSET S PROVE Cardinality(T) <= n
    BY <1>1, FS_Subset
  <2> QED
    BY <2>1 DEF Small
<1>3. \E F : Adds(f, SUBSET S, F)
  <2>1. PICK D : D = SUBSET S
    OBVIOUS
  <2>2. \E F : Adds(f, Small(S, n), F)
    BY SumsUpTo
  <2>3. D = Small(S, n)
    BY <1>2, <2>1
  <2> QED
    BY <2>1, <2>2, <2>3
<1>4. PICK G : G = (CHOOSE H : Adds(f, SUBSET S, H))
  OBVIOUS
<1>5. Adds(f, SUBSET S, G)
  BY <1>3, <1>4
<1>6. SumFunctionOnSet(f, S) = G[S]
  BY <1>4 DEF SumFunctionOnSet, FoldFunctionOnSet, MapThenFoldSet, Adds, Pick
<1> QED
  BY <1>5, <1>6

\* Multiplication by one more.
LEMMA OnceMore == ASSUME NEW a \in Int, NEW n \in Int
                  PROVE  a * n \in Int /\ a * (n - 1) \in Int /\ a * n = a * (n - 1) + a /\ a * 0 = 0
OBVIOUS

\* A sum of n numbers between lo and hi is between n times lo and n times hi.
LEMMA SumBounds ==
    ASSUME NEW S, IsFiniteSet(S), NEW f, NEW lo \in Int, NEW hi \in Int,
           \A x \in S : f[x] \in Int /\ lo <= f[x] /\ f[x] <= hi
    PROVE  /\ SumFunctionOnSet(f, S) \in Int
           /\ lo * Cardinality(S) <= SumFunctionOnSet(f, S)
           /\ SumFunctionOnSet(f, S) <= hi * Cardinality(S)
<1>1. PICK G : Adds(f, SUBSET S, G) /\ SumFunctionOnSet(f, S) = G[S]
  BY SumIs
<1> DEFINE Good(s) == /\ G[s] \in Int /\ lo * Cardinality(s) <= G[s]
                      /\ G[s] <= hi * Cardinality(s)
           Bad == {s \in SUBSET S : ~Good(s)}
<1>2. ASSUME NEW s \in SUBSET S, s # {}, Good(s \ {Pick(s)}) PROVE Good(s)
  <2>1. PICK r : r = s \ {Pick(s)}
    OBVIOUS
  <2>2. /\ Cardinality(s) \in Nat /\ Cardinality(r) = Cardinality(s) - 1
        /\ Pick(s) \in S /\ G[r] \in Int /\ lo * Cardinality(r) <= G[r] /\ G[r] <= hi * Cardinality(r)
    BY <1>2, <2>1, OneLess
  <2>3. G[s] = f[Pick(s)] + G[r]
    BY <1>1, <1>2, <2>1 DEF Adds
  <2>4. f[Pick(s)] \in Int /\ lo <= f[Pick(s)] /\ f[Pick(s)] <= hi
    BY <2>2
  <2>5. /\ lo * Cardinality(s) = lo * Cardinality(r) + lo /\ lo * Cardinality(r) \in Int
        /\ hi * Cardinality(s) = hi * Cardinality(r) + hi /\ hi * Cardinality(r) \in Int
    BY <2>2, OnceMore
  <2> QED
    BY <2>2, <2>3, <2>4, <2>5
<1>3. Good({})
  <2>1. G[{}] = 0
    BY <1>1 DEF Adds
  <2>2. Cardinality({}) = 0
    BY FS_EmptySet
  <2> QED
    BY <2>1, <2>2, OnceMore
<1>4. ASSUME Bad # {} PROVE FALSE
  <2>1. IsWellFoundedOn(StrictSubsetOrdering(S), FiniteSubsetsOf(S))
    BY FS_StrictSubsetOrderingWellFounded
  <2>2. Bad \subseteq FiniteSubsetsOf(S)
    BY FS_Subset DEF FiniteSubsetsOf
  <2>3. \E s \in Bad : \A r \in Bad : ~(<<r, s>> \in StrictSubsetOrdering(S))
    <3> HIDE DEF Bad
    <3> QED
      BY <1>4, <2>1, <2>2, WFMin
  <2>4. PICK s \in SUBSET S : ~Good(s) /\ \A r \in Bad : ~(<<r, s>> \in StrictSubsetOrdering(S))
    BY <2>3
  <2>5. s # {}
    BY <1>3, <2>4
  <2>6. PICK r : r = s \ {Pick(s)}
    OBVIOUS
  <2>7. r \subseteq S /\ r # s /\ r \subseteq s
    BY <2>4, <2>5, <2>6, OneLess
  <2>8. <<r, s>> \in StrictSubsetOrdering(S)
    BY <2>4, <2>7 DEF StrictSubsetOrdering
  <2>9. Good(r)
    <3> HIDE DEF Good
    <3> QED
      BY <2>4, <2>7, <2>8
  <2> HIDE DEF Good
  <2> QED
    BY <1>2, <2>4, <2>5, <2>6, <2>9
<1>5. Good(S)
  BY <1>4
<1> QED
  BY <1>1, <1>5

\* A finite set of numbers has a least and a greatest one.
LEMMA Extremes ==
    ASSUME NEW T, IsFiniteSet(T), T # {}, T \subseteq Int
    PROVE  /\ Min(T) \in T /\ \A y \in T : Min(T) <= y
           /\ Max(T) \in T /\ \A y \in T : Max(T) >= y
<1> DEFINE Below(x) == {y \in T : y < x}
           Above(x) == {y \in T : y > x}
<1>1. IsWellFoundedOn(StrictSubsetOrdering(T), FiniteSubsetsOf(T))
  BY FS_StrictSubsetOrderingWellFounded
<1>2. \A x \in T : /\ Below(x) \subseteq T /\ IsFiniteSet(Below(x)) /\ Below(x) \in FiniteSubsetsOf(T)
                   /\ Above(x) \subseteq T /\ IsFiniteSet(Above(x)) /\ Above(x) \in FiniteSubsetsOf(T)
  <2>1. \A x \in T : Below(x) \subseteq T /\ Above(x) \subseteq T
    OBVIOUS
  <2> HIDE DEF Below, Above
  <2>2. \A x \in T : IsFiniteSet(Below(x)) /\ IsFiniteSet(Above(x))
    BY <2>1, FS_Subset
  <2> QED
    BY <2>1, <2>2 DEF FiniteSubsetsOf
<1>3. \A x, y \in T : y < x => <<Below(y), Below(x)>> \in StrictSubsetOrdering(T)
  <2> SUFFICES ASSUME NEW x \in T, NEW y \in T, y < x
               PROVE  <<Below(y), Below(x)>> \in StrictSubsetOrdering(T)
    OBVIOUS
  <2>0. x \in Int /\ y \in Int /\ \A z \in T : z \in Int
    OBVIOUS
  <2>1. Below(y) \subseteq Below(x) /\ y \in Below(x) /\ y \notin Below(y)
    <3>1. \A z \in T : z < y => z < x
      BY <2>0
    <3>2. ~(y < y)
      BY <2>0
    <3> QED
      BY <3>1, <3>2
  <2>2. Below(y) \subseteq T /\ Below(x) \subseteq T
    OBVIOUS
  <2> HIDE DEF Below
  <2> QED
    BY <2>1, <2>2 DEF StrictSubsetOrdering
<1>4. \A x, y \in T : y > x => <<Above(y), Above(x)>> \in StrictSubsetOrdering(T)
  <2> SUFFICES ASSUME NEW x \in T, NEW y \in T, y > x
               PROVE  <<Above(y), Above(x)>> \in StrictSubsetOrdering(T)
    OBVIOUS
  <2>0. x \in Int /\ y \in Int /\ \A z \in T : z \in Int
    OBVIOUS
  <2>1. Above(y) \subseteq Above(x) /\ y \in Above(x) /\ y \notin Above(y)
    <3>1. \A z \in T : z > y => z > x
      BY <2>0
    <3>2. ~(y > y)
      BY <2>0
    <3> QED
      BY <3>1, <3>2
  <2>2. Above(y) \subseteq T /\ Above(x) \subseteq T
    OBVIOUS
  <2> HIDE DEF Above
  <2> QED
    BY <2>1, <2>2 DEF StrictSubsetOrdering
<1> HIDE DEF Below, Above
<1>5. \E x \in T : \A y \in T : x <= y
  <2>1. PICK F : F = {Below(x) : x \in T}
    OBVIOUS
  <2>2. F \subseteq FiniteSubsetsOf(T) /\ F # {}
    BY <1>2, <2>1
  <2>3. \E X \in F : \A Y \in F : ~(<<Y, X>> \in StrictSubsetOrdering(T))
    BY <1>1, <2>2, WFMin
  <2>4. PICK x \in T : \A y \in T : ~(<<Below(y), Below(x)>> \in StrictSubsetOrdering(T))
    BY <2>1, <2>3
  <2>5. \A y \in T : ~(y < x)
    BY <1>3, <2>4
  <2> QED
    BY <2>5
<1>6. \E x \in T : \A y \in T : x >= y
  <2>1. PICK F : F = {Above(x) : x \in T}
    OBVIOUS
  <2>2. F \subseteq FiniteSubsetsOf(T) /\ F # {}
    BY <1>2, <2>1
  <2>3. \E X \in F : \A Y \in F : ~(<<Y, X>> \in StrictSubsetOrdering(T))
    BY <1>1, <2>2, WFMin
  <2>4. PICK x \in T : \A y \in T : ~(<<Above(y), Above(x)>> \in StrictSubsetOrdering(T))
    BY <2>1, <2>3
  <2>5. \A y \in T : ~(y > x)
    BY <1>4, <2>4
  <2> QED
    BY <2>5
<1> QED
  BY <1>5, <1>6 DEF Min, Max

\* The values of a function on a finite set.
LEMMA FiniteImage ==
    ASSUME NEW S, IsFiniteSet(S), NEW f, NEW T, T = {f[x] : x \in S}
    PROVE  IsFiniteSet(T)
<1>1. PICK g : g = [x \in S |-> f[x]]
  OBVIOUS
<1>2. g \in Surjection(S, T)
  BY <1>1 DEF Surjection
<1> QED
  BY <1>2, FS_Surjection

\* A sum of numbers is a number.
LEMMA SumIsNumber ==
    ASSUME NEW S, IsFiniteSet(S), NEW f, \A x \in S : f[x] \in Int
    PROVE  SumFunctionOnSet(f, S) \in Int
<1>1. PICK T : T = {f[x] : x \in S}
  OBVIOUS
<1>2. IsFiniteSet(T) /\ T \subseteq Int
  BY <1>1, FiniteImage
<1>3. CASE S = {}
  <2>1. \A x \in S : f[x] \in Int /\ 0 <= f[x] /\ f[x] <= 0
    BY <1>3
  <2> QED
    BY <2>1, SumBounds
<1>4. CASE S # {}
  <2>1. T # {}
    BY <1>1, <1>4
  <2>2. PICK lo \in Int, hi \in Int : \A y \in T : lo <= y /\ y <= hi
    BY <1>2, <2>1, Extremes
  <2>3. \A x \in S : f[x] \in Int /\ lo <= f[x] /\ f[x] <= hi
    BY <1>1, <2>2
  <2> QED
    BY <2>3, SumBounds
<1> QED
  BY <1>3, <1>4

----------------------------------------------------------------------------
(* Rows and keys (Db).                                                     *)

USE GrpAssumption, TplAssumption, BoardAssumption, CaseAssumption, AggAssumption

\* Find by primary key gives a row with that key.
LEMMA RowFound ==
    ASSUME NEW T, NEW i, i \in Ids(T)
    PROVE  Row(T, i) \in T /\ Row(T, i).id = i
BY DEF Ids, Row

\* The row with a key is the only one when keys are unique.
LEMMA RowUnique ==
    ASSUME NEW T, NEW r, r \in T, \A x, y \in T : x.id = y.id => x = y
    PROVE  Row(T, r.id) = r
BY DEF Row

\* Saving a row under a key that is there changes no key.
LEMMA SaveIds ==
    ASSUME NEW T, NEW row, row.id \in Ids(T)
    PROVE  Ids(Save(T, row)) = Ids(T)
BY DEF Ids, Save, Without

\* What a table holds after a save, or a delete by key.
LEMMA SaveRows ==
    ASSUME NEW T, NEW row
    PROVE  \A r : r \in Save(T, row) <=> r = row \/ (r \in T /\ r.id # row.id)
BY DEF Save, Without

\* Deleting by key takes the key away, and no other.
LEMMA WithoutIds ==
    ASSUME NEW T, NEW i
    PROVE  Without(T, i) \subseteq T /\ Ids(Without(T, i)) = Ids(T) \ {i}
BY DEF Ids, Without

Pos == Nat \ {0}

\* Ids are positive, and so is the one after.
LEMMA PosFacts ==
    /\ 1 \in Pos
    /\ \A n \in Pos : n \in Nat /\ n + 1 \in Pos /\ n < n + 1
    /\ \A n \in Pos, m \in Nat : n <= m => n \in 1 .. m
BY DEF Pos

----------------------------------------------------------------------------
(* Host groups (modules/api/app/controller/host).                          *)

\* A request whose checks have passed.
GrpOps == {"bind", "unbind", "delete", "plugin", "unplug", "aggregate", "reaggregate", "disaggregate"}
GrpReq == [op : GrpOps, by : GrpCallers, grp : 1 .. MaxGrps, names : SUBSET Hostnames, id : Nat,
           late : BOOLEAN]

\* The requests that write a row for their group, and the checks they passed: the
\* group was there, or an administrator was not asked for it.
Writers == {"bind", "plugin", "aggregate"}
Checked(op, c, g) == op \in Writers => g \in Ids(grp) \/ (op # "bind" /\ c = Admin)

\* The rows of hosts, plugins and aggregators have their group, or a late request
\* wrote them; the hosts of a group have their row.
RowsOwned ==
    /\ \A r \in grpHost : (r[1] \in Ids(grp) \/ r \in lateHosts) /\ HasHost(r[2])
    /\ \A r \in pluginDir \cup cluster : r.grp \in Ids(grp) \/ r.id \in lateRows

\* A request whose group was deleted after its checks knows that it is late.
PendOwned == \A q \in grpPend : q.late \/ Checked(q.op, q.by, q.grp)

GrpInv ==
    /\ grpNext \in [grp : Pos, row : Pos]
    /\ GrpTypeOK
    /\ grpPend \subseteq GrpReq
    /\ RowsOwned
    /\ PendOwned

\* hbs gives a host what the groups on its page have.
LEMMA HbsReadsPage == RowsOwned => DeletedGroupsSilent
<1> SUFFICES ASSUME RowsOwned PROVE DeletedGroupsSilent
  OBVIOUS
<1>1. ASSUME NEW n \in Hostnames, NEW g, <<g, n>> \in grpHost
      PROVE  g \in RelatedGrp(n) \/ <<g, n>> \in lateHosts
  <2>1. PICK r \in grpHost : r = <<g, n>>
    BY <1>1
  <2>2. r[1] = g /\ (r[1] \in Ids(grp) \/ r \in lateHosts)
    BY <2>1 DEF RowsOwned
  <2> QED
    BY <1>1, <2>1, <2>2 DEF RelatedGrp
<1> QED
  BY <1>1 DEF RowsOwned, DeletedGroupsSilent, HbsTemplates, HbsPlugins

\* The checks of a request change no table.
LEMMA GrpRequestStep ==
    ASSUME GrpInv, NEW op \in GrpOps, NEW c \in GrpCallers, NEW g \in 1 .. MaxGrps,
           NEW names \in SUBSET Hostnames, NEW i \in Nat, Checked(op, c, g), GrpRequest(op, c, g, names, i)
    PROVE  GrpInv'
<1> DEFINE q == [op |-> op, by |-> c, grp |-> g, names |-> names, id |-> i, late |-> FALSE]
<1>1. /\ UNCHANGED <<grp, host, grpHost, pluginDir, cluster, grpTpl, lateHosts, lateRows, grpNext>>
      /\ grpPend' = grpPend \cup {q}
      /\ grpReqs < MaxGrpReqs /\ grpReqs' = grpReqs + 1
  BY DEF GrpRequest, GrpAsked
<1>2. grpReqs' \in 0 .. MaxGrpReqs
  BY <1>1 DEF GrpInv, GrpTypeOK
<1>3. GrpTypeOK'
  BY <1>1, <1>2 DEF GrpInv, GrpTypeOK
<1>4. RowsOwned'
  BY <1>1 DEF GrpInv, RowsOwned, HasHost
<1>5. q \in GrpReq /\ q.op = op /\ q.by = c /\ q.grp = g
  BY DEF GrpReq
<1> HIDE DEF q
<1>6. PendOwned'
  BY <1>1, <1>5 DEF GrpInv, PendOwned, Checked
<1> QED
  BY <1>1, <1>3, <1>4, <1>5, <1>6 DEF GrpInv

\* Rows that are taken away, or edited, keep the rest owned; so do new groups.
LEMMA FewerRows ==
    ASSUME RowsOwned,
           \A g \in Ids(grp) : g \in Ids(grp'),
           lateHosts' = lateHosts, lateRows' = lateRows,
           \A x \in host : \E y \in host' : y.name = x.name,
           grpHost' \subseteq grpHost,
           \A a \in pluginDir' \cup cluster' : \E b \in pluginDir \cup cluster : a.grp = b.grp /\ a.id = b.id
    PROVE  RowsOwned'
BY DEF RowsOwned, HasHost

\* So do the requests that are left.
LEMMA FewerRequests ==
    ASSUME PendOwned, \A g \in Ids(grp) : g \in Ids(grp'), grpPend' \subseteq grpPend
    PROVE  PendOwned'
BY DEF PendOwned, Checked

\* Bindings of templates come and go within their table.
LEMMA BindingsTyped ==
    ASSUME grpTpl \subseteq GrpTpl, NEW c \in GrpCallers, NEW g \in 1 .. MaxGrps, NEW t \in 1 .. MaxTpls,
           BindTemplateToGroup(c, g, t) \/ UnBindTemplateToGroup(c, g, t)
    PROVE  grpTpl' \subseteq GrpTpl
<1>1. [grp |-> g, tpl |-> t, by |-> c] \in GrpTpl
  BY DEF GrpTpl
<1> QED
  BY <1>1 DEF BindTemplateToGroup, UnBindTemplateToGroup

\* Every handler of the groups keeps the invariant.
LEMMA GrpStep == GrpInv /\ [GrpNextStep]_grpVars => GrpInv'
<1> SUFFICES ASSUME GrpInv, [GrpNextStep]_grpVars PROVE GrpInv'
  OBVIOUS
<1>t. /\ grpNext \in [grp : Pos, row : Pos] /\ GrpTypeOK /\ grpPend \subseteq GrpReq
      /\ RowsOwned /\ PendOwned /\ grpReqs \in 0 .. MaxGrpReqs
  BY DEF GrpInv, GrpTypeOK
<1>a. /\ grpReqs < MaxGrpReqs => grpReqs + 1 \in 0 .. MaxGrpReqs
      /\ grpNext.grp \in Pos /\ grpNext.row \in Pos
      /\ [grpNext EXCEPT !.grp = @ + 1] \in [grp : Pos, row : Pos]
      /\ [grpNext EXCEPT !.row = @ + 1] \in [grp : Pos, row : Pos]
  <2>1. grpReqs < MaxGrpReqs => grpReqs + 1 \in 0 .. MaxGrpReqs
    BY <1>t
  <2>2. grpNext.grp \in Pos /\ grpNext.row \in Pos
    BY <1>t
  <2>3. grpNext.grp + 1 \in Pos /\ grpNext.row + 1 \in Pos
    BY <2>2, PosFacts
  <2> QED
    BY <1>t, <2>1, <2>2, <2>3
<1>o. ASSUME NEW q \in grpPend, Answer(q)
      PROVE  /\ grpPend' \subseteq GrpReq /\ grpPend' \subseteq grpPend /\ grpReqs' = grpReqs
             /\ q.grp \in 1 .. MaxGrps /\ q.by \in GrpCallers /\ q.names \subseteq Hostnames
  BY <1>o, <1>t DEF Answer, GrpReq
<1>i. ASSUME NEW q \in grpPend, NewRow(q), q.op \in {"plugin", "aggregate"}
      PROVE  /\ grpNext.row \in 1 .. MaxRows /\ grpNext' = [grpNext EXCEPT !.row = @ + 1]
             /\ lateRows \subseteq lateRows' /\ lateRows' \subseteq 1 .. MaxRows
             /\ q.grp \in Ids(grp) \/ grpNext.row \in lateRows'
  <2>1. grpNext.row \in 1 .. MaxRows
    BY <1>i, <1>a, PosFacts DEF NewRow
  <2>2. q.late \/ q.grp \in Ids(grp) \/ q.by = Admin
    BY <1>i, <1>t DEF PendOwned, Checked, Writers
  <2> QED
    BY <1>i, <1>t, <2>1, <2>2 DEF NewRow, GrpTypeOK
<1>1. CASE UNCHANGED grpVars
  BY <1>1 DEF grpVars, GrpInv, GrpTypeOK, RowsOwned, PendOwned, Checked, HasHost
<1>2. ASSUME NEW c \in GrpCallers, CrateHostGroup(c) PROVE GrpInv'
  <2> DEFINE new == [id |-> grpNext.grp, owner |-> c, edited |-> FALSE]
  <2>1. /\ grp' = grp \cup {new} /\ grpNext.grp <= MaxGrps
        /\ grpNext' = [grpNext EXCEPT !.grp = @ + 1]
        /\ grpReqs < MaxGrpReqs /\ grpReqs' = grpReqs + 1
        /\ UNCHANGED <<host, grpHost, pluginDir, cluster, grpTpl, grpPend, lateHosts, lateRows>>
    BY <1>2 DEF CrateHostGroup, GrpAsked
  <2>2. grpNext.grp \in 1 .. MaxGrps
    BY <2>1, <1>a, PosFacts
  <2>n. new \in HostGroup
    BY <2>2 DEF HostGroup
  <2> HIDE DEF new
  <2>3. grp' \subseteq HostGroup
    BY <1>t, <2>1, <2>n DEF GrpTypeOK
  <2>4. GrpTypeOK'
    BY <1>t, <1>a, <2>1, <2>3 DEF GrpTypeOK
  <2>5. RowsOwned'
    <3>1. \A g \in Ids(grp) : g \in Ids(grp')
      BY <2>1 DEF Ids
    <3> QED
      BY <1>t, <2>1, <3>1, FewerRows
  <2>6. PendOwned'
    BY <1>t, <2>1 DEF PendOwned, Checked, Ids
  <2> QED
    BY <1>t, <1>a, <2>1, <2>4, <2>5, <2>6 DEF GrpInv
<1>3. ASSUME NEW g \in 1 .. MaxGrps, PutHostGroup(g) PROVE GrpInv'
  <2> DEFINE r == Row(grp, g)
             s == [r EXCEPT !.edited = TRUE]
  <2>1. /\ g \in Ids(grp) /\ grp' = Save(grp, s)
        /\ grpReqs < MaxGrpReqs /\ grpReqs' = grpReqs + 1
        /\ UNCHANGED <<host, grpHost, pluginDir, cluster, grpTpl, grpPend, lateHosts, lateRows, grpNext>>
    BY <1>3 DEF PutHostGroup, GrpAsked
  <2>2. r \in HostGroup /\ r.id = g
    BY <2>1, <1>t, RowFound DEF GrpTypeOK
  <2>3. s \in HostGroup /\ s.id = g
    BY <2>2 DEF HostGroup
  <2> HIDE DEF r, s
  <2>4. Ids(grp') = Ids(grp)
    BY <2>1, <2>3, SaveIds
  <2>5. grp' \subseteq HostGroup
    BY <1>t, <2>1, <2>3, SaveRows DEF GrpTypeOK
  <2>6. GrpTypeOK'
    BY <1>t, <1>a, <2>1, <2>5 DEF GrpTypeOK
  <2>7. RowsOwned'
    BY <1>t, <2>1, <2>4, FewerRows
  <2>8. PendOwned'
    BY <1>t, <2>1, <2>4, FewerRequests
  <2> QED
    BY <1>t, <2>1, <2>6, <2>7, <2>8 DEF GrpInv
<1>4. ASSUME NEW c \in GrpCallers, NEW g \in 1 .. MaxGrps, NEW names \in SUBSET Hostnames,
             BindHostToHostGroup(c, g, names)
      PROVE  GrpInv'
  <2>1. Checked("bind", c, g) /\ GrpRequest("bind", c, g, names, 0) /\ "bind" \in GrpOps
    BY <1>4 DEF BindHostToHostGroup, Checked, GrpOps
  <2> QED
    BY <2>1, GrpRequestStep
<1>5. ASSUME NEW c \in GrpCallers, NEW g \in 1 .. MaxGrps,
             DeleteHostGroup(c, g) \/ CreatePlugin(c, g) \/ CreateAggregator(c, g)
      PROVE  GrpInv'
  <2>1. PICK op \in {"delete", "plugin", "aggregate"} : GrpRequest(op, c, g, {}, 0) /\ MayChangeGrp(c, g)
    BY <1>5 DEF DeleteHostGroup, CreatePlugin, CreateAggregator
  <2>2. Checked(op, c, g) /\ op \in GrpOps
    BY <2>1 DEF MayChangeGrp, OwnsGrp, Checked, GrpOps, Writers
  <2>3. {} \in SUBSET Hostnames
    OBVIOUS
  <2> QED
    BY <2>1, <2>2, <2>3, GrpRequestStep
<1>6. ASSUME NEW c \in GrpCallers, NEW g \in 1 .. MaxGrps, NEW n \in Hostnames,
             UnBindAHostToHostGroup(c, g, n)
      PROVE  GrpInv'
  <2>1. Checked("unbind", c, g) /\ GrpRequest("unbind", c, g, {n}, 0) /\ "unbind" \in GrpOps
    BY <1>6 DEF UnBindAHostToHostGroup, Checked, GrpOps, Writers
  <2>2. {n} \in SUBSET Hostnames
    OBVIOUS
  <2> QED
    BY <2>1, <2>2, GrpRequestStep
<1>7. ASSUME NEW c \in GrpCallers, NEW r \in pluginDir \cup cluster,
             \/ r \in pluginDir /\ DeletePlugin(c, r)
             \/ r \in cluster /\ (UpdateAggregator(c, r) \/ DeleteAggregator(c, r))
      PROVE  GrpInv'
  <2>1. r.grp \in 1 .. MaxGrps /\ r.id \in Nat
    BY <1>t DEF GrpTypeOK, Plugin, Cluster
  <2>2. PICK op \in {"unplug", "reaggregate", "disaggregate"} : GrpRequest(op, c, r.grp, {}, r.id)
    BY <1>7 DEF DeletePlugin, UpdateAggregator, DeleteAggregator
  <2>3. Checked(op, c, r.grp) /\ op \in GrpOps
    BY <2>2 DEF Checked, GrpOps, Writers
  <2>4. {} \in SUBSET Hostnames
    OBVIOUS
  <2> QED
    BY <2>1, <2>2, <2>3, <2>4, GrpRequestStep
<1>8. ASSUME NEW q \in grpPend, BindHosts(q) PROVE GrpInv'
  <2>1. Answer(q) /\ q.op = "bind" /\ UNCHANGED <<grp, pluginDir, cluster, grpTpl, lateRows, grpNext>>
    BY <1>8 DEF BindHosts
  <2>2. PendOwned'
    BY <1>t, <1>o, <2>1, FewerRequests
  <2>3. CASE UNCHANGED <<grpHost, host, lateHosts>>
    <3>1. GrpTypeOK'
      BY <1>t, <1>o, <2>1, <2>3 DEF GrpTypeOK
    <3>2. RowsOwned'
      BY <1>t, <2>1, <2>3, FewerRows
    <3> QED
      BY <1>t, <1>o, <2>1, <2>2, <3>1, <3>2 DEF GrpInv
  <2>4. CASE /\ grpHost' = {r \in grpHost : r[1] # q.grp} \cup {<<q.grp, n>> : n \in q.names}
             /\ host' = host \cup {[name |-> n, maintain |-> FALSE] : n \in {x \in q.names : ~HasHost(x)}}
             /\ lateHosts' = IF q.late THEN lateHosts \cup {<<q.grp, n>> : n \in q.names} ELSE lateHosts
    <3>1. /\ \A n \in q.names : <<q.grp, n>> \in GrpHost
          /\ \A n \in q.names : [name |-> n, maintain |-> FALSE] \in Host
      BY <1>o, <2>1 DEF GrpHost, Host
    <3>2. grpHost' \subseteq GrpHost /\ host' \subseteq Host /\ lateHosts' \subseteq GrpHost
      BY <1>t, <2>4, <3>1 DEF GrpTypeOK
    <3>3. GrpTypeOK'
      BY <1>t, <1>o, <2>1, <3>2 DEF GrpTypeOK
    <3>4. ASSUME NEW n \in q.names PROVE \E x \in host' : x.name = n
      <4>1. CASE HasHost(n)
        BY <2>4, <4>1 DEF HasHost
      <4>2. CASE ~HasHost(n)
        <5>1. [name |-> n, maintain |-> FALSE] \in host'
          BY <2>4, <3>4, <4>2
        <5> QED
          BY <5>1
      <4> QED
        BY <4>1, <4>2
    <3>5. q.late \/ q.grp \in Ids(grp)
      BY <1>t, <2>1 DEF PendOwned, Checked, Writers
    <3>6. lateHosts \subseteq lateHosts' /\ (q.late => \A n \in q.names : <<q.grp, n>> \in lateHosts')
      BY <2>4
    <3>7. ASSUME NEW r \in grpHost'
          PROVE  (r[1] \in Ids(grp) \/ r \in lateHosts') /\ \E x \in host' : x.name = r[2]
      <4>1. CASE r \in grpHost
        BY <1>t, <2>4, <3>6, <4>1 DEF RowsOwned, HasHost
      <4>2. CASE \E n \in q.names : r = <<q.grp, n>>
        BY <3>4, <3>5, <3>6, <4>2
      <4> QED
        BY <2>4, <3>7, <4>1, <4>2
    <3>8. RowsOwned'
      BY <1>t, <2>1, <3>7 DEF RowsOwned, HasHost
    <3> QED
      BY <1>t, <1>o, <2>1, <2>2, <3>3, <3>8 DEF GrpInv
  <2> QED
    BY <1>8, <2>3, <2>4 DEF BindHosts
<1>9. ASSUME NEW q \in grpPend, UnBindHost(q) PROVE GrpInv'
  <2>1. /\ Answer(q) /\ grpHost' \subseteq grpHost
        /\ UNCHANGED <<grp, host, pluginDir, cluster, grpTpl, lateHosts, lateRows, grpNext>>
    BY <1>9 DEF UnBindHost
  <2>2. GrpTypeOK'
    BY <1>t, <1>o, <2>1 DEF GrpTypeOK
  <2>3. RowsOwned'
    BY <1>t, <2>1, FewerRows
  <2>4. PendOwned'
    BY <1>t, <1>o, <2>1, FewerRequests
  <2> QED
    BY <1>t, <1>o, <2>1, <2>2, <2>3, <2>4 DEF GrpInv
<1>10. ASSUME NEW q \in grpPend, DeleteGroup(q) PROVE GrpInv'
  <2>1. UNCHANGED <<host, grpTpl, lateHosts, lateRows, grpNext>>
    BY <1>10 DEF DeleteGroup
  <2>2. CASE Answer(q) /\ UNCHANGED <<grpHost, pluginDir, cluster, grp>>
    <3>1. GrpTypeOK'
      BY <1>t, <1>o, <2>1, <2>2 DEF GrpTypeOK
    <3>2. RowsOwned' /\ PendOwned'
      BY <1>t, <1>o, <2>1, <2>2, FewerRows, FewerRequests
    <3> QED
      BY <1>t, <1>o, <2>1, <2>2, <3>1, <3>2 DEF GrpInv
  <2>3. CASE /\ Overtake(q)
             /\ grpHost' = {r \in grpHost : r[1] # q.grp}
             /\ pluginDir' = {r \in pluginDir : r.grp # q.grp}
             /\ cluster' = {r \in cluster : r.grp # q.grp}
             /\ grp' = Without(grp, q.grp)
    <3>1. Ids(grp') = Ids(grp) \ {q.grp} /\ grp' \subseteq grp
      BY <2>3, WithoutIds
    <3>2. /\ grpPend' = {IF r.grp = q.grp THEN [r EXCEPT !.late = TRUE] ELSE r : r \in grpPend \ {q}}
          /\ grpReqs' = grpReqs
      BY <2>3 DEF Overtake
    <3>3. ASSUME NEW x \in grpPend' PROVE x \in GrpReq /\ (x.late \/ Checked(x.op, x.by, x.grp)')
      <4>1. PICK r \in grpPend : x = IF r.grp = q.grp THEN [r EXCEPT !.late = TRUE] ELSE r
        BY <3>2
      <4>2. r \in GrpReq /\ (r.late \/ Checked(r.op, r.by, r.grp))
        BY <1>t DEF PendOwned
      <4>3. CASE r.grp = q.grp
        <5>1. PICK b : b = TRUE
          OBVIOUS
        <5>2. x = [r EXCEPT !.late = b] /\ b \in BOOLEAN
          BY <4>1, <4>3, <5>1
        <5>3. x \in GrpReq /\ x.late = b
          BY <4>2, <5>2 DEF GrpReq
        <5> QED
          BY <5>1, <5>3
      <4>4. CASE r.grp # q.grp
        <5>1. x = r
          BY <4>1, <4>4
        <5> QED
          BY <3>1, <4>2, <4>4, <5>1 DEF Checked
      <4> QED
        BY <4>3, <4>4
    <3>4. GrpTypeOK'
      BY <1>t, <2>1, <2>3, <3>1, <3>2 DEF GrpTypeOK
    <3>5. RowsOwned'
      BY <1>t, <2>1, <2>3, <3>1 DEF RowsOwned, HasHost
    <3>6. PendOwned'
      BY <3>3 DEF PendOwned
    <3> QED
      BY <1>t, <2>1, <3>3, <3>4, <3>5, <3>6 DEF GrpInv
  <2> QED
    BY <1>10, <2>2, <2>3 DEF DeleteGroup
<1>11. ASSUME NEW q \in grpPend, InsertPlugin(q) PROVE GrpInv'
  <2> DEFINE new == [id |-> grpNext.row, grp |-> q.grp, by |-> q.by]
  <2>1. /\ Answer(q) /\ q.op = "plugin" /\ NewRow(q)
        /\ pluginDir' = pluginDir \cup {new}
        /\ UNCHANGED <<grp, host, grpHost, cluster, grpTpl, lateHosts>>
    BY <1>11 DEF InsertPlugin
  <2>2. /\ grpNext.row \in 1 .. MaxRows /\ grpNext' = [grpNext EXCEPT !.row = @ + 1]
        /\ lateRows \subseteq lateRows' /\ lateRows' \subseteq 1 .. MaxRows
        /\ q.grp \in Ids(grp) \/ grpNext.row \in lateRows'
    BY <1>i, <2>1
  <2>3. new \in Plugin /\ new.grp = q.grp /\ new.id = grpNext.row
    BY <1>o, <2>1, <2>2 DEF Plugin
  <2> HIDE DEF new
  <2>4. GrpTypeOK'
    BY <1>t, <1>o, <2>1, <2>2, <2>3 DEF GrpTypeOK
  <2>5. RowsOwned'
    BY <1>t, <2>1, <2>2, <2>3 DEF RowsOwned, HasHost
  <2>6. PendOwned'
    BY <1>t, <1>o, <2>1, FewerRequests
  <2> QED
    BY <1>t, <1>a, <1>o, <2>1, <2>2, <2>4, <2>5, <2>6 DEF GrpInv
<1>12. ASSUME NEW q \in grpPend, InsertAggregator(q) PROVE GrpInv'
  <2> DEFINE new == [id |-> grpNext.row, grp |-> q.grp, by |-> q.by, edited |-> FALSE]
  <2>1. /\ Answer(q) /\ q.op = "aggregate" /\ NewRow(q)
        /\ cluster' = cluster \cup {new}
        /\ UNCHANGED <<grp, host, grpHost, pluginDir, grpTpl, lateHosts>>
    BY <1>12 DEF InsertAggregator
  <2>2. /\ grpNext.row \in 1 .. MaxRows /\ grpNext' = [grpNext EXCEPT !.row = @ + 1]
        /\ lateRows \subseteq lateRows' /\ lateRows' \subseteq 1 .. MaxRows
        /\ q.grp \in Ids(grp) \/ grpNext.row \in lateRows'
    BY <1>i, <2>1
  <2>3. new \in Cluster /\ new.grp = q.grp /\ new.id = grpNext.row
    BY <1>o, <2>1, <2>2 DEF Cluster
  <2> HIDE DEF new
  <2>4. GrpTypeOK'
    BY <1>t, <1>o, <2>1, <2>2, <2>3 DEF GrpTypeOK
  <2>5. RowsOwned'
    BY <1>t, <2>1, <2>2, <2>3 DEF RowsOwned, HasHost
  <2>6. PendOwned'
    BY <1>t, <1>o, <2>1, FewerRequests
  <2> QED
    BY <1>t, <1>a, <1>o, <2>1, <2>2, <2>4, <2>5, <2>6 DEF GrpInv
<1>13. ASSUME NEW q \in grpPend, RemovePlugin(q) \/ RemoveAggregator(q) PROVE GrpInv'
  <2>1. /\ Answer(q) /\ pluginDir' \subseteq pluginDir /\ cluster' \subseteq cluster
        /\ UNCHANGED <<grp, host, grpHost, grpTpl, lateHosts, lateRows, grpNext>>
    BY <1>13 DEF RemovePlugin, RemoveAggregator, Without
  <2>2. GrpTypeOK'
    BY <1>t, <1>o, <2>1 DEF GrpTypeOK
  <2>3. RowsOwned'
    BY <1>t, <2>1, FewerRows
  <2>4. PendOwned'
    BY <1>t, <1>o, <2>1, FewerRequests
  <2> QED
    BY <1>t, <1>o, <2>1, <2>2, <2>3, <2>4 DEF GrpInv
<1>14. ASSUME NEW q \in grpPend, EditAggregator(q) PROVE GrpInv'
  <2>1. /\ Answer(q)
        /\ cluster' = {IF a.id = q.id THEN [a EXCEPT !.edited = TRUE] ELSE a : a \in cluster}
        /\ UNCHANGED <<grp, host, grpHost, pluginDir, grpTpl, lateHosts, lateRows, grpNext>>
    BY <1>14 DEF EditAggregator
  <2>2. ASSUME NEW b \in cluster' PROVE b \in Cluster /\ \E a \in cluster : b.grp = a.grp /\ b.id = a.id
    <3>1. PICK a \in cluster : b = IF a.id = q.id THEN [a EXCEPT !.edited = TRUE] ELSE a
      BY <2>1
    <3>2. a \in Cluster
      BY <1>t DEF GrpTypeOK
    <3> QED
      BY <3>1, <3>2 DEF Cluster
  <2>3. GrpTypeOK'
    BY <1>t, <1>o, <2>1, <2>2 DEF GrpTypeOK
  <2>4. RowsOwned'
    BY <1>t, <2>1, <2>2, FewerRows
  <2>5. PendOwned'
    BY <1>t, <1>o, <2>1, FewerRequests
  <2> QED
    BY <1>t, <1>o, <2>1, <2>3, <2>4, <2>5 DEF GrpInv
<1>15. ASSUME NEW n \in Hostnames, NEW on \in BOOLEAN, SetMaintain({n}, on) PROVE GrpInv'
  <2>1. /\ host' = {IF x.name \in {n} THEN [x EXCEPT !.maintain = on] ELSE x : x \in host}
        /\ grpReqs < MaxGrpReqs /\ grpReqs' = grpReqs + 1
        /\ UNCHANGED <<grp, grpHost, pluginDir, cluster, grpTpl, grpPend, lateHosts, lateRows, grpNext>>
    BY <1>15 DEF SetMaintain, GrpAsked
  <2>2. ASSUME NEW x \in host
        PROVE  /\ (IF x.name \in {n} THEN [x EXCEPT !.maintain = on] ELSE x) \in Host
               /\ (IF x.name \in {n} THEN [x EXCEPT !.maintain = on] ELSE x).name = x.name
    BY <1>t DEF GrpTypeOK, Host
  <2>3. host' \subseteq Host /\ \A x \in host : \E y \in host' : y.name = x.name
    BY <2>1, <2>2
  <2>4. GrpTypeOK'
    BY <1>t, <1>a, <2>1, <2>3 DEF GrpTypeOK
  <2>5. RowsOwned'
    BY <1>t, <2>1, <2>3, FewerRows
  <2>6. PendOwned'
    BY <1>t, <2>1, FewerRequests
  <2> QED
    BY <1>t, <2>1, <2>4, <2>5, <2>6 DEF GrpInv
<1>16. ASSUME NEW c \in GrpCallers, NEW g \in 1 .. MaxGrps, NEW t \in 1 .. MaxTpls, GrpAsked,
              BindTemplateToGroup(c, g, t) \/ UnBindTemplateToGroup(c, g, t),
              UNCHANGED <<grp, host, grpHost, pluginDir, cluster, grpPend, lateHosts, lateRows, grpNext>>
       PROVE  GrpInv'
  <2>1. grpTpl' \subseteq GrpTpl
    BY <1>16, <1>t, BindingsTyped DEF GrpTypeOK
  <2>2. GrpTypeOK'
    BY <1>16, <1>t, <1>a, <2>1 DEF GrpTypeOK, GrpAsked
  <2>3. RowsOwned'
    BY <1>16, <1>t, FewerRows
  <2>4. PendOwned'
    BY <1>16, <1>t, FewerRequests
  <2> QED
    BY <1>16, <1>t, <2>2, <2>3, <2>4 DEF GrpInv
<1> QED
  BY <1>1, <1>2, <1>3, <1>4, <1>5, <1>6, <1>7, <1>8, <1>9, <1>10, <1>11, <1>12, <1>13, <1>14,
     <1>15, <1>16 DEF GrpNextStep

\* hbs gives a host the templates and plugins of the groups on the host's page and
\* of no other, although it never reads grp and DeleteHostGroup leaves grp_tpl:
\* however the checks of requests and their transactions interleave, and whichever
\* transaction is rolled back, only a row a late request wrote speaks for a group
\* that is gone.
THEOREM DeletedGroupsStaySilent == GrpSpec => []DeletedGroupsSilent
<1>1. GrpInit => GrpInv
  <2> SUFFICES ASSUME GrpInit PROVE GrpInv
    OBVIOUS
  <2>1. grpNext \in [grp : Pos, row : Pos]
    BY PosFacts DEF GrpInit
  <2> QED
    BY <2>1 DEF GrpInit, GrpInv, GrpTypeOK, RowsOwned, PendOwned
<1>2. GrpInv => DeletedGroupsSilent
  BY HbsReadsPage DEF GrpInv
<1> QED
  BY <1>1, <1>2, GrpStep, PTL DEF GrpSpec

----------------------------------------------------------------------------
(* Templates (controllers template, strategy, expression and mockcfg).     *)

Unique(T) == \A x, y \in T : x.id = y.id => x = y

\* Keys stay unique when rows are saved or deleted.
LEMMA UniqueKept ==
    ASSUME NEW T, Unique(T), NEW row
    PROVE  Unique(Save(T, row)) /\ \A i : Unique(Without(T, i))
<1>1. Unique(Save(T, row))
  BY SaveRows DEF Unique
<1>2. \A i : Unique(Without(T, i))
  BY DEF Unique, Without
<1> QED
  BY <1>1, <1>2

\* Keys stay unique when a row with a new key is added.
LEMMA UniqueNew ==
    ASSUME NEW T, Unique(T), NEW row, \A x \in T : x.id # row.id
    PROVE  Unique(T \cup {row})
BY DEF Unique

\* Every id in use is below the counter it came from, unless a client named it.
KeysUsed ==
    /\ \A x \in tpl : x.id < tplNext.tpl /\ (x.action < tplNext.act \/ x.action \in named)
    /\ \A x \in act : x.id < tplNext.act
    /\ \A x \in expression : x.id < tplNext.rule /\ x.action < tplNext.act
    /\ Unique(tpl) /\ Unique(expression)

\* An action row has one owner, unless a client named it, and while the owner is
\* there the action is.
ActionsOwned ==
    /\ \A x \in tpl : x.action \in {0} \cup Ids(act) \cup named
    /\ \A e \in expression : e.action \in Ids(act) \cup named
    /\ \A x, y \in tpl : x.action = y.action => x = y \/ x.action \in {0} \cup named
    /\ \A x \in tpl, e \in expression : x.action = e.action => e.action \in named
    /\ \A d, e \in expression : d.action = e.action => d = e \/ d.action \in named

RulesOwned ==
    /\ \A s \in strategy : s.tpl \in Ids(tpl) \cup absent
    /\ \A b \in grpTpl : b.tpl \in Ids(tpl) \cup absent

TplInv ==
    /\ tplNext \in [tpl : Pos, act : Pos, rule : Pos]
    /\ TplTypeOK
    /\ KeysUsed
    /\ ActionsOwned
    /\ RulesOwned

\* The pages find what their owner says.
LEMMA PagesShown == TplInv => OwnedRowsLive
<1> SUFFICES ASSUME TplInv PROVE OwnedRowsLive
  OBVIOUS
<1>1. ASSUME NEW t \in tpl PROVE GetATemplate(t.id) \/ t.action \in named
  <2>1. Row(tpl, t.id) = t
    BY RowUnique DEF TplInv, KeysUsed, Unique
  <2> QED
    BY <2>1 DEF GetATemplate, TplInv, ActionsOwned
<1>2. ASSUME NEW e \in expression PROVE GetExpression(e.id) \/ e.action \in named
  <2>1. Row(expression, e.id) = e
    BY RowUnique DEF TplInv, KeysUsed, Unique
  <2> QED
    BY <2>1 DEF GetExpression, TplInv, ActionsOwned
<1> QED
  BY <1>1, <1>2 DEF OwnedRowsLive, TplInv, RulesOwned

\* Rules and bindings stay owned while templates only come.
LEMMA RulesKept ==
    ASSUME RulesOwned, Ids(tpl) \subseteq Ids(tpl'), absent \subseteq absent',
           \A s \in strategy' : \E r \in strategy : s.tpl = r.tpl, grpTpl' \subseteq grpTpl
    PROVE  RulesOwned'
BY DEF RulesOwned

\* Steps that leave templates, actions and expressions alone.
LEMMA ActionsKept ==
    ASSUME ActionsOwned, UNCHANGED <<tpl, expression, named>>, Ids(act') = Ids(act)
    PROVE  ActionsOwned'
BY DEF ActionsOwned

\* Every handler of the templates keeps the invariant.
LEMMA TplStep == TplInv /\ [TplNextStep]_<<grpVars, tplVars>> => TplInv'
<1> SUFFICES ASSUME TplInv, [TplNextStep]_<<grpVars, tplVars>> PROVE TplInv'
  OBVIOUS
<1>t. /\ tplNext \in [tpl : Pos, act : Pos, rule : Pos]
      /\ TplTypeOK /\ KeysUsed /\ ActionsOwned /\ RulesOwned
  BY DEF TplInv
<1>r. /\ tpl \subseteq Template /\ act \subseteq Action /\ strategy \subseteq Strategy
      /\ expression \subseteq Expression /\ mockcfg \subseteq Mockcfg
      /\ named \subseteq 1 .. MaxActs /\ absent \subseteq 1 .. MaxTpls
  BY <1>t DEF TplTypeOK
<1>p. /\ tplNext.tpl \in Pos /\ tplNext.act \in Pos /\ tplNext.rule \in Pos
      /\ tplNext.tpl \in Nat /\ tplNext.act \in Nat /\ tplNext.rule \in Nat
      /\ tplNext.tpl + 1 \in Pos /\ tplNext.act + 1 \in Pos /\ tplNext.rule + 1 \in Pos
  BY <1>t, PosFacts
<1>x. /\ [tplNext EXCEPT !.tpl = @ + 1] \in [tpl : Pos, act : Pos, rule : Pos]
      /\ [tplNext EXCEPT !.act = @ + 1] \in [tpl : Pos, act : Pos, rule : Pos]
      /\ [tplNext EXCEPT !.rule = @ + 1] \in [tpl : Pos, act : Pos, rule : Pos]
      /\ [tplNext EXCEPT !.rule = @ + 1, !.act = @ + 1] \in [tpl : Pos, act : Pos, rule : Pos]
  BY <1>t, <1>p
<1>f. /\ \A x \in tpl : x.id \in Nat /\ x.action \in Nat
      /\ \A x \in act : x.id \in Nat
      /\ \A x \in expression : x.id \in Nat /\ x.action \in Nat /\ x.action # 0
  BY <1>r DEF Template, Action, Expression
<1>m. ASSUME NEW t \in 1 .. MaxTpls, Mentions(t)
      PROVE  /\ absent \subseteq absent' /\ absent' \subseteq 1 .. MaxTpls
             /\ t \in Ids(tpl) \cup absent'
  BY <1>m, <1>r DEF Mentions
<1>1. CASE UNCHANGED <<grpVars, tplVars>>
  BY <1>1 DEF grpVars, tplVars, TplInv, TplTypeOK, KeysUsed, ActionsOwned, RulesOwned
<1>2. ASSUME NEW c \in GrpCallers, NEW p \in 0 .. MaxTpls, NEW a \in 0 .. MaxActs,
             CreateTemplate(c, p, a)
      PROVE  TplInv'
  <2> DEFINE new == [id |-> tplNext.tpl, parent |-> p, action |-> a, owner |-> c]
  <2>1. /\ tplNext.tpl <= MaxTpls /\ tpl' = tpl \cup {new}
        /\ named' = named \cup ({a} \ {0})
        /\ tplNext' = [tplNext EXCEPT !.tpl = @ + 1]
        /\ UNCHANGED <<act, strategy, expression, grpTpl, mockcfg, absent>>
    BY <1>2 DEF CreateTemplate
  <2>2. a \in 0 .. MaxActs /\ (a < tplNext.act \/ a \in named')
    <3>1. 0 < tplNext.act
      BY <1>p DEF Pos
    <3> QED
      BY <2>1, <3>1
  <2>3. tplNext.tpl \in 1 .. MaxTpls
    BY <1>p, <2>1, PosFacts
  <2>4. new \in Template /\ new.id = tplNext.tpl /\ new.action = a
    BY <2>2, <2>3 DEF Template
  <2>5. tplNext'.tpl = tplNext.tpl + 1 /\ tplNext'.act = tplNext.act /\ tplNext'.rule = tplNext.rule
    BY <1>t, <2>1
  <2> HIDE DEF new
  <2>6. TplTypeOK'
    <3>1. {a} \ {0} \subseteq 1 .. MaxActs
      BY <2>2
    <3> QED
      BY <1>r, <2>1, <2>4, <3>1 DEF TplTypeOK
  <2>7. KeysUsed'
    <3>1. \A x \in tpl : x.id < tplNext.tpl + 1 /\ x.id # tplNext.tpl
      BY <1>t, <1>p, <1>f DEF KeysUsed
    <3>2. \A x \in tpl' : x.id < tplNext'.tpl /\ (x.action < tplNext'.act \/ x.action \in named')
      BY <1>t, <1>p, <2>1, <2>2, <2>4, <2>5, <3>1 DEF KeysUsed
    <3>3. Unique(tpl')
      BY <1>t, <2>1, <2>4, <3>1, UniqueNew DEF KeysUsed
    <3> QED
      BY <1>t, <2>1, <2>5, <3>2, <3>3 DEF KeysUsed
  <2>8. ActionsOwned'
    <3>1. a = 0 \/ a \in named'
      BY <2>1
    <3> QED
      BY <1>t, <1>f, <2>1, <2>4, <3>1 DEF ActionsOwned
  <2>9. RulesOwned'
    <3>1. Ids(tpl) \subseteq Ids(tpl')
      BY <2>1 DEF Ids
    <3> QED
      BY <1>t, <2>1, <3>1, RulesKept
  <2> QED
    BY <1>x, <2>1, <2>6, <2>7, <2>8, <2>9 DEF TplInv
<1>3. ASSUME NEW c \in GrpCallers, NEW t \in 1 .. MaxTpls, NEW p \in 0 .. MaxTpls,
             UpdateTemplate(c, t, p)
      PROVE  TplInv'
  <2> DEFINE r == Row(tpl, t)
             new == [r EXCEPT !.parent = p]
  <2>1. /\ t \in Ids(tpl) /\ tpl' = Save(tpl, new)
        /\ UNCHANGED <<act, strategy, expression, grpTpl, mockcfg, named, absent, tplNext>>
    BY <1>3 DEF UpdateTemplate
  <2>2. r \in tpl /\ r.id = t
    BY <2>1, RowFound
  <2>3. new \in Template /\ new.id = r.id /\ new.action = r.action
    BY <1>r, <2>2 DEF Template
  <2> HIDE DEF r, new
  <2>4. \A x : x \in tpl' <=> x = new \/ (x \in tpl /\ x.id # r.id)
    BY <2>1, <2>3, SaveRows
  <2>5. Ids(tpl') = Ids(tpl)
    BY <2>1, <2>2, <2>3, SaveIds
  <2>6. TplTypeOK'
    BY <1>r, <2>1, <2>3, <2>4 DEF TplTypeOK
  <2>7. KeysUsed'
    <3>1. Unique(tpl')
      BY <1>t, <2>1, UniqueKept DEF KeysUsed
    <3> QED
      BY <1>t, <2>1, <2>2, <2>3, <2>4, <3>1 DEF KeysUsed
  <2>8. ActionsOwned'
    BY <1>t, <2>1, <2>2, <2>3, <2>4 DEF ActionsOwned
  <2>9. RulesOwned'
    BY <1>t, <2>1, <2>5, RulesKept
  <2> QED
    BY <1>t, <2>1, <2>6, <2>7, <2>8, <2>9 DEF TplInv
<1>4. ASSUME NEW t \in 1 .. MaxTpls, DeleteTemplate(t) PROVE TplInv'
  <2> DEFINE r == Row(tpl, t)
  <2>1. /\ t \in Ids(tpl) /\ tpl' = Without(tpl, t)
        /\ act' = Without(act, r.action)
        /\ strategy' = {s \in strategy : s.tpl # t}
        /\ grpTpl' = {b \in grpTpl : b.tpl # t}
        /\ UNCHANGED <<expression, mockcfg, named, absent, tplNext>>
    BY <1>4 DEF DeleteTemplate
  <2>2. r \in tpl /\ r.id = t
    BY <2>1, RowFound
  <2> HIDE DEF r
  <2>3. \A x \in tpl' : x \in tpl /\ x # r
    BY <2>1, <2>2 DEF Without
  <2>4. act' \subseteq act /\ Ids(act') = Ids(act) \ {r.action}
    BY <2>1, WithoutIds
  <2>5. Ids(tpl') = Ids(tpl) \ {t}
    BY <2>1, WithoutIds
  <2>6. TplTypeOK'
    BY <1>r, <2>1, <2>3, <2>4 DEF TplTypeOK
  <2>7. KeysUsed'
    <3>1. Unique(tpl')
      BY <1>t, <2>1, UniqueKept DEF KeysUsed
    <3> QED
      BY <1>t, <2>1, <2>3, <2>4, <3>1 DEF KeysUsed
  <2>8. ActionsOwned'
    <3>1. ASSUME NEW x \in tpl' PROVE x.action \in {0} \cup Ids(act') \cup named
      BY <1>t, <2>2, <2>3, <2>4 DEF ActionsOwned
    <3>2. ASSUME NEW e \in expression PROVE e.action \in Ids(act') \cup named
      BY <1>t, <2>2, <2>4 DEF ActionsOwned
    <3> QED
      BY <1>t, <2>1, <2>3, <3>1, <3>2 DEF ActionsOwned
  <2>9. RulesOwned'
    BY <1>t, <2>1, <2>5 DEF RulesOwned
  <2> QED
    BY <1>t, <2>1, <2>6, <2>7, <2>8, <2>9 DEF TplInv
<1>5. ASSUME NEW t \in 1 .. MaxTpls, CreateActionToTmplate(t) PROVE TplInv'
  <2> DEFINE r == Row(tpl, t)
             new == [r EXCEPT !.action = tplNext.act]
             a == [id |-> tplNext.act, edited |-> FALSE]
  <2>1. /\ tplNext.act <= MaxActs /\ t \in Ids(tpl)
        /\ act' = act \cup {a} /\ tpl' = Save(tpl, new)
        /\ tplNext' = [tplNext EXCEPT !.act = @ + 1]
        /\ UNCHANGED <<strategy, expression, grpTpl, mockcfg, named, absent>>
    BY <1>5 DEF CreateActionToTmplate
  <2>2. r \in tpl /\ r.id = t
    BY <2>1, RowFound
  <2>3. tplNext.act \in 1 .. MaxActs
    BY <1>p, <2>1, PosFacts
  <2>4. new \in Template /\ new.id = r.id /\ new.action = tplNext.act
    BY <1>r, <2>2, <2>3 DEF Template
  <2>5. a \in Action /\ a.id = tplNext.act
    BY <2>3 DEF Action
  <2>6. tplNext'.tpl = tplNext.tpl /\ tplNext'.act = tplNext.act + 1 /\ tplNext'.rule = tplNext.rule
    BY <1>t, <2>1
  <2> HIDE DEF r, new, a
  <2>7. \A x : x \in tpl' <=> x = new \/ (x \in tpl /\ x.id # r.id)
    BY <2>1, <2>4, SaveRows
  <2>8. Ids(tpl') = Ids(tpl) /\ Ids(act') = Ids(act) \cup {tplNext.act}
    <3>1. Ids(tpl') = Ids(tpl)
      BY <2>1, <2>2, <2>4, SaveIds
    <3>2. Ids(act') = Ids(act) \cup {tplNext.act}
      BY <2>1, <2>5 DEF Ids
    <3> QED
      BY <3>1, <3>2
  <2>9. TplTypeOK'
    BY <1>r, <2>1, <2>4, <2>5, <2>7 DEF TplTypeOK
  <2>u. /\ \A x \in tpl : x.action \in named \/ (x.action # tplNext.act /\ x.action < tplNext.act + 1)
        /\ \A x \in expression : x.action # tplNext.act /\ x.action < tplNext.act + 1
        /\ \A x \in act : x.id < tplNext.act + 1
        /\ tplNext.act < tplNext.act + 1
    BY <1>t, <1>p, <1>f DEF KeysUsed
  <2>10. KeysUsed'
    <3>1. Unique(tpl')
      BY <1>t, <2>1, UniqueKept DEF KeysUsed
    <3>2. \A x \in tpl' : x.id < tplNext.tpl /\ (x.action < tplNext.act + 1 \/ x.action \in named)
      BY <1>t, <2>2, <2>4, <2>7, <2>u DEF KeysUsed
    <3>3. \A x \in act' : x.id < tplNext.act + 1
      BY <2>1, <2>5, <2>u
    <3> QED
      BY <1>t, <2>1, <2>6, <2>u, <3>1, <3>2, <3>3 DEF KeysUsed
  <2>11. ActionsOwned'
    BY <1>t, <2>1, <2>4, <2>7, <2>8, <2>u DEF ActionsOwned
  <2>12. RulesOwned'
    BY <1>t, <2>1, <2>8, RulesKept
  <2> QED
    BY <1>x, <2>1, <2>9, <2>10, <2>11, <2>12 DEF TplInv
<1>6. ASSUME NEW a \in Ids(act), UpdateActionToTmplate(a) PROVE TplInv'
  <2> DEFINE new == [id |-> a, edited |-> TRUE]
  <2>1. /\ act' = Save(act, new)
        /\ UNCHANGED <<tpl, strategy, expression, grpTpl, mockcfg, named, absent, tplNext>>
    BY <1>6 DEF UpdateActionToTmplate
  <2>2. PICK x \in act : x.id = a
    BY <1>6 DEF Ids
  <2>3. new \in Action /\ new.id = a /\ a < tplNext.act
    BY <1>r, <1>t, <2>2 DEF Action, KeysUsed
  <2> HIDE DEF new
  <2>4. Ids(act') = Ids(act)
    BY <1>6, <2>1, <2>3, SaveIds
  <2>5. \A y \in act' : y = new \/ y \in act
    BY <2>1, SaveRows
  <2>6. TplTypeOK'
    BY <1>r, <2>1, <2>3, <2>5 DEF TplTypeOK
  <2>7. KeysUsed'
    BY <1>t, <2>1, <2>3, <2>5 DEF KeysUsed
  <2> QED
    BY <1>t, <2>1, <2>4, <2>6, <2>7, ActionsKept, RulesKept DEF TplInv
<1>7. ASSUME NEW t \in 1 .. MaxTpls, NEW right \in Rights, CreateStrategy(t, right) PROVE TplInv'
  <2> DEFINE new == [id |-> tplNext.rule, tpl |-> t, right |-> right]
  <2>1. /\ right \in {"digits", "signed"} /\ tplNext.rule <= MaxRules
        /\ strategy' = strategy \cup {new}
        /\ tplNext' = [tplNext EXCEPT !.rule = @ + 1]
        /\ Mentions(t)
        /\ UNCHANGED <<tpl, act, expression, grpTpl, mockcfg, named>>
    BY <1>7 DEF CreateStrategy, CheckFormatCreate
  <2>2. tplNext.rule \in 1 .. MaxRules
    BY <1>p, <2>1, PosFacts
  <2>3. new \in Strategy /\ new.tpl = t
    BY <2>1, <2>2 DEF Strategy
  <2>4. tplNext'.tpl = tplNext.tpl /\ tplNext'.act = tplNext.act /\ tplNext'.rule = tplNext.rule + 1
    BY <1>t, <2>1
  <2>5. /\ absent \subseteq absent' /\ absent' \subseteq 1 .. MaxTpls
        /\ t \in Ids(tpl) \cup absent'
    BY <1>m, <2>1
  <2> HIDE DEF new
  <2>6. TplTypeOK'
    BY <1>r, <2>1, <2>3, <2>5 DEF TplTypeOK
  <2>7. KeysUsed'
    <3>1. \A x \in expression : x.id < tplNext.rule + 1
      BY <1>t, <1>p, <1>f DEF KeysUsed
    <3> QED
      BY <1>t, <2>1, <2>4, <3>1 DEF KeysUsed
  <2>8. RulesOwned'
    BY <1>t, <2>1, <2>3, <2>5 DEF RulesOwned
  <2> QED
    BY <1>t, <1>x, <2>1, <2>6, <2>7, <2>8, ActionsKept DEF TplInv
<1>8. ASSUME NEW s \in Ids(strategy), NEW right \in Rights, UpdateStrategy(s, right) PROVE TplInv'
  <2> DEFINE r == Row(strategy, s)
             new == [r EXCEPT !.right = right]
  <2>1. /\ right = "digits" /\ strategy' = Save(strategy, new)
        /\ UNCHANGED <<tpl, act, expression, grpTpl, mockcfg, named, absent, tplNext>>
    BY <1>8 DEF UpdateStrategy, CheckFormatUpdate
  <2>2. r \in strategy
    BY <1>8, RowFound
  <2>3. new \in Strategy /\ new.tpl = r.tpl
    BY <1>r, <2>1, <2>2 DEF Strategy
  <2> HIDE DEF r, new
  <2>4. \A y \in strategy' : y = new \/ y \in strategy
    BY <2>1, SaveRows
  <2>5. TplTypeOK'
    BY <1>r, <2>1, <2>3, <2>4 DEF TplTypeOK
  <2>6. KeysUsed'
    BY <1>t, <2>1 DEF KeysUsed
  <2>7. RulesOwned'
    BY <1>t, <2>1, <2>2, <2>3, <2>4, RulesKept
  <2> QED
    BY <1>t, <2>1, <2>5, <2>6, <2>7, ActionsKept DEF TplInv
<1>9. ASSUME NEW s, DeleteStrategy(s) PROVE TplInv'
  <2>1. /\ strategy' \subseteq strategy
        /\ UNCHANGED <<tpl, act, expression, grpTpl, mockcfg, named, absent, tplNext>>
    BY <1>9 DEF DeleteStrategy, Without
  <2>2. TplTypeOK' /\ KeysUsed'
    BY <1>r, <1>t, <2>1 DEF TplTypeOK, KeysUsed
  <2>3. RulesOwned'
    BY <1>t, <2>1, RulesKept
  <2> QED
    BY <1>t, <2>1, <2>2, <2>3, ActionsKept DEF TplInv
<1>10. ASSUME NEW c \in GrpCallers, NEW right \in Rights, CreateExrpession(c, right) PROVE TplInv'
  <2> DEFINE a == [id |-> tplNext.act, edited |-> FALSE]
             new == [id |-> tplNext.rule, action |-> tplNext.act, right |-> right, owner |-> c]
  <2>1. /\ right = "digits" /\ tplNext.rule <= MaxRules /\ tplNext.act <= MaxActs
        /\ act' = act \cup {a} /\ expression' = expression \cup {new}
        /\ tplNext' = [tplNext EXCEPT !.rule = @ + 1, !.act = @ + 1]
        /\ UNCHANGED <<tpl, strategy, grpTpl, mockcfg, named, absent>>
    BY <1>10 DEF CreateExrpession, CheckFormatUpdate
  <2>2. tplNext.rule \in 1 .. MaxRules /\ tplNext.act \in 1 .. MaxActs
    BY <1>p, <2>1, PosFacts
  <2>3. new \in Expression /\ new.id = tplNext.rule /\ new.action = tplNext.act
    BY <2>1, <2>2 DEF Expression
  <2>4. a \in Action /\ a.id = tplNext.act
    BY <2>2 DEF Action
  <2>5. /\ tplNext'.tpl = tplNext.tpl /\ tplNext'.act = tplNext.act + 1
        /\ tplNext'.rule = tplNext.rule + 1
    BY <1>t, <2>1
  <2> HIDE DEF a, new
  <2>6. Ids(act') = Ids(act) \cup {tplNext.act}
    BY <2>1, <2>4 DEF Ids
  <2>7. TplTypeOK'
    BY <1>r, <2>1, <2>3, <2>4 DEF TplTypeOK
  <2>u. /\ \A x \in tpl : x.action \in named \/ (x.action # tplNext.act /\ x.action < tplNext.act + 1)
        /\ \A x \in expression : /\ x.action # tplNext.act /\ x.action < tplNext.act + 1
                                 /\ x.id # tplNext.rule /\ x.id < tplNext.rule + 1
        /\ \A x \in act : x.id < tplNext.act + 1
        /\ tplNext.act < tplNext.act + 1 /\ tplNext.rule < tplNext.rule + 1
    BY <1>t, <1>p, <1>f DEF KeysUsed
  <2>8. KeysUsed'
    <3>1. Unique(expression')
      BY <1>t, <2>1, <2>3, <2>u, UniqueNew DEF KeysUsed
    <3>2. \A x \in expression' : x.id < tplNext.rule + 1 /\ x.action < tplNext.act + 1
      BY <2>1, <2>3, <2>u
    <3>3. \A x \in act' : x.id < tplNext.act + 1
      BY <2>1, <2>4, <2>u
    <3> QED
      BY <1>t, <2>1, <2>5, <2>u, <3>1, <3>2, <3>3 DEF KeysUsed
  <2>9. ActionsOwned'
    BY <1>t, <2>1, <2>3, <2>6, <2>u DEF ActionsOwned
  <2>10. RulesOwned'
    BY <1>t, <2>1, RulesKept
  <2> QED
    BY <1>x, <2>1, <2>7, <2>8, <2>9, <2>10 DEF TplInv
<1>11. ASSUME NEW c \in GrpCallers, NEW e \in Ids(expression), NEW right \in Rights,
              UpdateExrpession(c, e, right)
       PROVE  TplInv'
  <2> DEFINE r == Row(expression, e)
             new == [r EXCEPT !.right = right]
             a == [id |-> r.action, edited |-> TRUE]
  <2>1. /\ right = "digits" /\ r.action \in Ids(act)
        /\ expression' = Save(expression, new) /\ act' = Save(act, a)
        /\ UNCHANGED <<tpl, strategy, grpTpl, mockcfg, named, absent, tplNext>>
    BY <1>11 DEF UpdateExrpession, CheckFormatUpdate
  <2>2. r \in expression /\ r.id = e
    BY <1>11, RowFound
  <2>3. new \in Expression /\ new.id = r.id /\ new.action = r.action
    BY <1>r, <2>1, <2>2 DEF Expression
  <2>4. a \in Action /\ a.id = r.action /\ r.action < tplNext.act
    BY <1>r, <1>t, <2>2 DEF Action, Expression, KeysUsed
  <2> HIDE DEF r, new, a
  <2>5. \A x : x \in expression' <=> x = new \/ (x \in expression /\ x.id # r.id)
    BY <2>1, <2>3, SaveRows
  <2>6. Ids(act') = Ids(act) /\ \A y \in act' : y = a \/ y \in act
    BY <2>1, <2>4, SaveIds, SaveRows
  <2>7. TplTypeOK'
    BY <1>r, <2>1, <2>3, <2>4, <2>5, <2>6 DEF TplTypeOK
  <2>8. KeysUsed'
    <3>1. Unique(expression')
      BY <1>t, <2>1, UniqueKept DEF KeysUsed
    <3> QED
      BY <1>t, <2>1, <2>2, <2>3, <2>4, <2>5, <2>6, <3>1 DEF KeysUsed
  <2>9. ActionsOwned'
    BY <1>t, <2>1, <2>2, <2>3, <2>5, <2>6 DEF ActionsOwned
  <2>10. RulesOwned'
    BY <1>t, <2>1, RulesKept
  <2> QED
    BY <1>t, <2>1, <2>7, <2>8, <2>9, <2>10 DEF TplInv
<1>12. ASSUME NEW c \in GrpCallers, NEW e \in Ids(expression), DeleteExpression(c, e) PROVE TplInv'
  <2> DEFINE r == Row(expression, e)
  <2>1. /\ act' = IF c = Admin THEN act ELSE Without(act, r.action)
        /\ expression' = Without(expression, e)
        /\ UNCHANGED <<tpl, strategy, grpTpl, mockcfg, named, absent, tplNext>>
    BY <1>12 DEF DeleteExpression
  <2>2. r \in expression /\ r.id = e
    BY <1>12, RowFound
  <2> HIDE DEF r
  <2>3. \A x \in expression' : x \in expression /\ x # r
    BY <2>1, <2>2 DEF Without
  <2>4. act' \subseteq act /\ \A i \in Ids(act) : i = r.action \/ i \in Ids(act')
    BY <2>1, WithoutIds
  <2>5. TplTypeOK'
    BY <1>r, <2>1, <2>3, <2>4 DEF TplTypeOK
  <2>6. KeysUsed'
    <3>1. Unique(expression')
      BY <1>t, <2>1, UniqueKept DEF KeysUsed
    <3> QED
      BY <1>t, <2>1, <2>3, <2>4, <3>1 DEF KeysUsed
  <2>7. ActionsOwned'
    <3>1. ASSUME NEW x \in tpl PROVE x.action \in {0} \cup Ids(act') \cup named
      BY <1>t, <2>2, <2>4 DEF ActionsOwned
    <3>2. ASSUME NEW d \in expression' PROVE d.action \in Ids(act') \cup named
      BY <1>t, <2>2, <2>3, <2>4 DEF ActionsOwned
    <3> QED
      BY <1>t, <2>1, <2>3, <3>1, <3>2 DEF ActionsOwned
  <2>8. RulesOwned'
    BY <1>t, <2>1, RulesKept
  <2> QED
    BY <1>t, <2>1, <2>5, <2>6, <2>7, <2>8 DEF TplInv
<1>13. ASSUME NEW c \in GrpCallers, NEW g \in 1 .. MaxGrps, NEW t \in 1 .. MaxTpls, Bind(c, g, t)
       PROVE  TplInv'
  <2> DEFINE new == [grp |-> g, tpl |-> t, by |-> c]
  <2>1. /\ grpTpl' = grpTpl \cup {new} /\ Mentions(t)
        /\ UNCHANGED <<tpl, act, strategy, expression, mockcfg, named, tplNext>>
    BY <1>13 DEF Bind, BindTemplateToGroup
  <2>2. new.tpl = t
    OBVIOUS
  <2>3. /\ absent \subseteq absent' /\ absent' \subseteq 1 .. MaxTpls
        /\ t \in Ids(tpl) \cup absent'
    BY <1>m, <2>1
  <2> HIDE DEF new
  <2>4. TplTypeOK' /\ KeysUsed'
    BY <1>r, <1>t, <2>1, <2>3 DEF TplTypeOK, KeysUsed
  <2>5. RulesOwned'
    BY <1>t, <2>1, <2>2, <2>3 DEF RulesOwned
  <2> QED
    BY <1>t, <2>1, <2>4, <2>5, ActionsKept DEF TplInv
<1>14. ASSUME NEW c \in GrpCallers, NEW g \in 1 .. MaxGrps, NEW t \in 1 .. MaxTpls, UnBind(c, g, t)
       PROVE  TplInv'
  <2>1. /\ grpTpl' \subseteq grpTpl
        /\ UNCHANGED <<tpl, act, strategy, expression, mockcfg, named, absent, tplNext>>
    BY <1>14 DEF UnBind, UnBindTemplateToGroup
  <2>2. TplTypeOK' /\ KeysUsed'
    BY <1>r, <1>t, <2>1 DEF TplTypeOK, KeysUsed
  <2>3. RulesOwned'
    BY <1>t, <2>1, RulesKept
  <2> QED
    BY <1>t, <2>1, <2>2, <2>3, ActionsKept DEF TplInv
<1>15. ASSUME NEW ty \in {"group", "host", "other"}, CreateNoData(ty) PROVE TplInv'
  <2> DEFINE new == [id |-> tplNext.rule, obj_type |-> ty]
  <2>1. /\ tplNext.rule <= MaxRules /\ mockcfg' = mockcfg \cup {new}
        /\ tplNext' = [tplNext EXCEPT !.rule = @ + 1]
        /\ UNCHANGED <<tpl, act, strategy, expression, grpTpl, named, absent>>
    BY <1>15 DEF CreateNoData
  <2>2. tplNext.rule \in 1 .. MaxRules
    BY <1>p, <2>1, PosFacts
  <2>3. new \in Mockcfg
    BY <2>2 DEF Mockcfg
  <2>4. tplNext'.tpl = tplNext.tpl /\ tplNext'.act = tplNext.act /\ tplNext'.rule = tplNext.rule + 1
    BY <1>t, <2>1
  <2> HIDE DEF new
  <2>5. TplTypeOK'
    BY <1>r, <2>1, <2>3 DEF TplTypeOK
  <2>6. KeysUsed'
    <3>1. \A x \in expression : x.id < tplNext.rule + 1
      BY <1>t, <1>p, <1>f DEF KeysUsed
    <3> QED
      BY <1>t, <2>1, <2>4, <3>1 DEF KeysUsed
  <2>7. RulesOwned'
    BY <1>t, <2>1, RulesKept
  <2> QED
    BY <1>t, <1>x, <2>1, <2>5, <2>6, <2>7, ActionsKept DEF TplInv
<1>16. ASSUME NEW m \in Ids(mockcfg), NEW ty \in {"group", "host", "other"},
              UpdateNoData(m, ty) \/ DeleteNoData(m)
       PROVE  TplInv'
  <2>1. UNCHANGED <<tpl, act, strategy, expression, grpTpl, named, absent, tplNext>>
    BY <1>16 DEF UpdateNoData, DeleteNoData
  <2>2. PICK x \in mockcfg : x.id = m
    BY <1>16 DEF Ids
  <2>3. m \in 1 .. MaxRules
    BY <1>r, <2>2 DEF Mockcfg
  <2>4. [id |-> m, obj_type |-> ty] \in Mockcfg
    BY <2>3 DEF Mockcfg
  <2>5. mockcfg' \subseteq Mockcfg
    BY <1>16, <1>r, <2>4 DEF UpdateNoData, DeleteNoData, Save, Without
  <2>6. TplTypeOK' /\ KeysUsed'
    BY <1>r, <1>t, <2>1, <2>5 DEF TplTypeOK, KeysUsed
  <2>7. RulesOwned'
    BY <1>t, <2>1, RulesKept
  <2> QED
    BY <1>t, <2>1, <2>6, <2>7, ActionsKept DEF TplInv
<1> QED
  BY <1>1, <1>2, <1>3, <1>4, <1>5, <1>6, <1>7, <1>8, <1>9, <1>10, <1>11, <1>12, <1>13, <1>14,
     <1>15, <1>16 DEF TplNextStep

\* Templates and expressions find their action, and strategies and bindings
\* their template, unless a client itself named an action twice or a template
\* that was not there: deletes, updates and new actions in any order.
THEOREM OwnersFindTheirRows == TplSpec => []OwnedRowsLive
<1>1. GrpInit /\ TplInit => TplInv
  <2> SUFFICES ASSUME GrpInit, TplInit PROVE TplInv
    OBVIOUS
  <2>1. tplNext \in [tpl : Pos, act : Pos, rule : Pos]
    BY PosFacts DEF TplInit
  <2> QED
    BY <2>1 DEF GrpInit, TplInit, TplInv, TplTypeOK, KeysUsed, ActionsOwned, RulesOwned, Unique
<1> QED
  BY <1>1, TplStep, PagesShown, PTL DEF TplSpec

----------------------------------------------------------------------------
(* Temporary graphs of the dashboard (controller dashboard_graph).         *)

Glued(e, c) == e \o <<Colon>> \o c

\* A key has one id and an id one key; whoever was answered got the id of the
\* row with the key of the lists it sent.
RowOK(r) == /\ r.id \in Nat /\ r.id < boardNext.tmp
            /\ r.endpoints \in String /\ r.counters \in String
            /\ r.ck = Glued(r.endpoints, r.counters)
AnswerOK(a) == /\ a.es \in EndpointLists /\ a.cs \in CounterLists
               /\ \E r \in tmpGraphs : r.ck = Key(a.es, a.cs) /\ r.id = a.id

BoardInv ==
    /\ boardNext \in [screen : Pos, graph : Pos, tmp : Pos]
    /\ \A r \in tmpGraphs : RowOK(r)
    /\ Unique(tmpGraphs)
    /\ \A x, y \in tmpGraphs : x.ck = y.ck => x = y
    /\ \A a \in answered : AnswerOK(a)

\* Two lists, one after the other.
LEMMA Appended ==
    ASSUME NEW s \in Seq(Nat), NEW t \in Seq(Nat)
    PROVE  /\ s \o t \in Seq(Nat) /\ Len(s \o t) = Len(s) + Len(t)
           /\ \A i \in 1 .. Len(s) : (s \o t)[i] = s[i]
           /\ \A i \in 1 .. Len(t) : (s \o t)[Len(s) + i] = t[i]
<1>1. Len(s) \in Nat /\ Len(t) \in Nat
  OBVIOUS
<1>2. PICK v : v = s \o t
  OBVIOUS
<1>3. v \in Seq(Nat) /\ Len(v) = Len(s) + Len(t)
  BY <1>2, ConcatProperties
<1>4. \A i \in 1 .. Len(s) + Len(t) : v[i] = IF i <= Len(s) THEN s[i] ELSE t[i - Len(s)]
  BY <1>2, ConcatProperties
<1>5. \A i \in 1 .. Len(s) : v[i] = s[i]
  BY <1>1, <1>4
<1>6. ASSUME NEW i \in 1 .. Len(t) PROVE v[Len(s) + i] = t[i]
  <2>1. PICK k : k = Len(s) + i
    OBVIOUS
  <2>2. k \in 1 .. Len(s) + Len(t) /\ ~(k <= Len(s)) /\ k - Len(s) = i
    BY <1>1, <1>6, <2>1
  <2> QED
    BY <1>4, <2>1, <2>2
<1> QED
  BY <1>2, <1>3, <1>5, <1>6

\* Where the parts of a key are.
LaidOut(u, e, c) ==
    /\ Len(e) \in Nat /\ Len(c) \in Nat /\ Len(u) = Len(e) + 1 + Len(c)
    /\ \A i \in 1 .. Len(e) : u[i] = e[i]
    /\ u[Len(e) + 1] = Colon
    /\ \A i \in 1 .. Len(c) : u[Len(e) + 1 + i] = c[i]

LEMMA GluedAt == ASSUME NEW e \in String, NEW c \in String PROVE LaidOut(Glued(e, c), e, c)
<1>1. Colon \in Nat
  BY DEF Colon
<1>2. PICK n \in Nat : n = Colon
  BY <1>1
<1>3. e \in Seq(Nat) /\ c \in Seq(Nat)
  BY DEF String
<1>4. PICK u : u = e \o <<n>>
  OBVIOUS
<1>5. u \in Seq(Nat) /\ Len(u) = Len(e) + 1 /\ (\A i \in 1 .. Len(e) : u[i] = e[i]) /\ u[Len(e) + 1] = n
  BY <1>3, <1>4
<1>6. PICK v : v = u \o c
  OBVIOUS
<1>7. /\ v \in Seq(Nat) /\ Len(v) = Len(u) + Len(c)
      /\ \A i \in 1 .. Len(u) : v[i] = u[i]
      /\ \A i \in 1 .. Len(c) : v[Len(u) + i] = c[i]
  <2>1. u \in Seq(Nat) /\ c \in Seq(Nat)
    BY <1>3, <1>5
  <2>2. /\ u \o c \in Seq(Nat) /\ Len(u \o c) = Len(u) + Len(c)
        /\ \A i \in 1 .. Len(u) : (u \o c)[i] = u[i]
        /\ \A i \in 1 .. Len(c) : (u \o c)[Len(u) + i] = c[i]
    BY <2>1, Appended
  <2> QED
    BY <1>6, <2>2
<1>8. Glued(e, c) = v
  BY <1>2, <1>4, <1>6 DEF Glued
<1>9. Len(e) \in Nat /\ Len(c) \in Nat
  BY <1>3
<1> QED
  BY <1>2, <1>5, <1>7, <1>8, <1>9 DEF LaidOut

\* Without a colon in the first part, a key falls into its parts in one way.
LEMMA OneColon ==
    ASSUME NEW e \in String, NEW f \in String, NEW c \in String, NEW d \in String,
           NoColon(e), NoColon(f), Glued(e, c) = Glued(f, d)
    PROVE  e = f /\ c = d
<1>1. PICK u : u = Glued(e, c) /\ u = Glued(f, d)
  OBVIOUS
<1>l. LaidOut(u, e, c) /\ LaidOut(u, f, d)
  BY <1>1, GluedAt
<1>2. /\ Len(e) \in Nat /\ Len(c) \in Nat /\ Len(u) = Len(e) + 1 + Len(c)
      /\ \A i \in 1 .. Len(e) : u[i] = e[i]
      /\ u[Len(e) + 1] = Colon
      /\ \A i \in 1 .. Len(c) : u[Len(e) + 1 + i] = c[i]
  BY <1>l DEF LaidOut
<1>3. /\ Len(f) \in Nat /\ Len(d) \in Nat /\ Len(u) = Len(f) + 1 + Len(d)
      /\ \A i \in 1 .. Len(f) : u[i] = f[i]
      /\ u[Len(f) + 1] = Colon
      /\ \A i \in 1 .. Len(d) : u[Len(f) + 1 + i] = d[i]
  BY <1>l DEF LaidOut
<1>4. /\ \A i \in 1 .. Len(e) : e[i] # Colon
      /\ \A i \in 1 .. Len(f) : f[i] # Colon
      /\ e \in Seq(Nat) /\ f \in Seq(Nat) /\ c \in Seq(Nat) /\ d \in Seq(Nat)
  BY DEF NoColon, String
<1>5. ~(Len(e) < Len(f))
  <2>1. SUFFICES ASSUME Len(e) < Len(f) PROVE FALSE
    OBVIOUS
  <2>2. Len(e) + 1 \in 1 .. Len(f)
    BY <1>2, <1>3, <2>1
  <2> QED
    BY <1>2, <1>3, <1>4, <2>2
<1>6. ~(Len(f) < Len(e))
  <2>1. SUFFICES ASSUME Len(f) < Len(e) PROVE FALSE
    OBVIOUS
  <2>2. Len(f) + 1 \in 1 .. Len(e)
    BY <1>2, <1>3, <2>1
  <2> QED
    BY <1>2, <1>3, <1>4, <2>2
<1>7. Len(e) = Len(f) /\ Len(c) = Len(d)
  BY <1>2, <1>3, <1>5, <1>6
<1>8. \A i \in 1 .. Len(e) : e[i] = f[i]
  BY <1>2, <1>3, <1>7
<1>9. \A i \in 1 .. Len(c) : c[i] = d[i]
  BY <1>2, <1>3, <1>7
<1> QED
  BY <1>4, <1>7, <1>8, <1>9, SeqEqual

\* The property follows from the invariant.
LEMMA StableLinks == BoardInv => TmpGraphStable
<1> SUFFICES ASSUME BoardInv PROVE TmpGraphStable
  OBVIOUS
<1>1. ASSUME NEW a \in answered, NEW b \in answered,
             Column(a.es) = Column(b.es), Column(a.cs) = Column(b.cs)
      PROVE  a.id = b.id
  <2>1. PICK r \in tmpGraphs : r.ck = Key(a.es, a.cs) /\ r.id = a.id
    BY DEF BoardInv, AnswerOK
  <2>2. PICK s \in tmpGraphs : s.ck = Key(b.es, b.cs) /\ s.id = b.id
    BY DEF BoardInv, AnswerOK
  <2>3. Key(a.es, a.cs) = Key(b.es, b.cs)
    BY <1>1 DEF Key
  <2>4. r = s
    BY <2>1, <2>2, <2>3 DEF BoardInv
  <2> QED
    BY <2>1, <2>2, <2>4
<1>2. ASSUME NEW a \in answered
      PROVE  \E r \in tmpGraphs :
               /\ r.id = a.id
               /\ NoColon(Column(a.es)) /\ NoColon(r.endpoints) =>
                    DashboardTmpGraphQuery(a.id) = {<<Split(Column(a.es)), Split(Column(a.cs))>>}
  <2>1. PICK r \in tmpGraphs : r.ck = Key(a.es, a.cs) /\ r.id = a.id
    BY DEF BoardInv, AnswerOK
  <2>2. PICK e, c : e = Column(a.es) /\ c = Column(a.cs)
    OBVIOUS
  <2>3. e \in String /\ c \in String /\ r.ck = Glued(e, c)
    BY <2>1, <2>2 DEF BoardInv, AnswerOK, Key, Glued
  <2>4. r.endpoints \in String /\ r.counters \in String /\ r.ck = Glued(r.endpoints, r.counters)
    BY DEF BoardInv, RowOK
  <2>5. NoColon(e) /\ NoColon(r.endpoints) => r.endpoints = e /\ r.counters = c
    <3>1. PICK f, d : f = r.endpoints /\ d = r.counters
      OBVIOUS
    <3>2. f \in String /\ d \in String /\ Glued(e, c) = Glued(f, d)
      BY <2>3, <2>4, <3>1
    <3>3. NoColon(e) /\ NoColon(f) => e = f /\ c = d
      BY <2>3, <3>2, OneColon
    <3> QED
      BY <3>1, <3>3
  <2>6. {x \in tmpGraphs : x.id = a.id} = {r}
    BY <2>1 DEF BoardInv, Unique
  <2>7. DashboardTmpGraphQuery(a.id) = {<<Split(r.endpoints), Split(r.counters)>>}
    BY <2>6 DEF DashboardTmpGraphQuery
  <2> QED
    BY <2>1, <2>2, <2>5, <2>7
<1> QED
  BY <1>1, <1>2 DEF TmpGraphStable

\* Every handler of the dashboard keeps the invariant.
LEMMA BoardStep == BoardInv /\ [BoardNextStep]_boardVars => BoardInv'
<1> SUFFICES ASSUME BoardInv, [BoardNextStep]_boardVars PROVE BoardInv'
  OBVIOUS
<1>t. boardNext \in [screen : Pos, graph : Pos, tmp : Pos]
  BY DEF BoardInv
<1>p. /\ boardNext.screen + 1 \in Pos /\ boardNext.graph + 1 \in Pos
      /\ boardNext.tmp \in Pos /\ boardNext.tmp \in Nat /\ boardNext.tmp + 1 \in Pos
  BY <1>t, PosFacts
<1>x. /\ [boardNext EXCEPT !.screen = @ + 1] \in [screen : Pos, graph : Pos, tmp : Pos]
      /\ [boardNext EXCEPT !.screen = @ + 1].tmp = boardNext.tmp
      /\ [boardNext EXCEPT !.graph = @ + 1] \in [screen : Pos, graph : Pos, tmp : Pos]
      /\ [boardNext EXCEPT !.graph = @ + 1].tmp = boardNext.tmp
      /\ [boardNext EXCEPT !.tmp = @ + 1] \in [screen : Pos, graph : Pos, tmp : Pos]
      /\ [boardNext EXCEPT !.tmp = @ + 1].tmp = boardNext.tmp + 1
  BY <1>t, <1>p
<1>u. ASSUME UNCHANGED <<tmpGraphs, answered>>, boardNext'.tmp = boardNext.tmp,
             boardNext' \in [screen : Pos, graph : Pos, tmp : Pos]
      PROVE  BoardInv'
  BY <1>u DEF BoardInv, RowOK, AnswerOK
<1>1. CASE UNCHANGED boardVars
  BY <1>1, <1>t, <1>u DEF boardVars
<1>2. ASSUME NEW pid, NEW name, ScreenCreate(pid, name) PROVE BoardInv'
  <2>1. CASE ScreenAt(pid, name) = {}
    BY <1>2, <1>x, <1>u, <2>1 DEF ScreenCreate
  <2>2. CASE ScreenAt(pid, name) # {}
    BY <1>2, <1>t, <1>u, <2>2 DEF ScreenCreate
  <2> QED
    BY <2>1, <2>2
<1>3. ASSUME NEW s, NEW pid, NEW name, ScreenUpdate(s, pid, name) \/ ScreenDelete(s) PROVE BoardInv'
  BY <1>3, <1>t, <1>u DEF ScreenUpdate, ScreenDelete
<1>4. ASSUME NEW s, NEW es, NEW cs, NEW span, DashboardGraphCreate(s, es, cs, span) PROVE BoardInv'
  BY <1>4, <1>x, <1>u DEF DashboardGraphCreate
<1>5. ASSUME NEW g, NEW s, NEW es, NEW cs, NEW span, NEW tags,
             DashboardGraphUpdate(g, s, es, cs, span, tags) \/ DashboardGraphDelete(g)
      PROVE  BoardInv'
  BY <1>5, <1>t, <1>u DEF DashboardGraphUpdate, DashboardGraphDelete
<1>6. ASSUME NEW es \in EndpointLists, NEW cs \in CounterLists, DashboardTmpGraphCreate(es, cs)
      PROVE  BoardInv'
  <2>n. PICK new : new = [id |-> boardNext.tmp, endpoints |-> Column(es), counters |-> Column(cs),
                          ck |-> Key(es, cs)]
    OBVIOUS
  <2>1. CASE \E r \in tmpGraphs : r.ck = Key(es, cs)
    BY <1>6, <1>t, <1>u, <2>1 DEF DashboardTmpGraphCreate
  <2>2. CASE ~\E r \in tmpGraphs : r.ck = Key(es, cs)
    <3>1. /\ tmpGraphs' = tmpGraphs \cup {new} /\ UNCHANGED answered
          /\ boardNext' = [boardNext EXCEPT !.tmp = @ + 1]
      BY <1>6, <2>2, <2>n DEF DashboardTmpGraphCreate
    <3>2. /\ new.id = boardNext.tmp /\ new.ck = Key(es, cs)
          /\ new.endpoints = Column(es) /\ new.counters = Column(cs)
      BY <2>n
    <3>3. new.endpoints \in String /\ new.counters \in String /\ new.ck = Glued(new.endpoints, new.counters)
      BY <3>2 DEF Key, Glued
    <3>4. boardNext'.tmp = boardNext.tmp + 1
      BY <1>x, <3>1
    <3>5. \A r \in tmpGraphs : RowOK(r)' /\ r.id # new.id /\ r.ck # new.ck
      <4>1. \A r \in tmpGraphs : r.id \in Nat /\ r.id < boardNext.tmp + 1 /\ r.id # boardNext.tmp
        BY <1>p DEF BoardInv, RowOK
      <4>2. \A r \in tmpGraphs : RowOK(r)'
        BY <3>4, <4>1 DEF BoardInv, RowOK
      <4> QED
        BY <2>2, <3>2, <4>1, <4>2
    <3>6. RowOK(new)'
      BY <1>p, <3>2, <3>3, <3>4 DEF RowOK
    <3>7. Unique(tmpGraphs')
      BY <3>1, <3>5, UniqueNew DEF BoardInv
    <3>8. \A x, y \in tmpGraphs' : x.ck = y.ck => x = y
      BY <3>1, <3>5 DEF BoardInv
    <3>9. \A a \in answered' : AnswerOK(a)'
      BY <3>1 DEF BoardInv, AnswerOK
    <3> QED
      BY <1>x, <3>1, <3>5, <3>6, <3>7, <3>8, <3>9 DEF BoardInv
  <2> QED
    BY <2>1, <2>2
<1>7. ASSUME NEW es \in EndpointLists, NEW cs \in CounterLists, TmpGraphAnswer(es, cs) PROVE BoardInv'
  <2>1. PICK r \in tmpGraphs : /\ r.ck = Key(es, cs)
                               /\ answered' = answered \cup {[es |-> es, cs |-> cs, id |-> r.id]}
    BY <1>7 DEF TmpGraphAnswer
  <2>2. UNCHANGED <<tmpGraphs, boardNext>>
    BY <1>7 DEF TmpGraphAnswer
  <2>3. PICK b : b = [es |-> es, cs |-> cs, id |-> r.id]
    OBVIOUS
  <2>4. AnswerOK(b)'
    BY <2>1, <2>2, <2>3 DEF AnswerOK
  <2>5. \A a \in answered : AnswerOK(a)'
    BY <2>2 DEF BoardInv, AnswerOK
  <2> QED
    BY <2>1, <2>2, <2>3, <2>4, <2>5 DEF BoardInv, RowOK
<1> QED
  BY <1>1, <1>2, <1>3, <1>4, <1>5, <1>6, <1>7 DEF BoardNextStep

\* Two requests for the same endpoints and counters, in any order of the names
\* and of the statements, get the same id, and the id shows what was asked for and
\* goes on doing so, unless a colon in an endpoint can be taken for the one that
\* DashboardTmpGraphCreate puts between the two columns of the key.
THEOREM LinksStayStable == BoardSpec => []TmpGraphStable
<1>1. BoardInit => BoardInv
  <2> SUFFICES ASSUME BoardInit PROVE BoardInv
    OBVIOUS
  <2>1. boardNext \in [screen : Pos, graph : Pos, tmp : Pos]
    BY PosFacts DEF BoardInit
  <2> QED
    BY <2>1 DEF BoardInit, BoardInv, Unique
<1> QED
  BY <1>1, BoardStep, StableLinks, PTL DEF BoardSpec

----------------------------------------------------------------------------
(* Alarm cases (alarm's InsertEvent and the api's alarm controllers).      *)

\* A finite set of rows that is not empty has a newest row: the rows newer than
\* a row shrink from one newer row to the next.
LEMMA NewestRow ==
    ASSUME NEW R, IsFiniteSet(R), R # {}, \A r \in R : r.timestamp \in Nat
    PROVE  \E r \in R : \A s \in R : ~(s.timestamp > r.timestamp)
<1> DEFINE Newer(r) == {s \in R : s.timestamp > r.timestamp}
           F == {Newer(r) : r \in R}
<1>1. IsWellFoundedOn(StrictSubsetOrdering(R), FiniteSubsetsOf(R))
  BY FS_StrictSubsetOrderingWellFounded
<1>2. F \subseteq FiniteSubsetsOf(R) /\ F # {}
  <2>1. \A r \in R : Newer(r) \subseteq R /\ IsFiniteSet(Newer(r))
    BY FS_Subset
  <2> QED
    BY <2>1 DEF FiniteSubsetsOf
<1>3. \E X \in F : \A Y \in F : ~(<<Y, X>> \in StrictSubsetOrdering(R))
  <2> HIDE DEF F
  <2> QED
    BY <1>1, <1>2, WFMin
<1>4. PICK r \in R : \A Y \in F : ~(<<Y, Newer(r)>> \in StrictSubsetOrdering(R))
  BY <1>3
<1>5. ASSUME NEW s \in Newer(r) PROVE FALSE
  <2>1. s \in R /\ s.timestamp > r.timestamp
    BY <1>5
  <2>2. Newer(s) \subseteq Newer(r) /\ s \notin Newer(s)
    BY <2>1
  <2>3. Newer(s) \in F /\ Newer(s) \subseteq R /\ Newer(r) \subseteq R /\ Newer(s) # Newer(r)
    BY <1>5, <2>1, <2>2
  <2> HIDE DEF Newer, F
  <2>4. <<Newer(s), Newer(r)>> \in StrictSubsetOrdering(R)
    BY <2>2, <2>3 DEF StrictSubsetOrdering
  <2> QED
    BY <1>4, <2>3, <2>4
<1> QED
  BY <1>5

InsertRec == [at : {"found", "new", "written"}, case : CaseIds, status : {"PROBLEM", "OK"},
              step : 1 .. 2, time : 1 .. MaxClock, reopen : BOOLEAN]
CaseRow == [id : CaseIds, status : {"PROBLEM", "OK"}, current_step : 1 .. 2, timestamp : Nat,
            process_note : Nat, process_status : Decisions]

\* What the row of a case says about the decisions on it.
Shows(c) ==
    /\ c.process_note = 0 => c.process_status = "unresolved"
    /\ c.process_note # 0 =>
         \A n \in notes :
           n.event_caseId = c.id /\ n.status # "comment" =>
             /\ n.id <= c.process_note
             /\ n.id = c.process_note => n.status = c.process_status

CaseInv ==
    /\ clock \in Nat /\ clock <= MaxClock
    /\ cases \subseteq CaseRow /\ Unique(cases)
    /\ events \subseteq Events /\ IsFiniteSet(events)
    /\ \A n \in notes : n.id \in Nat /\ n.id <= clock
    /\ inserting \in [Readers -> {None} \cup InsertRec]
    /\ \A r \in Readers : inserting[r].at \in {"found", "written"} => inserting[r].case \in Ids(cases)
    /\ \A e \in events : e.event_caseId \in Ids(cases)
    /\ \A c \in cases : Shows(c)

\* The property follows from the invariant.
LEMMA CasesShown == CaseInv => CaseShowsDecision
<1> SUFFICES ASSUME CaseInv PROVE CaseShowsDecision
  OBVIOUS
<1>1. ASSUME NEW c \in cases PROVE c \in AlarmLists(0, c.id, {c.process_status})
  <2> DEFINE rows == {d \in Since(cases, 0) :
                        (c.id = "any" \/ d.id = c.id)
                          /\ ({c.process_status} = {} \/ d.process_status \in {c.process_status})}
  <2>1. c.id \in CaseIds /\ c.timestamp \in Nat
    BY DEF CaseInv, CaseRow
  <2>2. checkInputsContain(0, c.id)
    BY <2>1 DEF checkInputsContain
  <2>3. rows = {c}
    BY <2>1 DEF Since, CaseInv, Unique
  <2>4. AlarmLists(0, c.id, {c.process_status}) = Limited(rows, PageLimit)
    BY <2>2 DEF AlarmLists
  <2> HIDE DEF rows
  <2>5. {s \in rows : s.timestamp > c.timestamp} = {}
    BY <2>1, <2>3
  <2>6. Cardinality({s \in rows : s.timestamp > c.timestamp}) < PageLimit
    BY <2>5, FS_EmptySet
  <2> QED
    BY <2>3, <2>4, <2>6 DEF Limited
<1>2. ASSUME NEW e \in events PROVE EventsGet(0, e.event_caseId) # {}
  <2> DEFINE rows == {f \in Since(events, 0) :
                        e.event_caseId = "any" \/ f.event_caseId = e.event_caseId}
  <2>1. rows \subseteq events /\ e \in rows
    BY DEF Since
  <2>2. EventsGet(0, e.event_caseId) = Limited(rows, PageLimit)
    BY DEF EventsGet
  <2> HIDE DEF rows
  <2>3. IsFiniteSet(rows) /\ \A r \in rows : r.timestamp \in Nat
    BY <2>1, FS_Subset DEF CaseInv, Events
  <2>4. PICK r \in rows : \A s \in rows : ~(s.timestamp > r.timestamp)
    BY <2>1, <2>3, NewestRow
  <2>5. {s \in rows : s.timestamp > r.timestamp} = {}
    BY <2>4
  <2>6. Cardinality({s \in rows : s.timestamp > r.timestamp}) < PageLimit
    BY <2>5, FS_EmptySet
  <2> QED
    BY <2>2, <2>6 DEF Limited
<1>3. ASSUME NEW c \in cases
      PROVE  /\ c.process_note = 0 => c.process_status = "unresolved"
             /\ c.process_note # 0 =>
                  \A n \in GetNotesOfAlarm(c.id) :
                    n.status # "comment" =>
                      /\ n.id <= c.process_note
                      /\ n.id = c.process_note => n.status = c.process_status
  BY DEF CaseInv, Shows, GetNotesOfAlarm
<1>4. \A e \in events : e.event_caseId \in Ids(cases)
  BY DEF CaseInv
<1> QED
  BY <1>1, <1>2, <1>3, <1>4 DEF CaseShowsDecision

\* Every write to the cases keeps the invariant.
LEMMA CaseStep == CaseInv /\ [CaseNextStep]_caseVars => CaseInv'
<1> SUFFICES ASSUME CaseInv, [CaseNextStep]_caseVars PROVE CaseInv'
  OBVIOUS
<1>t. /\ clock \in Nat /\ clock <= MaxClock
      /\ cases \subseteq CaseRow /\ Unique(cases)
      /\ events \subseteq Events /\ IsFiniteSet(events)
      /\ inserting \in [Readers -> {None} \cup InsertRec]
  BY DEF CaseInv
<1>k. ASSUME NEW r \in Readers, inserting[r].at \in {"found", "new", "written"}
      PROVE  /\ inserting[r] \in InsertRec
             /\ [inserting[r] EXCEPT !.at = "written"] \in InsertRec
             /\ [inserting[r] EXCEPT !.at = "written"].case = inserting[r].case
  <2>1. inserting[r] \in InsertRec
    BY <1>t, <1>k DEF None
  <2> QED
    BY <2>1 DEF InsertRec
<1>n. None.at = "none"
  BY DEF None
<1>1. CASE UNCHANGED caseVars
  BY <1>1 DEF caseVars, CaseInv, Shows
<1>2. ASSUME NEW r \in Readers, NEW c \in CaseIds, NEW status \in {"PROBLEM", "OK"},
             NEW step \in 1 .. 2, ReadCase(r, c, status, step)
      PROVE  CaseInv'
  <2> DEFINE e == [at |-> IF c \in Ids(cases) THEN "found" ELSE "new", case |-> c, status |-> status,
                   step |-> step, time |-> clock',
                   reopen |-> c \in Ids(cases)
                                /\ Row(cases, c).process_status \in {"resolved", "ignored"}]
  <2>1. /\ clock < MaxClock /\ clock' = clock + 1
        /\ inserting' = [inserting EXCEPT ![r] = e]
        /\ UNCHANGED <<cases, events, notes>>
    BY <1>2 DEF ReadCase, Tick
  <2>2. clock' \in 1 .. MaxClock /\ clock' \in Nat /\ clock <= clock'
    BY <1>t, <2>1
  <2>3. e \in InsertRec
    BY <2>2 DEF InsertRec
  <2>4. e.at = "found" => e.case \in Ids(cases)
    OBVIOUS
  <2>5. e.at # "written"
    OBVIOUS
  <2> HIDE DEF e
  <2>6. inserting' \in [Readers -> {None} \cup InsertRec]
    BY <1>t, <2>1, <2>3
  <2>7. \A q \in Readers : inserting'[q].at \in {"found", "written"} => inserting'[q].case \in Ids(cases')
    BY <1>t, <2>1, <2>4, <2>5 DEF CaseInv
  <2>8. \A n \in notes' : n.id \in Nat /\ n.id <= clock'
    BY <1>t, <2>1, <2>2 DEF CaseInv
  <2> QED
    BY <1>t, <2>1, <2>2, <2>6, <2>7, <2>8 DEF CaseInv, Shows
<1>3. ASSUME NEW r \in Readers, InsertCase(r) PROVE CaseInv'
  <2> DEFINE e == inserting[r]
             new == [id |-> e.case, status |-> e.status, current_step |-> e.step,
                     timestamp |-> e.time, process_note |-> 0, process_status |-> "unresolved"]
  <2>1. /\ e.at = "new"
        /\ cases' = IF e.case \in Ids(cases) THEN cases ELSE cases \cup {new}
        /\ inserting' = [inserting EXCEPT ![r].at = "written"]
        /\ UNCHANGED <<events, notes, clock>>
    BY <1>3 DEF InsertCase
  <2>2. e \in InsertRec /\ [e EXCEPT !.at = "written"] \in InsertRec
        /\ [e EXCEPT !.at = "written"].case = e.case
    BY <1>k, <2>1
  <2>3. new \in CaseRow /\ new.id = e.case /\ new.process_note = 0 /\ new.process_status = "unresolved"
    BY <2>2 DEF InsertRec, CaseRow, Decisions
  <2>4. inserting' = [inserting EXCEPT ![r] = [e EXCEPT !.at = "written"]]
    BY <1>t, <2>1
  <2> HIDE DEF e, new
  <2>5. inserting' \in [Readers -> {None} \cup InsertRec]
    BY <1>t, <2>2, <2>4
  <2>6. e.case \in Ids(cases') /\ Ids(cases) \subseteq Ids(cases') /\ cases' \subseteq cases \cup {new}
    BY <2>1, <2>3 DEF Ids
  <2>7. \A q \in Readers : inserting'[q].at \in {"found", "written"} => inserting'[q].case \in Ids(cases')
    BY <1>t, <2>2, <2>4, <2>6 DEF CaseInv
  <2>8. Unique(cases')
    <3>1. CASE e.case \in Ids(cases)
      BY <1>t, <2>1, <3>1
    <3>2. CASE e.case \notin Ids(cases)
      <4>1. \A x \in cases : x.id # new.id
        BY <2>3, <3>2 DEF Ids
      <4> QED
        BY <1>t, <2>1, <3>2, <4>1, UniqueNew
    <3> QED
      BY <3>1, <3>2
  <2>9. \A c \in cases' : Shows(c)'
    BY <2>1, <2>3, <2>6 DEF CaseInv, Shows
  <2> QED
    BY <1>t, <2>1, <2>3, <2>5, <2>6, <2>7, <2>8, <2>9 DEF CaseInv
<1>4. ASSUME NEW r \in Readers, UpdateCase(r) PROVE CaseInv'
  <2> DEFINE e == inserting[r]
             c == Row(cases, e.case)
             b == IF e.reopen THEN Reopen(c) ELSE c
             d == [b EXCEPT !.status = e.status, !.current_step = e.step,
                            !.timestamp = IF e.step = 1 THEN e.time ELSE clock]
  <2>1. /\ e.at = "found" /\ cases' = Save(cases, d)
        /\ inserting' = [inserting EXCEPT ![r].at = "written"]
        /\ UNCHANGED <<events, notes, clock>>
    BY <1>4 DEF UpdateCase
  <2>2. e \in InsertRec /\ [e EXCEPT !.at = "written"] \in InsertRec
        /\ [e EXCEPT !.at = "written"].case = e.case /\ e.case \in Ids(cases)
    BY <1>k, <2>1 DEF CaseInv
  <2>3. c \in cases /\ c.id = e.case
    BY <2>2, RowFound
  <2>4. c \in CaseRow /\ Shows(c)
    BY <1>t, <2>3 DEF CaseInv
  <2>5. /\ b \in CaseRow /\ b.id = c.id
        /\ \/ b.process_note = 0 /\ b.process_status = "unresolved"
           \/ b.process_note = c.process_note /\ b.process_status = c.process_status
    <3>1. Reopen(c) \in CaseRow /\ Reopen(c).id = c.id
          /\ Reopen(c).process_note = 0 /\ Reopen(c).process_status = "unresolved"
      BY <2>4 DEF Reopen, CaseRow, Decisions
    <3> QED
      BY <2>4, <3>1
  <2>6. /\ d \in CaseRow /\ d.id = b.id
        /\ d.process_note = b.process_note /\ d.process_status = b.process_status
    <3>1. /\ e.status \in {"PROBLEM", "OK"} /\ e.step \in 1 .. 2
          /\ (IF e.step = 1 THEN e.time ELSE clock) \in Nat
      BY <1>t, <2>2 DEF InsertRec
    <3>2. b \in CaseRow
      BY <2>5
    <3> HIDE DEF b, c, e
    <3> QED
      BY <3>1, <3>2 DEF CaseRow
  <2>7. inserting' = [inserting EXCEPT ![r] = [e EXCEPT !.at = "written"]]
    BY <1>t, <2>1
  <2> HIDE DEF b, c, d, e
  <2>8. inserting' \in [Readers -> {None} \cup InsertRec]
    BY <1>t, <2>2, <2>7
  <2>9. Ids(cases') = Ids(cases) /\ \A x \in cases' : x = d \/ x \in cases
    BY <2>1, <2>2, <2>3, <2>5, <2>6, SaveIds, SaveRows
  <2>10. \A q \in Readers : inserting'[q].at \in {"found", "written"} => inserting'[q].case \in Ids(cases')
    BY <1>t, <2>2, <2>7, <2>9 DEF CaseInv
  <2>11. Unique(cases')
    BY <1>t, <2>1, UniqueKept
  <2>12. Shows(d)
    <3>1. CASE b.process_note = 0 /\ b.process_status = "unresolved"
      BY <2>6, <3>1 DEF Shows
    <3>2. CASE b.process_note = c.process_note /\ b.process_status = c.process_status
      BY <2>4, <2>5, <2>6, <3>2 DEF Shows
    <3> QED
      BY <2>5, <3>1, <3>2
  <2>13. \A x \in cases' : Shows(x)'
    BY <2>1, <2>9, <2>12 DEF CaseInv, Shows
  <2> QED
    BY <1>t, <2>1, <2>6, <2>8, <2>9, <2>10, <2>11, <2>13 DEF CaseInv
<1>5. ASSUME NEW r \in Readers, insertEvent(r) PROVE CaseInv'
  <2> DEFINE e == inserting[r]
             new == [id |-> e.time, event_caseId |-> e.case, timestamp |-> e.time,
                     status |-> IF e.status = "OK" THEN 1 ELSE 0]
  <2>1. /\ e.at = "written" /\ events' = events \cup {new}
        /\ inserting' = [inserting EXCEPT ![r] = None]
        /\ UNCHANGED <<cases, notes, clock>>
    BY <1>5 DEF insertEvent
  <2>2. e \in InsertRec /\ e.case \in Ids(cases)
    BY <1>k, <2>1 DEF CaseInv
  <2>3. new \in Events /\ new.event_caseId = e.case
    BY <2>2 DEF InsertRec, Events
  <2> HIDE DEF e, new
  <2>4. inserting' \in [Readers -> {None} \cup InsertRec]
    BY <1>t, <2>1
  <2>5. \A q \in Readers : inserting'[q].at \in {"found", "written"} => inserting'[q].case \in Ids(cases')
    BY <1>t, <1>n, <2>1 DEF CaseInv
  <2>6. IsFiniteSet(events')
    BY <1>t, <2>1, FS_AddElement
  <2>7. events' \subseteq Events /\ \A x \in events' : x.event_caseId \in Ids(cases')
    BY <1>t, <2>1, <2>2, <2>3 DEF CaseInv
  <2> QED
    BY <1>t, <2>1, <2>4, <2>5, <2>6, <2>7 DEF CaseInv, Shows
<1>6. ASSUME NEW u \in CaseUsers, UserDeleted(u) PROVE CaseInv'
  <2>1. notes' \subseteq notes /\ UNCHANGED <<cases, events, inserting, clock>>
    BY <1>6 DEF UserDeleted
  <2> QED
    BY <2>1 DEF CaseInv, Shows
<1>7. ASSUME NEW u \in CaseUsers, NEW c \in CaseIds, NEW status \in Statuses,
             AddNotesToAlarm(u, c, status)
      PROVE  CaseInv'
  <2> DEFINE new == [id |-> clock', event_caseId |-> c, status |-> status, user |-> u]
             x == Row(cases, c)
             d == [x EXCEPT !.process_note = clock', !.process_status = status, !.timestamp = clock']
  <2>1. /\ clock < MaxClock /\ clock' = clock + 1 /\ c \in Ids(cases)
        /\ notes' = notes \cup {new}
        /\ cases' = IF status = "comment" THEN cases ELSE Save(cases, d)
        /\ UNCHANGED <<events, inserting>>
    BY <1>7 DEF AddNotesToAlarm, Tick
  <2>2. clock' \in Nat /\ clock' <= MaxClock /\ clock' # 0
    BY <1>t, <2>1
  <2>3. new.id = clock' /\ new.event_caseId = c /\ new.status = status
    OBVIOUS
  <2>4. x \in cases /\ x.id = c /\ x \in CaseRow
    BY <1>t, <2>1, RowFound
  <2>5. status # "comment" => d \in CaseRow
    BY <2>2, <2>4 DEF CaseRow, Statuses
  <2>6. d.id = c /\ d.process_note = clock' /\ d.process_status = status
    BY <2>4 DEF CaseRow
  <2>z. PICK z : /\ z.id = c /\ z.process_note = clock' /\ z.process_status = status
                 /\ status # "comment" => z \in CaseRow /\ cases' = Save(cases, z)
    BY <2>1, <2>5, <2>6
  <2> HIDE DEF new, x, d
  <2>7. \A n \in notes' : n.id \in Nat /\ n.id <= clock'
    BY <1>t, <2>1, <2>2, <2>3 DEF CaseInv
  <2>8. \A n \in notes : n.id # clock'
    BY <1>t, <2>1 DEF CaseInv
  <2>9. CASE status = "comment"
    <3>1. \A y \in cases' : Shows(y)'
      BY <2>1, <2>3, <2>9 DEF CaseInv, Shows
    <3> QED
      BY <1>t, <2>1, <2>2, <2>7, <2>9, <3>1 DEF CaseInv
  <2>10. CASE status # "comment"
    <3>1. cases' = Save(cases, z) /\ z \in CaseRow
      BY <2>z, <2>10
    <3>2. Ids(cases') = Ids(cases) /\ Unique(cases')
          /\ \A y \in cases' : y = z \/ (y \in cases /\ y.id # c)
      BY <1>t, <2>1, <2>z, <3>1, SaveIds, SaveRows, UniqueKept
    <3>3. cases' \subseteq CaseRow
      BY <1>t, <3>1, <3>2
    <3>4. Shows(z)'
      BY <2>1, <2>2, <2>3, <2>z, <2>7, <2>8 DEF Shows
    <3>5. ASSUME NEW y \in cases, y.id # c PROVE Shows(y)'
      BY <2>1, <2>3, <3>5 DEF CaseInv, Shows
    <3>6. \A y \in cases' : Shows(y)'
      BY <3>2, <3>4, <3>5
    <3> QED
      BY <1>t, <2>1, <2>2, <2>7, <3>2, <3>3, <3>6 DEF CaseInv
  <2> QED
    BY <2>9, <2>10
<1>8. ASSUME NEW before \in 1 .. MaxClock, DeleteEventOlder(before, 1) PROVE CaseInv'
  <2>1. events' \subseteq events /\ UNCHANGED <<cases, notes, inserting, clock>>
    BY <1>8 DEF DeleteEventOlder
  <2>2. IsFiniteSet(events')
    BY <1>t, <2>1, FS_Subset
  <2> QED
    BY <2>1, <2>2 DEF CaseInv, Shows
<1> QED
  BY <1>1, <1>2, <1>3, <1>4, <1>5, <1>6, <1>7, <1>8 DEF CaseNextStep

\* The row of a case shows the newest decision on it, or that it was opened
\* again; its page finds it, and its events, whatever InsertEvent of the two
\* readers writes between the statements of the api.
THEOREM CasesShowDecisions == CaseSpec => []CaseShowsDecision
<1>1. CaseInit => CaseInv
  <2> SUFFICES ASSUME CaseInit PROVE CaseInv
    OBVIOUS
  <2>1. \A r \in Readers : inserting[r].at = "none"
    BY DEF CaseInit, None
  <2> QED
    BY <2>1, FS_EmptySet DEF CaseInit, CaseInv, Unique
<1> QED
  BY <1>1, CaseStep, CasesShown, PTL DEF CaseSpec

----------------------------------------------------------------------------
(* The aggregator's goroutines (modules/aggregator/cron).                  *)

RowItems == {{x} : x \in ClusterItems} \cup {{}}
ClusterRow == [item : RowItems, at : Nat, twice : BOOLEAN]
ReadRow == [id : ClusterIds, at : Nat, item : RowItems]
AggWorker == [id : ClusterIds, at : Nat, item : RowItems, quit : BOOLEAN]

AggTypes ==
    /\ clusterRows \in [ClusterIds -> ClusterRow]
    /\ second \in Nat /\ second > 0
    /\ itemsRead.busy \in BOOLEAN /\ itemsRead.rows \subseteq ReadRow
    /\ aggWorkers \subseteq AggWorker
    /\ aggSeen \subseteq ClusterIds

\* One copy of a row, made of the row as it was.
OldCopy(c) ==
    /\ c.at <= clusterRows[c.id].at
    /\ c.at > 0
    /\ c.at = clusterRows[c.id].at /\ ~clusterRows[c.id].twice => c.item = clusterRows[c.id].item

KeysInv ==
    /\ \A i \in ClusterIds : clusterRows[i].at <= second
    /\ \A i \in ClusterIds : clusterRows[i].item # {} => clusterRows[i].at > 0
    /\ \A c \in aggWorkers \cup itemsRead.rows : OldCopy(c)
    /\ \A r, s \in itemsRead.rows : r.id = s.id => r = s
    /\ \A w, v \in aggWorkers : ~w.quit /\ ~v.quit /\ SameKey(w, v) => w = v
    /\ \A w \in aggWorkers : Valid(w)

\* What is being applied has the rows as they are, but for those edited since.
ReadInv ==
    itemsRead.busy =>
        \A i \in aggSeen :
            IF clusterRows[i].item # {}
            THEN \E r \in itemsRead.rows : r.id = i /\ r.at = clusterRows[i].at
            ELSE \A r \in itemsRead.rows : r.id # i

AggInv == AggTypes /\ KeysInv /\ ReadInv /\ WorkersFollow

\* The goroutines of one row that were not told to quit.
LiveOf(i) == {w \in aggWorkers : w.id = i /\ ~w.quit}

\* WorkersFollow, row by row.
Follows(i) ==
    ~clusterRows[i].twice =>
        IF clusterRows[i].item # {} /\ Valid(clusterRows[i])
        THEN Cardinality(LiveOf(i)) = 1 /\ \A w \in LiveOf(i) : w.item = clusterRows[i].item
        ELSE LiveOf(i) = {}

\* The property is about each row by itself.
LEMMA FollowsAll == WorkersFollow <=> (~itemsRead.busy => \A i \in aggSeen : Follows(i))
BY DEF WorkersFollow, Follows, LiveOf

\* It is kept when rows and live goroutines are.
LEMMA FollowSame ==
    ASSUME WorkersFollow, itemsRead'.busy = itemsRead.busy, aggSeen' \subseteq aggSeen,
           \A i \in aggSeen' : clusterRows'[i] = clusterRows[i],
           \A w : w \in aggWorkers' /\ ~w.quit <=> w \in aggWorkers /\ ~w.quit
    PROVE  WorkersFollow'
<1>1. \A i : LiveOf(i)' = LiveOf(i)
  BY DEF LiveOf
<1>2. ASSUME NEW i \in aggSeen', Follows(i) PROVE Follows(i)'
  <2>1. Cardinality(LiveOf(i))' = Cardinality(LiveOf(i))
    BY <1>1
  <2>2. Valid(clusterRows[i])' = Valid(clusterRows[i])
    BY DEF Valid
  <2> QED
    BY <1>1, <1>2, <2>1, <2>2 DEF Follows
<1>3. ~itemsRead'.busy => \A i \in aggSeen' : Follows(i)'
  BY <1>2, FollowsAll
<1>4. (WorkersFollow <=> (~itemsRead.busy => \A i \in aggSeen : Follows(i)))'
  BY FollowsAll, PTL
<1> QED
  BY <1>3, <1>4

\* What is known of rows, of copies of them and of goroutines.
LEMMA AggFields ==
    ASSUME AggInv
    PROVE  /\ second \in Nat /\ second > 0
           /\ \A i \in ClusterIds :
                /\ clusterRows[i].at \in Nat /\ clusterRows[i].at <= second
                /\ clusterRows[i].item \in RowItems /\ clusterRows[i].twice \in BOOLEAN
                /\ clusterRows[i].item # {} => clusterRows[i].at > 0
           /\ \A c \in aggWorkers \cup itemsRead.rows : c.id \in ClusterIds /\ c.at \in Nat /\ OldCopy(c)
<1>1. second \in Nat /\ second > 0 /\ \A i \in ClusterIds : clusterRows[i] \in ClusterRow
  BY DEF AggInv, AggTypes
<1>2. ASSUME NEW i \in ClusterIds
      PROVE  /\ clusterRows[i].at \in Nat /\ clusterRows[i].item \in RowItems
             /\ clusterRows[i].twice \in BOOLEAN
  BY <1>1 DEF ClusterRow
<1>3. ASSUME NEW i \in ClusterIds
      PROVE  clusterRows[i].at <= second /\ (clusterRows[i].item # {} => clusterRows[i].at > 0)
  BY DEF AggInv, KeysInv
<1>4. ASSUME NEW c \in aggWorkers \cup itemsRead.rows PROVE c.id \in ClusterIds /\ c.at \in Nat
  <2>1. CASE c \in aggWorkers
    BY <2>1 DEF AggInv, AggTypes, AggWorker
  <2>2. CASE c \in itemsRead.rows
    BY <2>2 DEF AggInv, AggTypes, ReadRow
  <2> QED
    BY <2>1, <2>2
<1>5. \A c \in aggWorkers \cup itemsRead.rows : OldCopy(c)
  BY DEF AggInv, KeysInv
<1> QED
  BY <1>1, <1>2, <1>3, <1>4, <1>5

\* A row is written: what has the key of the row as it is now is no longer
\* compared with it, or is older.
LEMMA EditRowStep == ASSUME AggInv, NEW i \in ClusterIds, EditRow(i) PROVE AggInv'
<1>1. PICK x \in RowItems : clusterRows' = [clusterRows EXCEPT ![i] =
         [item |-> x, at |-> second, twice |-> @.at = second /\ @.item # {}]]
  BY DEF EditRow, RowItems
<1>2. PICK row : row = [item |-> x, at |-> second, twice |-> clusterRows[i].at = second /\ clusterRows[i].item # {}]
  OBVIOUS
<1>3. /\ row \in ClusterRow /\ row.at = second /\ row.item = x
      /\ row.twice = (clusterRows[i].at = second /\ clusterRows[i].item # {})
  BY <1>2 DEF AggInv, AggTypes, ClusterRow
<1>4. /\ clusterRows' \in [ClusterIds -> ClusterRow] /\ clusterRows'[i] = row
      /\ \A j \in ClusterIds : j # i => clusterRows'[j] = clusterRows[j]
  BY <1>1, <1>2, <1>3 DEF AggInv, AggTypes
<1>5. /\ clusterRows[i].item # {} \/ clusterRows[i].at = 0
      /\ aggSeen' = aggSeen \ {i} /\ second' = second /\ itemsRead' = itemsRead /\ aggWorkers' = aggWorkers
  BY DEF EditRow
<1>6. AggTypes'
  BY <1>4, <1>5 DEF AggInv, AggTypes
<1>7. ASSUME NEW c \in aggWorkers \cup itemsRead.rows PROVE OldCopy(c)'
  <2>1. c.id \in ClusterIds /\ c.at \in Nat /\ OldCopy(c)
    BY AggFields
  <2>2. CASE c.id # i
    BY <1>4, <2>1, <2>2 DEF OldCopy
  <2>3. CASE c.id = i
    <3>1. /\ clusterRows[i].at \in Nat /\ clusterRows[i].at <= second /\ second \in Nat
      BY AggFields
    <3>2. c.at <= clusterRows[i].at /\ c.at > 0
      BY <2>1, <2>3 DEF OldCopy
    <3>3. ASSUME c.at = second PROVE row.twice
      <4>1. clusterRows[i].at = second /\ clusterRows[i].at # 0
        BY <2>1, <3>1, <3>2, <3>3
      <4> QED
        BY <1>3, <1>5, <4>1
    <3>4. c.at <= second
      BY <2>1, <3>1, <3>2
    <3> QED
      BY <1>3, <1>4, <2>3, <3>2, <3>3, <3>4 DEF OldCopy
  <2> QED
    BY <2>2, <2>3
<1>8. KeysInv'
  <2>1. \A j \in ClusterIds :
          clusterRows'[j].at <= second' /\ (clusterRows'[j].item # {} => clusterRows'[j].at > 0)
    <3> SUFFICES ASSUME NEW j \in ClusterIds
                 PROVE  clusterRows'[j].at <= second /\ (clusterRows'[j].item # {} => clusterRows'[j].at > 0)
      BY <1>5
    <3>1. CASE j = i
      BY <1>3, <1>4, <3>1, AggFields
    <3>2. CASE j # i
      BY <1>4, <3>2, AggFields
    <3> QED
      BY <3>1, <3>2
  <2>2. \A c \in (aggWorkers \cup itemsRead.rows)' : OldCopy(c)'
    BY <1>5, <1>7
  <2> QED
    BY <1>5, <2>1, <2>2 DEF AggInv, KeysInv
<1>9. \A j \in aggSeen' : j \in aggSeen /\ clusterRows'[j] = clusterRows[j]
  BY <1>4, <1>5 DEF AggInv, AggTypes
<1>10. ReadInv'
  BY <1>5, <1>9 DEF AggInv, ReadInv
<1>11. WorkersFollow'
  <2>1. aggSeen' \subseteq aggSeen /\ itemsRead'.busy = itemsRead.busy
    BY <1>5
  <2>2. \A w : w \in aggWorkers' /\ ~w.quit <=> w \in aggWorkers /\ ~w.quit
    BY <1>5
  <2>3. \A j \in aggSeen' : clusterRows'[j] = clusterRows[j]
    BY <1>9
  <2> QED
    BY <2>1, <2>2, <2>3, FollowSame DEF AggInv
<1> QED
  BY <1>6, <1>8, <1>10, <1>11 DEF AggInv

\* The table is read, or a part of it.
LEMMA ReadRowsStep == AggInv /\ ReadClusterMonitorItems => AggInv'
<1> SUFFICES ASSUME AggInv, ReadClusterMonitorItems PROVE AggInv'
  OBVIOUS
<1>1. PICK ids \in SUBSET {i \in ClusterIds : clusterRows[i].item # {}} :
        /\ itemsRead' = [busy |-> TRUE,
                         rows |-> {[id |-> i, at |-> clusterRows[i].at, item |-> clusterRows[i].item] : i \in ids}]
        /\ aggSeen' = ids \cup {i \in ClusterIds : clusterRows[i].item = {}}
  BY DEF ReadClusterMonitorItems
<1>2. clusterRows' = clusterRows /\ second' = second /\ aggWorkers' = aggWorkers
  BY DEF ReadClusterMonitorItems
<1>3. itemsRead'.busy = TRUE
  BY <1>1
<1>4. ASSUME NEW r \in itemsRead'.rows
      PROVE  r \in ReadRow /\ r.id \in ids /\ r.at = clusterRows[r.id].at /\ r.item = clusterRows[r.id].item
  <2>1. PICK i \in ids : r = [id |-> i, at |-> clusterRows[i].at, item |-> clusterRows[i].item]
    BY <1>1
  <2>2. clusterRows[i].at \in Nat /\ clusterRows[i].item \in RowItems /\ i \in ClusterIds
    BY DEF AggInv, AggTypes, ClusterRow
  <2> QED
    BY <2>1, <2>2 DEF ReadRow
<1>5. ASSUME NEW r \in itemsRead'.rows, NEW s \in itemsRead'.rows, r.id = s.id PROVE r = s
  BY <1>4, <1>5 DEF ReadRow
<1>6. ASSUME NEW i \in ids PROVE \E r \in itemsRead'.rows : r.id = i /\ r.at = clusterRows[i].at
  <2>1. PICK r : r = [id |-> i, at |-> clusterRows[i].at, item |-> clusterRows[i].item]
    OBVIOUS
  <2>2. r \in itemsRead'.rows
    BY <1>1, <2>1
  <2> QED
    BY <2>1, <2>2
<1>7. AggTypes'
  BY <1>1, <1>2, <1>3, <1>4 DEF AggInv, AggTypes
<1>8. ASSUME NEW r \in itemsRead'.rows PROVE OldCopy(r)'
  <2>1. clusterRows[r.id].item # {} /\ clusterRows[r.id].at \in Nat
    BY <1>4 DEF AggInv, AggTypes, ClusterRow
  <2>2. clusterRows[r.id].at > 0
    BY <1>4, <2>1, AggFields
  <2> QED
    BY <1>2, <1>4, <2>1, <2>2 DEF OldCopy
<1>9. KeysInv'
  <2>1. \A w \in aggWorkers : OldCopy(w)'
    BY <1>2 DEF AggInv, KeysInv, OldCopy
  <2> QED
    BY <1>2, <1>5, <1>8, <2>1 DEF AggInv, KeysInv
<1>10. ReadInv'
  BY <1>1, <1>2, <1>4, <1>6 DEF ReadInv
<1>11. WorkersFollow'
  BY <1>3 DEF WorkersFollow
<1> QED
  BY <1>7, <1>9, <1>10, <1>11 DEF AggInv
\* A refresh is applied: the goroutines with a key that was read go on, the others
\* quit, and a key nobody has gets a goroutine.
LEMMA UpdateStep == AggInv /\ updateItems => AggInv'
<1> SUFFICES ASSUME AggInv, updateItems PROVE AggInv'
  OBVIOUS
<1> DEFINE rows == itemsRead.rows
<1>1. /\ clusterRows' = clusterRows /\ second' = second /\ aggSeen' = aggSeen /\ itemsRead.busy
      /\ itemsRead' = NotReading
      /\ aggWorkers' = deleteNoUseWorker(rows) \cup createWorkerIfNeed(rows)
  BY DEF updateItems
<1>2. itemsRead'.busy = FALSE /\ itemsRead'.rows = {}
  BY <1>1 DEF NotReading
<1>3. /\ rows \subseteq ReadRow /\ aggWorkers \subseteq AggWorker
      /\ \A r, s \in rows : r.id = s.id => r = s
      /\ \A w, v \in aggWorkers : ~w.quit /\ ~v.quit /\ SameKey(w, v) => w = v
      /\ \A w \in aggWorkers : Valid(w)
  BY DEF AggInv, AggTypes, KeysInv
<1>4. ASSUME NEW w \in deleteNoUseWorker(rows)
      PROVE  /\ w \in AggWorker /\ OldCopy(w) /\ Valid(w)
             /\ ~w.quit => w \in aggWorkers /\ \E r \in rows : SameKey(w, r)
  <2>1. PICK v \in aggWorkers : w = IF \E r \in rows : SameKey(v, r) THEN v ELSE [v EXCEPT !.quit = TRUE]
    BY DEF deleteNoUseWorker
  <2>2. v \in AggWorker /\ OldCopy(v) /\ Valid(v)
    BY <1>3, AggFields
  <2>3. CASE \E r \in rows : SameKey(v, r)
    BY <2>1, <2>2, <2>3
  <2>4. CASE ~\E r \in rows : SameKey(v, r)
    <3>1. w = [v EXCEPT !.quit = TRUE]
      BY <2>1, <2>4
    <3>2. w \in AggWorker /\ w.quit /\ w.id = v.id /\ w.at = v.at /\ w.item = v.item
      BY <2>2, <3>1 DEF AggWorker
    <3> QED
      BY <2>2, <3>2 DEF OldCopy, Valid
  <2> QED
    BY <2>3, <2>4
<1>5. ASSUME NEW w \in createWorkerIfNeed(rows)
      PROVE  /\ w \in AggWorker /\ OldCopy(w) /\ Valid(w) /\ ~w.quit
             /\ \E r \in rows : SameKey(w, r) /\ w.item = r.item
             /\ \A v \in aggWorkers : ~v.quit => ~SameKey(v, w)
  <2>1. PICK r \in rows : /\ Valid(r) /\ ~\E v \in aggWorkers : ~v.quit /\ SameKey(v, r)
                          /\ w = [id |-> r.id, at |-> r.at, item |-> r.item, quit |-> FALSE]
    BY DEF createWorkerIfNeed
  <2>2. r \in ReadRow /\ OldCopy(r)
    BY <1>3, AggFields
  <2>3. w \in AggWorker /\ w.id = r.id /\ w.at = r.at /\ w.item = r.item /\ ~w.quit
    BY <2>1, <2>2 DEF ReadRow, AggWorker
  <2>4. OldCopy(w) /\ Valid(w)
    BY <2>1, <2>2, <2>3 DEF OldCopy, Valid
  <2> QED
    BY <2>1, <2>3, <2>4 DEF SameKey
<1>6. ASSUME NEW w \in aggWorkers'
      PROVE  /\ w \in AggWorker /\ OldCopy(w) /\ Valid(w)
             /\ ~w.quit => \E r \in rows : SameKey(w, r)
             /\ ~w.quit => w \in aggWorkers \/ w \in createWorkerIfNeed(rows)
  BY <1>1, <1>4, <1>5
<1>7. AggTypes'
  BY <1>1, <1>2, <1>6 DEF AggInv, AggTypes
<1>8. ASSUME NEW w \in aggWorkers', NEW v \in aggWorkers', ~w.quit, ~v.quit, SameKey(w, v)
      PROVE  w = v
  <2>0. SameKey(v, w)
    BY <1>8 DEF SameKey
  <2>1. CASE w \in aggWorkers /\ v \in aggWorkers
    BY <1>3, <1>8, <2>1
  <2>2. CASE w \in createWorkerIfNeed(rows) /\ v \in aggWorkers
    BY <1>5, <1>8, <2>0, <2>2
  <2>3. CASE v \in createWorkerIfNeed(rows) /\ w \in aggWorkers
    BY <1>5, <1>8, <2>3
  <2>4. CASE w \in createWorkerIfNeed(rows) /\ v \in createWorkerIfNeed(rows)
    <3>1. PICK r \in rows : SameKey(w, r) /\ w.item = r.item /\ ~w.quit /\ w \in AggWorker
      BY <1>5, <2>4
    <3>2. PICK s \in rows : SameKey(v, s) /\ v.item = s.item /\ ~v.quit /\ v \in AggWorker
      BY <1>5, <2>4
    <3>3. r = s
      BY <1>3, <1>8, <3>1, <3>2 DEF SameKey
    <3>4. w.id = v.id /\ w.at = v.at /\ w.item = v.item /\ w.quit = v.quit
      BY <1>8, <3>1, <3>2, <3>3 DEF SameKey, AggWorker
    <3> QED
      BY <3>1, <3>2, <3>4 DEF AggWorker
  <2> QED
    BY <1>6, <1>8, <2>1, <2>2, <2>3, <2>4
<1>9. KeysInv'
  <2>1. \A c \in (aggWorkers \cup itemsRead.rows)' : OldCopy(c)'
    BY <1>1, <1>2, <1>6 DEF OldCopy
  <2>2. \A w \in aggWorkers' : Valid(w)
    BY <1>6
  <2>3. \A w, v \in aggWorkers' : ~w.quit /\ ~v.quit /\ SameKey(w, v) => w = v
    BY <1>8
  <2>4. \A i \in ClusterIds : clusterRows'[i].at <= second' /\ (clusterRows'[i].item # {} => clusterRows'[i].at > 0)
    BY <1>1, AggFields
  <2> QED
    BY <1>2, <2>1, <2>2, <2>3, <2>4 DEF KeysInv
<1>10. ReadInv'
  BY <1>2 DEF ReadInv
<1>11. ASSUME NEW i \in aggSeen PROVE Follows(i)'
  <2>0. i \in ClusterIds /\ clusterRows'[i] = clusterRows[i]
    BY <1>1 DEF AggInv, AggTypes
  <2>1. ASSUME NEW w \in LiveOf(i)'
        PROVE  /\ w \in aggWorkers' /\ w.id = i /\ ~w.quit
               /\ \E r \in rows : SameKey(w, r)
    BY <1>6 DEF LiveOf
  <2>2. CASE clusterRows[i].item = {}
    <3>1. \A r \in rows : r.id # i
      BY <1>1, <2>2 DEF AggInv, ReadInv
    <3>2. LiveOf(i)' = {}
      BY <2>1, <3>1 DEF SameKey
    <3> QED
      BY <2>0, <2>2, <3>2 DEF Follows
  <2>3. CASE clusterRows[i].item # {} /\ ~clusterRows[i].twice
    <3>1. PICK r \in rows : r.id = i /\ r.at = clusterRows[i].at
      BY <1>1, <2>3 DEF AggInv, ReadInv
    <3>2. r.item = clusterRows[i].item
      BY <2>3, <3>1, AggFields DEF OldCopy
    <3>3. ASSUME NEW w \in LiveOf(i)' PROVE SameKey(w, r) /\ w.item = clusterRows[i].item /\ Valid(w)
      <4>1. SameKey(w, r)
        BY <1>3, <2>1, <3>1 DEF SameKey
      <4>2. OldCopy(w) /\ Valid(w) /\ w.id = i
        BY <1>6, <2>1
      <4> QED
        BY <2>3, <3>1, <4>1, <4>2 DEF OldCopy, SameKey
    <3>4. CASE ~Valid(clusterRows[i])
      <4>1. LiveOf(i)' = {}
        BY <3>3, <3>4 DEF Valid
      <4>2. ~Valid(clusterRows'[i])
        BY <2>0, <3>4
      <4> QED
        BY <4>1, <4>2 DEF Follows
    <3>5. CASE Valid(clusterRows[i])
      <4>1. PICK w \in aggWorkers' : w.id = i /\ ~w.quit
        <5>1. CASE \E v \in aggWorkers : ~v.quit /\ SameKey(v, r)
          <6>1. PICK v \in aggWorkers : ~v.quit /\ SameKey(v, r)
            BY <5>1
          <6>2. v \in deleteNoUseWorker(rows)
            BY <6>1 DEF deleteNoUseWorker
          <6> QED
            BY <1>1, <3>1, <6>1, <6>2 DEF SameKey
        <5>2. CASE ~\E v \in aggWorkers : ~v.quit /\ SameKey(v, r)
          <6>1. PICK v : v = [id |-> r.id, at |-> r.at, item |-> r.item, quit |-> FALSE]
            OBVIOUS
          <6>2. Valid(r)
            BY <3>2, <3>5 DEF Valid
          <6>3. v \in createWorkerIfNeed(rows)
            BY <5>2, <6>1, <6>2 DEF createWorkerIfNeed
          <6> QED
            BY <1>1, <3>1, <6>1, <6>3
        <5> QED
          BY <5>1, <5>2
      <4>2. w \in LiveOf(i)'
        BY <4>1 DEF LiveOf
      <4>3. ASSUME NEW v \in LiveOf(i)' PROVE v = w
        <5>1. SameKey(v, r) /\ SameKey(w, r)
          BY <3>3, <4>2
        <5>2. SameKey(v, w)
          BY <5>1 DEF SameKey
        <5> QED
          BY <1>8, <2>1, <4>2, <5>2
      <4>4. LiveOf(i)' = {w}
        BY <4>2, <4>3
      <4>5. Cardinality(LiveOf(i)') = 1
        BY <4>4, FS_Singleton
      <4>6. \A v \in LiveOf(i)' : v.item = clusterRows'[i].item
        BY <2>0, <3>3
      <4>7. clusterRows'[i].item # {} /\ Valid(clusterRows'[i])
        BY <2>0, <2>3, <3>5
      <4> QED
        BY <4>5, <4>6, <4>7 DEF Follows
    <3> QED
      BY <3>4, <3>5
  <2>4. CASE clusterRows[i].twice
    BY <2>0, <2>4 DEF Follows
  <2> QED
    BY <2>2, <2>3, <2>4
<1>12. WorkersFollow'
  <2>1. (WorkersFollow <=> (~itemsRead.busy => \A i \in aggSeen : Follows(i)))'
    BY FollowsAll, PTL
  <2> QED
    BY <1>1, <1>11, <2>1
<1> QED
  BY <1>7, <1>9, <1>10, <1>12 DEF AggInv

\* Every step keeps the invariant.
LEMMA AggStep == AggInv /\ [AggregatorStep]_aggregatorVars => AggInv'
<1> SUFFICES ASSUME AggInv, [AggregatorStep]_aggregatorVars PROVE AggInv'
  OBVIOUS
<1>1. ASSUME UNCHANGED <<clusterRows, second, itemsRead, aggWorkers, aggSeen>> PROVE AggInv'
  <2>1. AggTypes' /\ ReadInv'
    BY <1>1 DEF AggInv, AggTypes, ReadInv
  <2>2. KeysInv'
    BY <1>1 DEF AggInv, KeysInv, OldCopy
  <2>3. WorkersFollow'
    BY <1>1 DEF AggInv, WorkersFollow
  <2> QED
    BY <2>1, <2>2, <2>3 DEF AggInv
<1>2. ASSUME NEW i \in ClusterIds, EditRow(i) PROVE AggInv'
  BY <1>2, EditRowStep
<1>3. CASE NextSecond
  <2>1. second' = second + 1 /\ UNCHANGED <<clusterRows, itemsRead, aggWorkers, aggSeen>>
    BY <1>3 DEF NextSecond
  <2>2. AggTypes' /\ ReadInv'
    BY <2>1 DEF AggInv, AggTypes, ReadInv
  <2>3. \A i \in ClusterIds : clusterRows'[i].at <= second'
    BY <2>1, AggFields
  <2>4. KeysInv'
    BY <2>1, <2>3 DEF AggInv, KeysInv, OldCopy
  <2>5. WorkersFollow'
    BY <2>1 DEF AggInv, WorkersFollow
  <2> QED
    BY <2>2, <2>4, <2>5 DEF AggInv
<1>4. CASE ReadClusterMonitorItems
  BY <1>4, ReadRowsStep
<1>5. CASE updateItems
  BY <1>5, UpdateStep
<1>6. ASSUME NEW w \in aggWorkers, WorkerRun(w) PROVE AggInv'
  BY <1>1, <1>6 DEF WorkerRun
<1>7. ASSUME NEW w \in aggWorkers, WorkerQuits(w) PROVE AggInv'
  <2>1. w.quit /\ aggWorkers' = aggWorkers \ {w} /\ UNCHANGED <<clusterRows, second, itemsRead, aggSeen>>
    BY <1>7 DEF WorkerQuits
  <2>2. AggTypes' /\ ReadInv'
    BY <2>1 DEF AggInv, AggTypes, ReadInv
  <2>3. KeysInv'
    BY <2>1 DEF AggInv, KeysInv, OldCopy
  <2>4. WorkersFollow'
    <3>1. \A v : v \in aggWorkers' /\ ~v.quit <=> v \in aggWorkers /\ ~v.quit
      BY <2>1
    <3> QED
      BY <2>1, <3>1, FollowSame DEF AggInv
  <2> QED
    BY <2>2, <2>3, <2>4 DEF AggInv
<1>8. CASE UNCHANGED aggregatorVars
  BY <1>1, <1>8 DEF aggregatorVars
<1> QED
  BY <1>2, <1>3, <1>4, <1>5, <1>6, <1>7, <1>8 DEF AggregatorStep

\* The invariant of the aggregator.
LEMMA AggInvAlways == AggSpec => []AggInv
<1>1. AggregatorInit => AggInv
  <2> SUFFICES ASSUME AggregatorInit PROVE AggInv
    OBVIOUS
  <2>1. /\ clusterRows = [i \in ClusterIds |-> NoRow] /\ second = 1
        /\ itemsRead = NotReading /\ aggWorkers = {} /\ aggSeen = {}
    BY DEF AggregatorInit
  <2>2. NoRow \in ClusterRow /\ NoRow.at = 0 /\ NoRow.item = {}
    BY DEF NoRow, ClusterRow, RowItems
  <2>3. itemsRead.busy = FALSE /\ itemsRead.rows = {}
    BY <2>1 DEF NotReading
  <2>6. clusterRows \in [ClusterIds -> ClusterRow]
    BY <2>1, <2>2
  <2>7. second \in Nat /\ second > 0
    BY <2>1
  <2>4. AggTypes
    BY <2>1, <2>3, <2>6, <2>7 DEF AggTypes
  <2>5. KeysInv
    BY <2>1, <2>2, <2>3 DEF KeysInv
  <2> QED
    BY <2>1, <2>3, <2>4, <2>5 DEF AggInv, ReadInv, WorkersFollow
<1> QED
  BY <1>1, AggStep, PTL DEF AggSpec

\* When a refresh is done, every row it had and that has not changed since is
\* computed by exactly one goroutine, from what the row says now, and a row that
\* is gone by none, for any table and any edits while the table is read; only a
\* row written twice within a second escapes (updateItems, the key of Workers).
THEOREM OneWorkerPerRow == AggSpec => []WorkersFollow
<1>1. AggInv => WorkersFollow
  BY DEF AggInv
<1> QED
  BY <1>1, AggInvAlways, PTL

----------------------------------------------------------------------------
(* The computation (WorkerRun, compute).                                   *)

\* Rows that are read, and goroutines, have an item.
ItemsThere == \A c \in aggWorkers \cup itemsRead.rows : c.item # {}

Answers == [AggHosts -> [Counters -> {{}} \cup {{v} : v \in HostValues}]]

\* The value of an expression for a host that has answered.
LEMMA ComputeIsNumber ==
    ASSUME ExprAssumption, NEW e, e.kind = "expr", e.operands \in Seq(Counters), NEW vals \in Answers,
           NEW h \in AggHosts, Computable(e, vals, h)
    PROVE  /\ compute(e, vals, h) \in Int
           /\ e.cmp # {} => compute(e, vals, h) \in {0, 1}
<1>0. needCompute(e) /\ HostValues \subseteq Int
  BY DEF needCompute, ExprAssumption
<1>1. PICK D : D = DOMAIN e.operands
  OBVIOUS
<1>2. IsFiniteSet(D)
  <2>1. PICK n \in Nat : D = 1 .. n
    BY <1>1, LenProperties
  <2>2. IsFiniteSet(1 .. n)
    BY FS_Interval
  <2> QED
    BY <2>1, <2>2
<1>3. ASSUME NEW k \in D PROVE valueOf(vals[h][e.operands[k]]) \in Int
  <2>1. e.operands[k] \in Counters
    BY <1>1, <1>3, ElementOfSeq, LenProperties
  <2>2. vals[h][e.operands[k]] \in {{}} \cup {{v} : v \in HostValues}
    BY <2>1 DEF Answers
  <2>3. vals[h][e.operands[k]] # {}
    BY <1>0, <1>1 DEF Computable
  <2>4. PICK v \in HostValues : vals[h][e.operands[k]] = {v}
    BY <2>2, <2>3
  <2>5. valueOf(vals[h][e.operands[k]]) = v
    BY <2>4 DEF valueOf
  <2> QED
    BY <1>0, <2>5
<1>4. PICK f : f = [k \in D |-> IF k = 1 \/ e.operators[k - 1] = "+" THEN valueOf(vals[h][e.operands[k]])
                                ELSE 0 - valueOf(vals[h][e.operands[k]])]
  OBVIOUS
<1>5. \A k \in D : f[k] \in Int
  BY <1>3, <1>4
<1>6. DOMAIN f = D
  BY <1>4
<1>7. SumFunction(f) \in Int
  BY <1>2, <1>5, <1>6, SumIsNumber DEF SumFunction
<1>8. compute(e, vals, h) = IF e.cmp = {} THEN SumFunction(f)
                            ELSE IF compareSum(SumFunction(f), valueOf(e.cmp)) THEN 1 ELSE 0
  BY <1>0, <1>1, <1>4 DEF compute
<1> QED
  BY <1>7, <1>8

\* What a goroutine pushes is a mean of what the hosts answered.
LEMMA RunInRange ==
    ASSUME ExprAssumption, AggTypes, ItemsThere, NEW w \in aggWorkers, WorkerRun(w)
    PROVE  MeanInRange'
<1>0. IsFiniteSet(AggHosts)
  BY DEF ExprAssumption
<1>1. PICK item : item = valueOf(w.item)
  OBVIOUS
<1>2. item \in ClusterItems
  <2>1. w.item \in RowItems /\ w.item # {}
    BY DEF AggTypes, AggWorker, ItemsThere
  <2> QED
    BY <1>1, <2>1 DEF RowItems, valueOf
<1>3. /\ needCompute(item.num) \/ needCompute(item.den)
      /\ \E vals \in Answers :
           /\ ValidHosts(item, vals) # {}
           /\ aggPushed' = {[item |-> item, vals |-> vals, num |-> Total(item.num, vals, ValidHosts(item, vals)),
                             den |-> Total(item.den, vals, ValidHosts(item, vals))]}
  BY <1>1 DEF WorkerRun, Answers
<1>4. PICK vals \in Answers :
           /\ ValidHosts(item, vals) # {}
           /\ aggPushed' = {[item |-> item, vals |-> vals, num |-> Total(item.num, vals, ValidHosts(item, vals)),
                             den |-> Total(item.den, vals, ValidHosts(item, vals))]}
  BY <1>3
<1>5. PICK p : /\ aggPushed' = {p} /\ p.item = item /\ p.vals = vals
               /\ p.num = Total(item.num, vals, ValidHosts(item, vals))
               /\ p.den = Total(item.den, vals, ValidHosts(item, vals))
  <2>1. PICK n : n = Total(item.num, vals, ValidHosts(item, vals))
    OBVIOUS
  <2>2. PICK d : d = Total(item.den, vals, ValidHosts(item, vals))
    OBVIOUS
  <2>3. PICK p : p = [item |-> item, vals |-> vals, num |-> n, den |-> d]
    OBVIOUS
  <2>4. aggPushed' = {p}
    BY <1>4, <2>1, <2>2, <2>3
  <2>5. p.item = item /\ p.vals = vals /\ p.num = n /\ p.den = d
    BY <2>3
  <2> QED
    BY <2>1, <2>2, <2>4, <2>5
<1> DEFINE Able == {g \in AggHosts : Computable(item.num, vals, g)}
           each == {compute(item.num, vals, h) : h \in Able}
<1>6. ASSUME item.den.kind = "count"
      PROVE  /\ Min(each) * p.den <= p.num /\ p.num <= Max(each) * p.den
             /\ item.num.kind = "expr" /\ item.num.cmp # {} => 0 <= p.num /\ p.num <= p.den
  <2>1. item.num.kind = "expr"
    BY <1>3, <1>6 DEF needCompute
  <2>2. item.num.operands \in Seq(Counters)
    BY <1>2, <2>1 DEF ExprAssumption
  <2>3. \A h \in Able : /\ compute(item.num, vals, h) \in Int
                        /\ item.num.cmp # {} => compute(item.num, vals, h) \in {0, 1}
    BY <2>1, <2>2, ComputeIsNumber
  <2>4. PICK hosts : hosts = ValidHosts(item, vals)
    OBVIOUS
  <2>5. hosts \subseteq Able /\ hosts # {}
    BY <1>4, <2>4 DEF ValidHosts
  <2>6. IsFiniteSet(Able) /\ IsFiniteSet(hosts)
    <3>1. Able \subseteq AggHosts
      OBVIOUS
    <3> HIDE DEF Able
    <3>2. IsFiniteSet(Able)
      BY <1>0, <3>1, FS_Subset
    <3> QED
      BY <2>5, <3>2, FS_Subset
  <2>7. PICK f : f = [h \in hosts |-> compute(item.num, vals, h)]
    OBVIOUS
  <2>8. PICK g : g = [h \in Able |-> compute(item.num, vals, h)]
    OBVIOUS
  <2>9. /\ p.num = SumFunctionOnSet(f, hosts) /\ p.den = Cardinality(hosts)
    <3>1. DOMAIN f = hosts
      BY <2>7
    <3>2. p.num = SumFunction(f)
      BY <1>5, <2>1, <2>4, <2>7 DEF Total
    <3>3. p.den = Cardinality(hosts)
      BY <1>5, <1>6, <2>4 DEF Total
    <3> QED
      BY <3>1, <3>2, <3>3 DEF SumFunction
  <2>10. each = {g[h] : h \in Able}
    BY <2>8
  <2>11. IsFiniteSet(each) /\ each # {} /\ each \subseteq Int
    <3>1. each # {} /\ each \subseteq Int
      BY <2>3, <2>5
    <3> HIDE DEF each, Able
    <3> QED
      BY <2>6, <2>10, <3>1, FiniteImage
  <2>12. \A h \in hosts : f[h] \in each /\ f[h] \in Int /\ (item.num.cmp # {} => f[h] \in {0, 1})
    BY <2>3, <2>5, <2>7
  <2> HIDE DEF each, Able
  <2>13. /\ Min(each) \in Int /\ Max(each) \in Int
         /\ \A h \in hosts : f[h] \in Int /\ Min(each) <= f[h] /\ f[h] <= Max(each)
    BY <2>11, <2>12, Extremes
  <2>14. /\ Min(each) * Cardinality(hosts) <= SumFunctionOnSet(f, hosts)
         /\ SumFunctionOnSet(f, hosts) <= Max(each) * Cardinality(hosts)
    BY <2>6, <2>13, SumBounds
  <2>15. ASSUME item.num.cmp # {} PROVE 0 <= p.num /\ p.num <= p.den
    <3>1. PICK lo \in Int, hi \in Int : lo = 0 /\ hi = 1
      OBVIOUS
    <3>2. \A h \in hosts : f[h] \in Int /\ lo <= f[h] /\ f[h] <= hi
      BY <2>12, <2>15, <3>1
    <3>3. /\ lo * Cardinality(hosts) <= SumFunctionOnSet(f, hosts)
          /\ SumFunctionOnSet(f, hosts) <= hi * Cardinality(hosts)
      BY <2>6, <3>2, SumBounds
    <3>4. PICK n \in Nat : n = Cardinality(hosts)
      BY <2>6, FS_CardinalityType
    <3>5. lo * n = 0 /\ hi * n = n
      BY <3>1
    <3> QED
      BY <2>9, <3>3, <3>4, <3>5
  <2> QED
    BY <2>9, <2>14, <2>15
<1> QED
  BY <1>5, <1>6 DEF MeanInRange

\* A value divided by the number of hosts lies between the least and the greatest
\* value some host answered with, or between 0 and 1 for a comparison, for any
\* hosts, counters, values and expressions (WorkerRun, compute).
THEOREM MeansInRange == AggSpec => []MeanInRange
<1>1. AggregatorInit => ItemsThere /\ MeanInRange
  BY DEF AggregatorInit, ItemsThere, MeanInRange, NotReading, NothingPushed
<1>2. AggInv /\ ItemsThere /\ MeanInRange /\ [AggregatorStep]_aggregatorVars => ItemsThere' /\ MeanInRange'
  <2> SUFFICES ASSUME AggInv, ItemsThere, MeanInRange, [AggregatorStep]_aggregatorVars
               PROVE  ItemsThere' /\ MeanInRange'
    OBVIOUS
  <2>0. AggTypes
    BY DEF AggInv
  <2>1. ASSUME aggPushed' = NothingPushed PROVE MeanInRange'
    BY <2>1 DEF MeanInRange, NothingPushed
  <2>2. ASSUME UNCHANGED <<aggWorkers, itemsRead>> PROVE ItemsThere'
    BY <2>2 DEF ItemsThere
  <2>3. ASSUME NEW i \in ClusterIds, EditRow(i) PROVE ItemsThere' /\ MeanInRange'
    BY <2>1, <2>2, <2>3 DEF EditRow
  <2>4. CASE NextSecond
    BY <2>1, <2>2, <2>4 DEF NextSecond
  <2>5. CASE ReadClusterMonitorItems
    <3>1. /\ aggPushed' = NothingPushed /\ aggWorkers' = aggWorkers
          /\ \E ids \in SUBSET {i \in ClusterIds : clusterRows[i].item # {}} :
               itemsRead' = [busy |-> TRUE,
                             rows |-> {[id |-> i, at |-> clusterRows[i].at, item |-> clusterRows[i].item] : i \in ids}]
      BY <2>5 DEF ReadClusterMonitorItems
    <3>2. \A c \in itemsRead'.rows : c.item # {}
      BY <3>1
    <3> QED
      BY <2>1, <3>1, <3>2 DEF ItemsThere
  <2>6. CASE updateItems
    <3>1. /\ aggPushed' = NothingPushed /\ itemsRead' = NotReading
          /\ aggWorkers' = deleteNoUseWorker(itemsRead.rows) \cup createWorkerIfNeed(itemsRead.rows)
      BY <2>6 DEF updateItems
    <3>2. ASSUME NEW v \in deleteNoUseWorker(itemsRead.rows) PROVE v.item # {}
      <4>1. PICK u \in aggWorkers : v = u \/ v = [u EXCEPT !.quit = TRUE]
        BY <3>2 DEF deleteNoUseWorker
      <4>2. v.item = u.item
        BY <2>0, <4>1 DEF AggTypes, AggWorker
      <4> QED
        BY <4>1, <4>2 DEF ItemsThere
    <3>3. \A v \in createWorkerIfNeed(itemsRead.rows) : v.item # {}
      BY DEF createWorkerIfNeed, ItemsThere
    <3>4. itemsRead'.rows = {}
      BY <3>1 DEF NotReading
    <3> QED
      BY <2>1, <3>1, <3>2, <3>3, <3>4 DEF ItemsThere
  <2>7. ASSUME NEW w \in aggWorkers, WorkerRun(w) PROVE ItemsThere' /\ MeanInRange'
    <3>1. UNCHANGED <<aggWorkers, itemsRead>>
      BY <2>7 DEF WorkerRun
    <3> QED
      BY <2>0, <2>2, <2>7, <3>1, RunInRange, ExprAssumption
  <2>8. ASSUME NEW w \in aggWorkers, WorkerQuits(w) PROVE ItemsThere' /\ MeanInRange'
    <3>1. aggWorkers' \subseteq aggWorkers /\ itemsRead' = itemsRead /\ aggPushed' = NothingPushed
      BY <2>8 DEF WorkerQuits
    <3> QED
      BY <2>1, <3>1 DEF ItemsThere
  <2>9. CASE UNCHANGED aggregatorVars
    BY <2>2, <2>9 DEF aggregatorVars, MeanInRange
  <2> QED
    BY <2>3, <2>4, <2>5, <2>6, <2>7, <2>8, <2>9 DEF AggregatorStep
<1> QED
  BY <1>1, <1>2, AggInvAlways, PTL DEF AggSpec

============================================================================
