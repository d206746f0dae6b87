-------------------------- MODULE Services_proofs --------------------------
(***************************************************************************)
(* hbs and what it tells judges and agents, the agent on the word of hbs,  *)
(* the gateway, and the migration of a series between graph nodes, each    *)
(* for every value of its constants.                                       *)
(***************************************************************************)
EXTENDS Hbs, AgentPlugins, Gateway, Migration, FiniteSetTheorems, SequenceTheorems,
        WellFoundedInduction, TLAPS

----------------------------------------------------------------------------
(* Lists, and sets of naturals.                                            *)

\* A list turned round has the same points.
LEMMA Turned ==
    ASSUME NEW S, NEW s \in Seq(S)
    PROVE  /\ Reverse(s) \in Seq(S) /\ Range(Reverse(s)) = Range(s)
           /\ Reverse(s) = <<>> <=> s = <<>>
<1>1. Len(s) \in Nat /\ DOMAIN s = 1 .. Len(s) /\ \A i \in 1 .. Len(s) : s[i] \in S
  BY LenProperties, ElementOfSeq
<1>2. PICK t : t = [i \in 1 .. Len(s) |-> s[Len(s) - i + 1]]
  OBVIOUS
<1>3. Reverse(s) = t
  BY <1>2 DEF Reverse
<1>4. \A i \in 1 .. Len(s) : Len(s) - i + 1 \in 1 .. Len(s) /\ Len(s) - (Len(s) - i + 1) + 1 = i
  BY <1>1
<1>5. DOMAIN t = 1 .. Len(s) /\ \A i \in 1 .. Len(s) : t[i] = s[Len(s) - i + 1]
  BY <1>2
<1>6. t \in Seq(S)
  <2>1. t \in [1 .. Len(s) -> S]
    BY <1>1, <1>2, <1>4
  <2> QED
    BY <1>1, <2>1, SeqDef
<1>7. Range(t) = Range(s)
  BY <1>1, <1>4, <1>5 DEF Range
<1>8. Len(t) = Len(s)
  BY <1>1, <1>5, <1>6, LenProperties
<1>9. t = <<>> <=> s = <<>>
  BY <1>6, <1>8, EmptySeq
<1> QED
  BY <1>3, <1>6, <1>7, <1>9

\* Two lists joined have the points of both.
LEMMA JoinedRange ==
    ASSUME NEW S, NEW s \in Seq(S), NEW t \in Seq(S)
    PROVE  Range(s \o t) = Range(s) \cup Range(t)
<1>1. /\ Len(s) \in Nat /\ Len(t) \in Nat /\ DOMAIN s = 1 .. Len(s) /\ DOMAIN t = 1 .. Len(t)
  BY LenProperties
<1>2. PICK u \in Seq(S) : u = s \o t
  BY ConcatProperties
<1>3. /\ Len(u) = Len(s) + Len(t) /\ DOMAIN u = 1 .. Len(u)
      /\ \A i \in 1 .. Len(s) + Len(t) : u[i] = IF i <= Len(s) THEN s[i] ELSE t[i - Len(s)]
  BY <1>2, ConcatProperties, LenProperties
<1>4. ASSUME NEW i \in 1 .. Len(s) PROVE s[i] \in Range(u)
  <2>1. i \in 1 .. Len(u) /\ u[i] = s[i]
    BY <1>1, <1>3
  <2> QED
    BY <1>3, <2>1 DEF Range
<1>5. ASSUME NEW i \in 1 .. Len(t) PROVE t[i] \in Range(u)
  <2>0. PICK k \in 1 .. Len(s) + Len(t) : k = Len(s) + i /\ ~(k <= Len(s)) /\ k - Len(s) = i
    BY <1>1
  <2>1. k \in 1 .. Len(u) /\ u[k] = t[i]
    BY <1>3, <2>0
  <2> QED
    BY <1>3, <2>1 DEF Range
<1>6. ASSUME NEW i \in 1 .. Len(u) PROVE u[i] \in Range(s) \cup Range(t)
  <2>1. CASE i <= Len(s)
    BY <1>1, <1>3, <2>1 DEF Range
  <2>2. CASE ~(i <= Len(s))
    <3>1. i - Len(s) \in 1 .. Len(t) /\ u[i] = t[i - Len(s)]
      BY <1>1, <1>3, <2>2
    <3> QED
      BY <1>1, <3>1 DEF Range
  <2> QED
    BY <2>1, <2>2
<1>7. Range(u) = Range(s) \cup Range(t)
  BY <1>1, <1>3, <1>4, <1>5, <1>6 DEF Range
<1> QED
  BY <1>2, <1>7

\* The least element of a set of naturals.
LEMMA LeastStamp ==
    ASSUME NEW T, T \subseteq Nat, T # {}
    PROVE  \E x \in T : \A y \in T : x <= y
<1>1. PICK R : R = OpToRel(<, Nat)
  OBVIOUS
<1>2. IsWellFoundedOn(R, Nat)
  BY <1>1, NatLessThanWellFounded
<1>3. PICK x \in T : \A y \in T : ~(<<y, x>> \in R)
  BY <1>2, WFMin
<1>4. ASSUME NEW y \in T PROVE x <= y
  <2>1. <<y, x>> \notin R
    BY <1>3
  <2>2. y < x => <<y, x>> \in R
    BY <1>1 DEF OpToRel
  <2> QED
    BY <2>1, <2>2
<1> QED
  BY <1>4

----------------------------------------------------------------------------
(* hbs (modules/hbs/cache): from the portal database to the judges.  What  *)
(* the loops over chains compute is what the database means, and a table   *)
(* is current as soon as it was loaded after the database came to rest.    *)

\* A template m steps up the inheritance, and everything below it.
Climb(tpls, t, m, F) ==
    F = [n \in 0 .. m |-> IF n = 0 THEN t ELSE LET c == F[n - 1] IN IF c \in DOMAIN tpls THEN tpls[c] ELSE 0]

\* The recursion of ParentIds defines a function, of any length.
LEMMA ClimbTo ==
    ASSUME NEW tpls, NEW t, NEW m \in Nat
    PROVE  \E F : Climb(tpls, t, m, F)
<1> DEFINE Bad == {n \in Nat : ~\E F : Climb(tpls, t, n, F)}
<1>1. ASSUME Bad # {} PROVE FALSE
  <2>0. Bad \subseteq Nat
    OBVIOUS
  <2>1. \E n \in Bad : \A k \in Bad : n <= k
    <3> HIDE DEF Bad
    <3> QED
      BY <1>1, <2>0, LeastStamp
  <2>2. PICK n \in Nat : /\ ~\E F : Climb(tpls, t, n, F)
                         /\ \A k \in Nat : k < n => \E F : Climb(tpls, t, k, F)
    BY <2>1
  <2>3. CASE n = 0
    <3>1. PICK F : F = [x \in 0 .. 0 |-> t]
      OBVIOUS
    <3>2. Climb(tpls, t, 0, F)
      BY <3>1 DEF Climb
    <3> QED
      BY <2>2, <2>3, <3>2
  <2>4. CASE n # 0
    <3>1. n - 1 \in Nat /\ n - 1 < n
      BY <2>4
    <3>2. PICK F : Climb(tpls, t, n - 1, F)
      BY <2>2, <3>1
    <3>3. PICK G : G = [x \in 0 .. n |-> IF x = 0 THEN t ELSE LET c == F[x - 1] IN IF c \in DOMAIN tpls THEN tpls[c] ELSE 0]
      OBVIOUS
    <3>4. \A x \in 0 .. n : x # 0 => G[x - 1] = F[x - 1]
      <4>1. ASSUME NEW x \in 0 .. n, x # 0 PROVE G[x - 1] = F[x - 1]
        <5>1. x - 1 \in 0 .. n - 1 /\ x - 1 \in 0 .. n
          BY <3>1, <4>1
        <5> QED
          BY <3>2, <3>3, <5>1 DEF Climb
      <4> QED
        BY <4>1
    <3>5. Climb(tpls, t, n, G)
      BY <3>3, <3>4 DEF Climb
    <3> QED
      BY <2>2, <3>5
  <2> QED
    BY <2>3, <2>4
<1> QED
  BY <1>1

\* A chain is a list of templates there are, the one it is for at its end.
LEMMA ChainFacts ==
    ASSUME NEW tpls, NEW t
    PROVE  LET c == ParentIds(tpls, t)
           IN  /\ c \in Seq(DOMAIN tpls)
               /\ c # <<>> => Len(c) \in DOMAIN c /\ c[Len(c)] = t
<1> InheritLimit \in Nat \ {0}
  BY HbsAssumption
<1> DEFINE up == CHOOSE F : Climb(tpls, t, InheritLimit, F)
           line == [n \in 0 .. InheritLimit |-> up[n]]
           depth == CHOOSE n \in 0 .. InheritLimit :
                      /\ n = InheritLimit \/ line[n] \notin DOMAIN tpls
                      /\ \A k \in 0 .. (n - 1) : line[k] \in DOMAIN tpls
<1>1. ParentIds(tpls, t) = IF depth = InheritLimit THEN <<>> ELSE [i \in 1 .. depth |-> line[depth - i]]
  BY DEF ParentIds, Climb
<1> HIDE DEF depth
<1>2. line[0] = t
  <2>1. Climb(tpls, t, InheritLimit, up)
    BY ClimbTo
  <2> HIDE DEF up
  <2>2. 0 \in 0 .. InheritLimit
    OBVIOUS
  <2> QED
    BY <2>1, <2>2 DEF Climb
<1> HIDE DEF line
<1>3. \E d \in 0 .. InheritLimit : /\ d = InheritLimit \/ line[d] \notin DOMAIN tpls
                                   /\ \A k \in 0 .. d - 1 : line[k] \in DOMAIN tpls
  <2>1. PICK T : T = {d \in 0 .. InheritLimit : d = InheritLimit \/ line[d] \notin DOMAIN tpls}
    OBVIOUS
  <2>2. T \subseteq Nat /\ InheritLimit \in T
    BY <2>1
  <2>3. PICK d \in T : \A y \in T : d <= y
    BY <2>2, LeastStamp
  <2>4. ASSUME NEW k \in 0 .. d - 1 PROVE line[k] \in DOMAIN tpls
    <3>1. k \in 0 .. InheritLimit /\ ~(d <= k)
      BY <2>1, <2>2
    <3> QED
      BY <2>1, <2>3, <3>1
  <2> QED
    BY <2>1, <2>4
<1>4. depth \in 0 .. InheritLimit /\ \A k \in 0 .. (depth - 1) : line[k] \in DOMAIN tpls
  BY <1>3 DEF depth
<1>5. CASE depth = InheritLimit
  BY <1>1, <1>5, EmptySeq
<1>6. CASE depth # InheritLimit
  <2>1. PICK c : c = [i \in 1 .. depth |-> line[depth - i]]
    OBVIOUS
  <2>2. depth \in Nat /\ \A i \in 1 .. depth : depth - i \in 0 .. depth - 1
    BY <1>4
  <2>3. c \in [1 .. depth -> DOMAIN tpls]
    BY <1>4, <2>1, <2>2
  <2>4. c \in Seq(DOMAIN tpls)
    BY <2>2, <2>3, SeqDef
  <2>5. Len(c) = depth
    BY <2>2, <2>3, <2>4, LenProperties
  <2>6. c # <<>> => Len(c) \in DOMAIN c /\ c[Len(c)] = t
    <3>1. SUFFICES ASSUME c # <<>> PROVE Len(c) \in DOMAIN c /\ c[Len(c)] = t
      OBVIOUS
    <3>2. depth \in 1 .. depth /\ depth - depth = 0 /\ 0 \in 0 .. InheritLimit
      BY <2>2, <2>4, <2>5, <3>1, EmptySeq
    <3>3. c[depth] = line[0] /\ line[0] = t
      BY <1>2, <2>1, <3>2
    <3> QED
      BY <2>3, <2>5, <3>2, <3>3
  <2> QED
    BY <1>1, <1>6, <2>1, <2>4, <2>6
<1> QED
  BY <1>4, <1>5, <1>6

\* The rows of a table are about groups and templates.
Bindings(d) == d.grpTpl \subseteq HbsGrps \X HbsTpls

\* The join has every bound template, and none twice but for two groups.
LEMMA JoinFacts ==
    ASSUME NEW d, Bindings(d), NEW tids \in QueryHostTemplateIds(d)
    PROVE  /\ DOMAIN tids \subseteq Nat
           /\ {tids[i] : i \in DOMAIN tids} = Bound(d)
           /\ ~Twice(d) => \A i, j \in DOMAIN tids : tids[i] = tids[j] => i = j
<1>1. PICK pairs : pairs = {p \in d.grpTpl : p[1] \in d.grps}
  OBVIOUS
<1>2. IsFiniteSet(pairs) /\ pairs \subseteq HbsGrps \X HbsTpls
  <2>1. PICK P : P = HbsGrps \X HbsTpls
    OBVIOUS
  <2>2. IsFiniteSet(P)
    BY <2>1, FS_Product, HbsAssumption
  <2>3. pairs \in SUBSET P
    BY <1>1, <2>1 DEF Bindings
  <2> QED
    BY <2>1, <2>2, <2>3, FS_Subset
<1>3. PICK n \in Nat : n = Cardinality(pairs)
  BY <1>2, FS_CardinalityType
<1>4. PICK s : /\ s \in [1 .. n -> pairs] /\ \A i, j \in 1 .. n : i # j => s[i] # s[j]
               /\ tids = [i \in 1 .. n |-> s[i][2]]
  BY <1>1, <1>3 DEF QueryHostTemplateIds, SetToSeqs
<1>5. \A p \in pairs : \E i \in 1 .. n : s[i] = p
  <2>1. PICK D : D = 1 .. n
    OBVIOUS
  <2>2. s \in Injection(D, pairs)
    BY <1>4, <2>1 DEF Injection, IsInjective
  <2>3. IsFiniteSet(D) /\ Cardinality(D) = n
    BY <2>1, FS_Interval
  <2>4. s \in Surjection(D, pairs)
    BY <1>2, <1>3, <2>2, <2>3, FS_Injection
  <2> QED
    BY <2>1, <2>4 DEF Surjection
<1>6. DOMAIN tids = 1 .. n /\ \A i \in 1 .. n : s[i] \in pairs /\ tids[i] = s[i][2]
  BY <1>4
<1>7. {tids[i] : i \in DOMAIN tids} = Bound(d)
  BY <1>1, <1>5, <1>6 DEF Bound
<1>8. ASSUME ~Twice(d), NEW i \in 1 .. n, NEW j \in 1 .. n, tids[i] = tids[j], i # j PROVE FALSE
  <2>0. \A p \in HbsGrps \X HbsTpls : p = <<p[1], p[2]>> /\ p[2] \in HbsTpls
    OBVIOUS
  <2>1. PICK x, y : x \in pairs /\ y \in pairs /\ x = s[i] /\ y = s[j] /\ x # y /\ x[2] = y[2]
    BY <1>4, <1>6, <1>8
  <2>2. /\ x \in d.grpTpl /\ x[1] \in d.grps /\ x = <<x[1], x[2]>> /\ x[2] \in HbsTpls
        /\ y \in d.grpTpl /\ y[1] \in d.grps /\ y = <<y[1], y[2]>>
    BY <1>1, <1>2, <2>0, <2>1
  <2>3. PICK g, h, t : g = x[1] /\ h = y[1] /\ t = x[2]
    OBVIOUS
  <2>4. g # h /\ x = <<g, t>> /\ y = <<h, t>>
    BY <2>1, <2>2, <2>3
  <2>5. g \in d.grps /\ h \in d.grps /\ t \in HbsTpls /\ {<<g, t>>, <<h, t>>} \subseteq d.grpTpl
    BY <2>2, <2>3, <2>4
  <2> QED
    BY <1>8, <2>4, <2>5 DEF Twice
<1> QED
  BY <1>6, <1>7, <1>8

\* What a chain contributes to the meaning of the database.
OfChain(c, ss) == {x \in ss : \E i \in DOMAIN c : c[i] = x.tpl /\ ~Replaced(c, i, x.uuid, ss)}

\* The loop over a chain finds just that, whichever other strategies are there.
LEMMA BucketMeans ==
    ASSUME NEW tpls, NEW c \in Seq(DOMAIN tpls), NEW all, NEW ss, ss = {s \in all : s.tpl \in DOMAIN tpls}
    PROVE  OfBucket(c, ss) = {s.id : s \in OfChain(c, all)}
<1>1. Len(c) \in Nat /\ DOMAIN c = 1 .. Len(c) /\ \A i \in DOMAIN c : c[i] \in DOMAIN tpls
  BY LenProperties, ElementOfSeq
<1>2. ASSUME NEW x, NEW i \in DOMAIN c PROVE Overrides(c, ss, x, i) <=> ~Replaced(c, i, x.uuid, all)
  <2>1. \A j \in Nat : j \in (i + 1) .. Len(c) <=> j \in DOMAIN c /\ j > i
    BY <1>1
  <2>2. \A j \in (i + 1) .. Len(c) : j \in Nat
    BY <1>1
  <2>3. \A j \in DOMAIN c : j \in Nat
    BY <1>1
  <2>4. \A j \in DOMAIN c : \A o \in all : o.tpl = c[j] => o \in ss
    BY <1>1
  <2>5. \A o \in ss : o \in all
    OBVIOUS
  <2> QED
    BY <2>1, <2>2, <2>3, <2>4, <2>5 DEF Overrides, Replaced
<1>3. ASSUME NEW x PROVE (x \in ss /\ \E i \in 1 .. Len(c) : c[i] = x.tpl /\ Overrides(c, ss, x, i)) <=> x \in OfChain(c, all)
  BY <1>1, <1>2 DEF OfChain
<1>4. {x \in ss : \E i \in 1 .. Len(c) : c[i] = x.tpl /\ Overrides(c, ss, x, i)} = OfChain(c, all)
  BY <1>3
<1> QED
  BY <1>4 DEF OfBucket

\* The chains searched are those the bound templates have, each at some place.
LEMMA BucketsAreChains ==
    ASSUME NEW d, Bindings(d), NEW tids \in QueryHostTemplateIds(d)
    PROVE  LET b == Buckets(d.tpls, tids) IN
           /\ DOMAIN b = DOMAIN tids
           /\ \A c : c \in Chains(d) <=> \E i \in DOMAIN b : b[i] # <<>> /\ b[i] = c
           /\ \A i \in DOMAIN b : b[i] \in Seq(DOMAIN d.tpls)
           /\ ~Twice(d) => \A i, j \in DOMAIN b : b[i] = b[j] /\ b[i] # <<>> => i = j
<1> DEFINE b == Buckets(d.tpls, tids)
<1>1. DOMAIN b = DOMAIN tids /\ \A i \in DOMAIN b : b[i] = ParentIds(d.tpls, tids[i])
  BY DEF Buckets
<1> HIDE DEF b
<1>2. {tids[i] : i \in DOMAIN tids} = Bound(d)
  BY JoinFacts
<1>3. \A c : c \in Chains(d) <=> \E i \in DOMAIN b : b[i] # <<>> /\ b[i] = c
  BY <1>1, <1>2 DEF Chains
<1>4. \A i \in DOMAIN b : b[i] \in Seq(DOMAIN d.tpls) /\ (b[i] # <<>> => b[i][Len(b[i])] = tids[i])
  BY <1>1, ChainFacts
<1>5. ASSUME ~Twice(d), NEW i \in DOMAIN b, NEW j \in DOMAIN b, b[i] = b[j], b[i] # <<>> PROVE i = j
  <2>1. tids[i] = tids[j]
    BY <1>4, <1>5
  <2> QED
    BY <1>1, <1>5, <2>1, JoinFacts
<1> QED
  BY <1>1, <1>3, <1>4, <1>5 DEF b

\* The search keeps a place of every maximal chain, and no other chain.
LEMMA KeepsMaximal ==
    ASSUME NEW d, Bindings(d), NEW tids \in QueryHostTemplateIds(d)
    PROVE  LET b == Buckets(d.tpls, tids) IN
           /\ \A c \in Maximal(d) : \E i \in UniqueBuckets(b) : b[i] = c
           /\ Twice(d) \/ \A i \in UniqueBuckets(b) : b[i] \in Maximal(d)
<1> DEFINE b == Buckets(d.tpls, tids)
<1>1. DOMAIN b \subseteq Nat
  BY JoinFacts, BucketsAreChains
<1>2. /\ \A c : c \in Chains(d) <=> \E i \in DOMAIN b : b[i] # <<>> /\ b[i] = c
      /\ ~Twice(d) => \A i, j \in DOMAIN b : b[i] = b[j] /\ b[i] # <<>> => i = j
  BY BucketsAreChains
<1> HIDE DEF b
<1>3. PICK some : some = {i \in DOMAIN b : b[i] # <<>>}
  OBVIOUS
<1> DEFINE over(i) == {j \in some \ {i} : Members(b[i]) \subseteq Members(b[j])}
<1>4. UniqueBuckets(b) = {i \in some : over(i) = {} \/ b[Min(over(i))] = b[i]}
  BY <1>3 DEF UniqueBuckets
<1>5. \A i \in some : over(i) # {} => Min(over(i)) \in over(i)
  <2>1. SUFFICES ASSUME NEW i \in some, over(i) # {} PROVE Min(over(i)) \in over(i)
    OBVIOUS
  <2>2. over(i) \subseteq Nat
    BY <1>1, <1>3
  <2> HIDE DEF over
  <2>3. \E x \in over(i) : \A y \in over(i) : x <= y
    BY <2>1, <2>2, LeastStamp
  <2> QED
    BY <2>3 DEF Min
<1>6. ASSUME NEW c \in Maximal(d) PROVE \E i \in UniqueBuckets(b) : b[i] = c
  <2>1. PICK i \in some : b[i] = c
    BY <1>2, <1>3 DEF Maximal
  <2>2. \A j \in over(i) : b[j] = c
    <3>1. SUFFICES ASSUME NEW j \in over(i), b[j] # c PROVE FALSE
      OBVIOUS
    <3>2. b[j] \in Chains(d) /\ Members(c) \subseteq Members(b[j])
      BY <1>2, <1>3, <2>1
    <3> QED
      BY <3>1, <3>2 DEF Maximal
  <2>3. i \in UniqueBuckets(b)
    BY <1>4, <1>5, <2>1, <2>2
  <2> QED
    BY <2>1, <2>3
<1>7. ASSUME ~Twice(d), NEW i \in UniqueBuckets(b) PROVE b[i] \in Maximal(d)
  <2>1. i \in some /\ b[i] \in Chains(d)
    BY <1>2, <1>3, <1>4
  <2>2. over(i) = {}
    <3>1. SUFFICES ASSUME over(i) # {} PROVE FALSE
      OBVIOUS
    <3>2. PICK j : j = Min(over(i)) /\ j \in over(i) /\ b[j] = b[i]
      BY <1>4, <1>5, <1>7, <2>1, <3>1
    <3>3. j # i /\ j \in DOMAIN b /\ i \in DOMAIN b /\ b[i] # <<>>
      BY <1>3, <2>1, <3>2
    <3> QED
      BY <1>2, <1>7, <3>2, <3>3
  <2>3. ASSUME NEW e \in Chains(d), e # b[i], Members(b[i]) \subseteq Members(e) PROVE FALSE
    <3>1. PICK j \in some : b[j] = e
      BY <1>2, <1>3
    <3>2. j \in over(i)
      BY <2>3, <3>1
    <3> QED
      BY <2>2, <3>2
  <2> QED
    BY <2>1, <2>3 DEF Maximal
<1> QED
  BY <1>6, <1>7 DEF b

\* The rules of this hour.
RulesNow(d) == {s \in d.strategies : InHours(d, s)}

\* What the database means, chain by chain.
LEMMA MeantByChain ==
    ASSUME NEW d, d.known, ~d.maintain, NEW x
    PROVE  x \in Meant(d) <=> \E c \in Maximal(d) : \E s \in OfChain(c, RulesNow(d)) : x = s.id
<1>0. PICK now : now = RulesNow(d)
  OBVIOUS
<1>1. {y \in now : \E c \in Maximal(d) : \E i \in DOMAIN c : c[i] = y.tpl /\ ~Replaced(c, i, y.uuid, now)}
      = UNION {OfChain(c, now) : c \in Maximal(d)}
  BY DEF OfChain
<1>2. Meant(d) = {s.id : s \in UNION {OfChain(c, now) : c \in Maximal(d)}}
  BY <1>0, <1>1 DEF Meant, InHours, RulesNow
<1> QED
  BY <1>0, <1>2

\* From tables that are current, hbs answers what the database means.
LEMMA AnswerMeans ==
    ASSUME NEW d, Bindings(d), NEW tids \in QueryHostTemplateIds(d),
           NEW ss, ss = QueryStrategies(d, d.tpls) \/ d.tpls = <<>>,
           d.known, ~d.maintain
    PROVE  /\ Meant(d) \subseteq CalcInheritStrategies(d.tpls, tids, ss)
           /\ Twice(d) \/ CalcInheritStrategies(d.tpls, tids, ss) = Meant(d)
<1>1. PICK b : b = Buckets(d.tpls, tids)
  OBVIOUS
<1>2. PICK now : now = RulesNow(d)
  OBVIOUS
<1>3. \A i \in UniqueBuckets(b) : b[i] # <<>> /\ b[i] \in Seq(DOMAIN d.tpls)
  <2>1. \A i \in UniqueBuckets(b) : i \in DOMAIN b /\ b[i] # <<>>
    BY DEF UniqueBuckets
  <2> QED
    BY <1>1, <2>1, BucketsAreChains
<1>4. \A i \in UniqueBuckets(b) : OfBucket(b[i], ss) = {s.id : s \in OfChain(b[i], now)}
  <2>1. SUFFICES ASSUME NEW i \in UniqueBuckets(b)
                 PROVE  OfBucket(b[i], ss) = {s.id : s \in OfChain(b[i], now)}
    OBVIOUS
  <2>2. PICK c : c = b[i]
    OBVIOUS
  <2>3. c \in Seq(DOMAIN d.tpls) /\ c # <<>>
    BY <1>3, <2>2
  <2>4. d.tpls # <<>>
    <3>1. Len(c) \in Nat \ {0} /\ c[1] \in DOMAIN d.tpls
      BY <2>3, EmptySeq, ElementOfSeq
    <3> QED
      BY <3>1
  <2>5. ss = {s \in now : s.tpl \in DOMAIN d.tpls}
    BY <1>2, <2>4 DEF QueryStrategies, RulesNow
  <2> QED
    BY <2>2, <2>3, <2>5, BucketMeans
<1>5. CalcInheritStrategies(d.tpls, tids, ss) = UNION {OfBucket(b[i], ss) : i \in UniqueBuckets(b)}
  BY <1>1 DEF CalcInheritStrategies
<1>6. ASSUME NEW x
      PROVE  x \in CalcInheritStrategies(d.tpls, tids, ss)
               <=> \E i \in UniqueBuckets(b) : \E s \in OfChain(b[i], now) : x = s.id
  BY <1>4, <1>5
<1>7. /\ \A c \in Maximal(d) : \E i \in UniqueBuckets(b) : b[i] = c
      /\ Twice(d) \/ \A i \in UniqueBuckets(b) : b[i] \in Maximal(d)
  BY <1>1, KeepsMaximal
<1>8. \A x : x \in Meant(d) <=> \E c \in Maximal(d) : \E s \in OfChain(c, now) : x = s.id
  BY <1>2, MeantByChain
<1>9. \A x \in Meant(d) : x \in CalcInheritStrategies(d.tpls, tids, ss)
  BY <1>6, <1>7, <1>8
<1>10. Twice(d) \/ \A x \in CalcInheritStrategies(d.tpls, tids, ss) : x \in Meant(d)
  BY <1>6, <1>7, <1>8
<1> QED
  BY <1>9, <1>10

----------------------------------------------------------------------------
(* The order of the loads.                                                 *)

\* Which tables there are.
LEMMA TableFacts ==
    /\ Len(Tables) = 9 /\ Current = 10
    /\ Tables[1] = "plugins" /\ Tables[2] = "groupTemplates" /\ Tables[3] = "hostGroups"
    /\ Tables[4] = "hosts" /\ Tables[5] = "templates" /\ Tables[6] = "strategies"
    /\ Tables[7] = "hostTemplateIds" /\ Tables[8] = "expressions" /\ Tables[9] = "monitored"
BY DEF Tables, Current

TableNames == {"plugins", "groupTemplates", "hostGroups", "hosts", "templates", "strategies",
               "hostTemplateIds", "expressions", "monitored"}

\* How many loads ago table k was loaded, when table l is next.
LoadsAgo(k, l) == IF k < l THEN l - k ELSE l + 9 - k

\* The table was loaded since the database came to rest.
Fresh(k) == LoadsAgo(k, loading) <= since

DbFields == {"tpls", "strategies", "grpTpl", "grps", "plugins", "known", "maintain", "night", "expressions"}

\* What fresh tables are; the strategies go by the templates loaded before them.
FreshTables ==
    /\ Fresh(1) => cache["plugins"] = QueryPlugins(db)
    /\ Fresh(2) => cache["groupTemplates"] = QueryGroupTemplates(db)
    /\ Fresh(3) => cache["hostGroups"] = QueryHostGroups(db)
    /\ Fresh(4) => cache["hosts"] = QueryHosts(db)
    /\ Fresh(5) => cache["templates"] = QueryTemplates(db)
    /\ LoadsAgo(6, loading) < since =>
          cache["strategies"] = QueryStrategies(db, db.tpls) \/ db.tpls = <<>>
    /\ Fresh(7) => cache["hostTemplateIds"] \in QueryHostTemplateIds(db)
    /\ Fresh(8) => cache["expressions"] = QueryExpressions(db)
    /\ Fresh(9) => cache["monitored"] = QueryMonitoredHosts(db)

LoadOrder == loading \in 1 .. 9 /\ since \in 0 .. 10 /\ DOMAIN cache = TableNames

\* A map of the judge replaced since then holds what the database means.
JudgeTold ==
    /\ told # {} => since = 10
    /\ "strategies" \in told =>
         Meant(db) \subseteq judge.strategies /\ (Twice(db) \/ judge.strategies = Meant(db))
    /\ "expressions" \in told => judge.expressions = QueryExpressions(db)

HbsInv ==
    /\ LoadOrder /\ FreshTables /\ JudgeTold
    /\ DOMAIN db = DbFields /\ Bindings(db)
    /\ DOMAIN judge = {"strategies", "expressions"}

\* No table is loaded twice in a round.
LEMMA TablesDiffer == \A i, j \in 1 .. 9 : Tables[i] = Tables[j] => i = j
<1>1. \A i \in 1 .. 9 : i = 1 \/ i = 2 \/ i = 3 \/ i = 4 \/ i = 5 \/ i = 6 \/ i = 7 \/ i = 8 \/ i = 9
  OBVIOUS
<1> QED
  BY <1>1, TableFacts

\* When the count is full every table is fresh.
LEMMA AllFresh ==
    ASSUME LoadOrder, since = 10, NEW k \in 1 .. 9
    PROVE  Fresh(k) /\ LoadsAgo(k, loading) < since
BY DEF LoadOrder, Fresh, LoadsAgo

\* A load makes its own table one load old and the others a load older.
LEMMA LoadMoves ==
    ASSUME LoadOrder, NEW k \in 1 .. 9, NEW t \in TableNames, Tables[k] = t, NEW rowsRead, Load(t, rowsRead)
    PROVE  /\ LoadOrder'
           /\ \A u \in TableNames : u # t => cache'[u] = cache[u]
           /\ \A j \in 1 .. 9 : j # k /\ Fresh(j)' => Fresh(j)
           /\ \A j \in 1 .. 9 : j # k /\ LoadsAgo(j, loading') < since' => LoadsAgo(j, loading) < since
           /\ Fresh(k)' => cache'[t] \in rowsRead \/ (cache'[t] = cache[t] /\ since = 10)
           /\ 1 < since' => 1 <= since
           /\ LoadsAgo(k, loading') = 1 /\ loading = k
           /\ since = 10 => since' = 10
<1>1. loading = k /\ loading' = (loading % 9) + 1
  BY TableFacts, TablesDiffer DEF Load, LoadOrder
<1>2. /\ loading' \in 1 .. 9 /\ loading' = (IF k = 9 THEN 1 ELSE k + 1)
  BY <1>1
<1>3. ASSUME NEW n \in 0 .. 10 PROVE Min({n + 1, 10}) = IF n = 10 THEN 10 ELSE n + 1
  <2>1. PICK m : m = (IF n = 10 THEN 10 ELSE n + 1)
    OBVIOUS
  <2>2. m \in {n + 1, 10} /\ \A y \in {n + 1, 10} : m =< y
    BY <2>1
  <2>3. \A x \in {n + 1, 10} : (\A y \in {n + 1, 10} : x =< y) => x = m
    BY <2>1
  <2> QED
    BY <2>1, <2>2, <2>3 DEF Min
<1>4. \/ /\ \E rows \in rowsRead : cache' = [cache EXCEPT ![t] = rows]
         /\ since' = IF since = 10 THEN 10 ELSE since + 1
      \/ /\ cache' = cache
         /\ since' = IF since = 10 THEN 10 ELSE 0
  BY <1>3, TableFacts DEF Load, LoadOrder
<1>5. since' \in 0 .. 10
  BY <1>4 DEF LoadOrder
<1>6. DOMAIN cache' = TableNames /\ \A u \in TableNames : u # t => cache'[u] = cache[u]
  BY <1>4 DEF LoadOrder
<1>7. cache'[t] \in rowsRead \/ (cache' = cache /\ (since = 10 \/ since' = 0))
  BY <1>4 DEF LoadOrder
<1>8. LoadsAgo(k, loading') = 1
  BY <1>2 DEF LoadsAgo
<1>9. ASSUME NEW j \in 1 .. 9 
      PROVE  /\ LoadsAgo(j, loading) \in 1 .. 9 /\ LoadsAgo(j, loading') \in 1 .. 9
             /\ j # k => LoadsAgo(j, loading') = LoadsAgo(j, loading) + 1
  BY <1>1, <1>2 DEF LoadsAgo, LoadOrder
<1>10. ASSUME NEW j \in 1 .. 9, j # k
       PROVE  /\ Fresh(j)' => Fresh(j)
              /\ LoadsAgo(j, loading') < since' => LoadsAgo(j, loading) < since
  BY <1>4, <1>9, <1>10 DEF Fresh, LoadOrder
<1>11. Fresh(k)' => cache'[t] \in rowsRead \/ (cache'[t] = cache[t] /\ since = 10)
  BY <1>5, <1>7, <1>8 DEF Fresh
<1>12. (1 < since' => 1 <= since) /\ (since = 10 => since' = 10)
  BY <1>4 DEF LoadOrder
<1> QED
  BY <1>1, <1>2, <1>5, <1>6, <1>8, <1>10, <1>11, <1>12 DEF LoadOrder

\* A load by itself keeps the rest of the invariant.
LEMMA LoadKeeps ==
    ASSUME HbsInv, NEW k \in 1 .. 9, NEW t \in TableNames, Tables[k] = t, NEW rowsRead, Load(t, rowsRead), FreshTables'
    PROVE  HbsInv'
<1>1. LoadOrder' /\ (since = 10 => since' = 10)
  BY LoadMoves DEF HbsInv
<1>2. UNCHANGED <<db, judge, told>>
  BY DEF Load
<1>3. JudgeTold'
  BY <1>1, <1>2 DEF HbsInv, JudgeTold
<1> QED
  BY <1>1, <1>2, <1>3 DEF HbsInv, Bindings

\* Each load of LoopInit leaves the fresh tables as the database has them.
LEMMA LoopInitStep == HbsInv /\ LoopInit => HbsInv'
<1> SUFFICES ASSUME HbsInv, LoopInit PROVE HbsInv'
  OBVIOUS
<1>0. LoadOrder /\ FreshTables
  BY DEF HbsInv
<1>1. CASE GroupPluginsInit
  <2>1. PICK t, rowsRead : t = "plugins" /\ rowsRead = {QueryPlugins(db)}
    OBVIOUS
  <2>2. t \in TableNames /\ Tables[1] = t /\ Load(t, rowsRead)
    BY <1>1, <2>1, TableFacts DEF GroupPluginsInit, TableNames
  <2>3. /\ \A u \in TableNames : u # t => cache'[u] = cache[u]
        /\ \A j \in 1 .. 9 : j # 1 /\ Fresh(j)' => Fresh(j)
        /\ \A j \in 1 .. 9 : j # 1 /\ LoadsAgo(j, loading') < since' => LoadsAgo(j, loading) < since
        /\ Fresh(1)' => cache'[t] \in rowsRead \/ (cache'[t] = cache[t] /\ since = 10)
    BY <1>0, <2>2, LoadMoves
  <2>4. since = 10 => Fresh(1)
    BY <1>0, AllFresh
  <2>5. db' = db
    BY <2>2 DEF Load
  <2>6. FreshTables'
    BY <1>0, <2>1, <2>3, <2>4, <2>5 DEF FreshTables, TableNames
  <2> QED
    BY <2>2, <2>6, LoadKeeps
<1>2. CASE GroupTemplatesInit
  <2>1. PICK t, rowsRead : t = "groupTemplates" /\ rowsRead = {QueryGroupTemplates(db)}
    OBVIOUS
  <2>2. t \in TableNames /\ Tables[2] = t /\ Load(t, rowsRead)
    BY <1>2, <2>1, TableFacts DEF GroupTemplatesInit, TableNames
  <2>3. /\ \A u \in TableNames : u # t => cache'[u] = cache[u]
        /\ \A j \in 1 .. 9 : j # 2 /\ Fresh(j)' => Fresh(j)
        /\ \A j \in 1 .. 9 : j # 2 /\ LoadsAgo(j, loading') < since' => LoadsAgo(j, loading) < since
        /\ Fresh(2)' => cache'[t] \in rowsRead \/ (cache'[t] = cache[t] /\ since = 10)
    BY <1>0, <2>2, LoadMoves
  <2>4. since = 10 => Fresh(2)
    BY <1>0, AllFresh
  <2>5. db' = db
    BY <2>2 DEF Load
  <2>6. FreshTables'
    BY <1>0, <2>1, <2>3, <2>4, <2>5 DEF FreshTables, TableNames
  <2> QED
    BY <2>2, <2>6, LoadKeeps
<1>3. CASE HostGroupsMapInit
  <2>1. PICK t, rowsRead : t = "hostGroups" /\ rowsRead = {QueryHostGroups(db)}
    OBVIOUS
  <2>2. t \in TableNames /\ Tables[3] = t /\ Load(t, rowsRead)
    BY <1>3, <2>1, TableFacts DEF HostGroupsMapInit, TableNames
  <2>3. /\ \A u \in TableNames : u # t => cache'[u] = cache[u]
        /\ \A j \in 1 .. 9 : j # 3 /\ Fresh(j)' => Fresh(j)
        /\ \A j \in 1 .. 9 : j # 3 /\ LoadsAgo(j, loading') < since' => LoadsAgo(j, loading) < since
        /\ Fresh(3)' => cache'[t] \in rowsRead \/ (cache'[t] = cache[t] /\ since = 10)
    BY <1>0, <2>2, LoadMoves
  <2>4. since = 10 => Fresh(3)
    BY <1>0, AllFresh
  <2>5. db' = db
    BY <2>2 DEF Load
  <2>6. FreshTables'
    BY <1>0, <2>1, <2>3, <2>4, <2>5 DEF FreshTables, TableNames
  <2> QED
    BY <2>2, <2>6, LoadKeeps
<1>4. CASE HostMapInit
  <2>1. PICK t, rowsRead : t = "hosts" /\ rowsRead = {QueryHosts(db)}
    OBVIOUS
  <2>2. t \in TableNames /\ Tables[4] = t /\ Load(t, rowsRead)
    BY <1>4, <2>1, TableFacts DEF HostMapInit, TableNames
  <2>3. /\ \A u \in TableNames : u # t => cache'[u] = cache[u]
        /\ \A j \in 1 .. 9 : j # 4 /\ Fresh(j)' => Fresh(j)
        /\ \A j \in 1 .. 9 : j # 4 /\ LoadsAgo(j, loading') < since' => LoadsAgo(j, loading) < since
        /\ Fresh(4)' => cache'[t] \in rowsRead \/ (cache'[t] = cache[t] /\ since = 10)
    BY <1>0, <2>2, LoadMoves
  <2>4. since = 10 => Fresh(4)
    BY <1>0, AllFresh
  <2>5. db' = db
    BY <2>2 DEF Load
  <2>6. FreshTables'
    BY <1>0, <2>1, <2>3, <2>4, <2>5 DEF FreshTables, TableNames
  <2> QED
    BY <2>2, <2>6, LoadKeeps
<1>5. CASE TemplateCacheInit
  <2>1. PICK t, rowsRead : t = "templates" /\ rowsRead = {QueryTemplates(db)}
    OBVIOUS
  <2>2. t \in TableNames /\ Tables[5] = t /\ Load(t, rowsRead)
    BY <1>5, <2>1, TableFacts DEF TemplateCacheInit, TableNames
  <2>3. /\ \A u \in TableNames : u # t => cache'[u] = cache[u]
        /\ \A j \in 1 .. 9 : j # 5 /\ Fresh(j)' => Fresh(j)
        /\ \A j \in 1 .. 9 : j # 5 /\ LoadsAgo(j, loading') < since' => LoadsAgo(j, loading) < since
        /\ Fresh(5)' => cache'[t] \in rowsRead \/ (cache'[t] = cache[t] /\ since = 10)
    BY <1>0, <2>2, LoadMoves
  <2>4. since = 10 => Fresh(5)
    BY <1>0, AllFresh
  <2>5. db' = db
    BY <2>2 DEF Load
  <2>6. FreshTables'
    BY <1>0, <2>1, <2>3, <2>4, <2>5 DEF FreshTables, TableNames
  <2> QED
    BY <2>2, <2>6, LoadKeeps
<1>6. CASE StrategiesInit
  <2>1. PICK t, rowsRead : /\ t = "strategies"
                          /\ rowsRead = IF cache["templates"] = <<>> THEN {cache["strategies"]}
                                       ELSE {QueryStrategies(db, cache["templates"])}
    OBVIOUS
  <2>2. t \in TableNames /\ Tables[6] = t /\ Load(t, rowsRead)
    BY <1>6, <2>1, TableFacts DEF StrategiesInit, TableNames
  <2>3. /\ \A u \in TableNames : u # t => cache'[u] = cache[u]
        /\ \A j \in 1 .. 9 : j # 6 /\ Fresh(j)' => Fresh(j)
        /\ Fresh(6)' => cache'[t] \in rowsRead \/ (cache'[t] = cache[t] /\ since = 10)
        /\ LoadOrder' /\ LoadsAgo(6, loading') = 1 /\ loading = 6 /\ (1 < since' => 1 <= since)
    BY <1>0, <2>2, LoadMoves
  <2>4. since = 10 => LoadsAgo(6, loading) < since
    BY <1>0, AllFresh
  <2>5. db' = db
    BY <2>2 DEF Load
  <2>6. ASSUME LoadsAgo(6, loading') < since'
        PROVE  cache'["strategies"] = QueryStrategies(db, db.tpls) \/ db.tpls = <<>>
    <3>1. Fresh(6)' /\ 1 <= since
      BY <2>3, <2>6 DEF Fresh, LoadOrder
    <3>2. Fresh(5)
      BY <2>3, <3>1 DEF Fresh, LoadsAgo
    <3>3. cache["templates"] = db.tpls
      BY <1>0, <3>2 DEF FreshTables, QueryTemplates
    <3>4. CASE cache'[t] \in rowsRead
      BY <2>1, <3>3, <3>4
    <3>5. CASE cache'[t] = cache[t] /\ since = 10
      BY <1>0, <2>1, <2>4, <3>5 DEF FreshTables
    <3> QED
      BY <2>3, <3>1, <3>4, <3>5
  <2>7. FreshTables'
    BY <1>0, <2>1, <2>3, <2>5, <2>6 DEF FreshTables, TableNames
  <2> QED
    BY <2>2, <2>7, LoadKeeps
<1>7. CASE HostTemplateIdsInit
  <2>1. PICK t, rowsRead : t = "hostTemplateIds" /\ rowsRead = QueryHostTemplateIds(db)
    OBVIOUS
  <2>2. t \in TableNames /\ Tables[7] = t /\ Load(t, rowsRead)
    BY <1>7, <2>1, TableFacts DEF HostTemplateIdsInit, TableNames
  <2>3. /\ \A u \in TableNames : u # t => cache'[u] = cache[u]
        /\ \A j \in 1 .. 9 : j # 7 /\ Fresh(j)' => Fresh(j)
        /\ \A j \in 1 .. 9 : j # 7 /\ LoadsAgo(j, loading') < since' => LoadsAgo(j, loading) < since
        /\ Fresh(7)' => cache'[t] \in rowsRead \/ (cache'[t] = cache[t] /\ since = 10)
    BY <1>0, <2>2, LoadMoves
  <2>4. since = 10 => Fresh(7)
    BY <1>0, AllFresh
  <2>5. db' = db
    BY <2>2 DEF Load
  <2>6. FreshTables'
    BY <1>0, <2>1, <2>3, <2>4, <2>5 DEF FreshTables, TableNames
  <2> QED
    BY <2>2, <2>6, LoadKeeps
<1>8. CASE ExpressionCacheInit
  <2>1. PICK t, rowsRead : t = "expressions" /\ rowsRead = {QueryExpressions(db)}
    OBVIOUS
  <2>2. t \in TableNames /\ Tables[8] = t /\ Load(t, rowsRead)
    BY <1>8, <2>1, TableFacts DEF ExpressionCacheInit, TableNames
  <2>3. /\ \A u \in TableNames : u # t => cache'[u] = cache[u]
        /\ \A j \in 1 .. 9 : j # 8 /\ Fresh(j)' => Fresh(j)
        /\ \A j \in 1 .. 9 : j # 8 /\ LoadsAgo(j, loading') < since' => LoadsAgo(j, loading) < since
        /\ Fresh(8)' => cache'[t] \in rowsRead \/ (cache'[t] = cache[t] /\ since = 10)
    BY <1>0, <2>2, LoadMoves
  <2>4. since = 10 => Fresh(8)
    BY <1>0, AllFresh
  <2>5. db' = db
    BY <2>2 DEF Load
  <2>6. FreshTables'
    BY <1>0, <2>1, <2>3, <2>4, <2>5 DEF FreshTables, TableNames
  <2> QED
    BY <2>2, <2>6, LoadKeeps
<1>9. CASE MonitoredHostsInit
  <2>1. PICK t, rowsRead : t = "monitored" /\ rowsRead = {QueryMonitoredHosts(db)}
    OBVIOUS
  <2>2. t \in TableNames /\ Tables[9] = t /\ Load(t, rowsRead)
    BY <1>9, <2>1, TableFacts DEF MonitoredHostsInit, TableNames
  <2>3. /\ \A u \in TableNames : u # t => cache'[u] = cache[u]
        /\ \A j \in 1 .. 9 : j # 9 /\ Fresh(j)' => Fresh(j)
        /\ \A j \in 1 .. 9 : j # 9 /\ LoadsAgo(j, loading') < since' => LoadsAgo(j, loading) < since
        /\ Fresh(9)' => cache'[t] \in rowsRead \/ (cache'[t] = cache[t] /\ since = 10)
    BY <1>0, <2>2, LoadMoves
  <2>4. since = 10 => Fresh(9)
    BY <1>0, AllFresh
  <2>5. db' = db
    BY <2>2 DEF Load
  <2>6. FreshTables'
    BY <1>0, <2>1, <2>3, <2>4, <2>5 DEF FreshTables, TableNames
  <2> QED
    BY <2>2, <2>6, LoadKeeps
<1> QED
  BY <1>1, <1>2, <1>3, <1>4, <1>5, <1>6, <1>7, <1>8, <1>9 DEF LoopInit

\* With every table fresh, hbs has what it needs.
LEMMA AllTablesFresh ==
    ASSUME HbsInv, since = 10
    PROVE  /\ cache["plugins"] = db.plugins /\ cache["groupTemplates"] = db.grpTpl
           /\ cache["hostGroups"] = db.grps /\ cache["hosts"] = db.known /\ cache["templates"] = db.tpls
           /\ cache["strategies"] = QueryStrategies(db, db.tpls) \/ db.tpls = <<>>
           /\ cache["hostTemplateIds"] \in QueryHostTemplateIds(db)
           /\ cache["expressions"] = QueryExpressions(db) /\ cache["monitored"] = QueryMonitoredHosts(db)
<1>1. /\ Fresh(1) /\ Fresh(2) /\ Fresh(3) /\ Fresh(4) /\ Fresh(5) /\ Fresh(7) /\ Fresh(8) /\ Fresh(9)
      /\ LoadsAgo(6, loading) < since
  BY AllFresh DEF HbsInv
<1> QED
  BY <1>1 DEF HbsInv, FreshTables, QueryPlugins, QueryGroupTemplates, QueryHostGroups, QueryHosts, QueryTemplates

\* The answer to a judge, then.
LEMMA StrategiesMean ==
    ASSUME HbsInv, since = 10
    PROVE  Meant(db) \subseteq GetStrategies /\ (Twice(db) \/ GetStrategies = Meant(db))
<1>1. /\ cache["templates"] = db.tpls
      /\ cache["strategies"] = QueryStrategies(db, db.tpls) \/ db.tpls = <<>>
      /\ cache["hostTemplateIds"] \in QueryHostTemplateIds(db)
      /\ cache["monitored"] = QueryMonitoredHosts(db)
  BY AllTablesFresh
<1>2. CASE db.known /\ ~db.maintain
  <2>1. PICK ss, tids : ss = cache["strategies"] /\ tids = cache["hostTemplateIds"]
    OBVIOUS
  <2>2. GetStrategies = CalcInheritStrategies(db.tpls, tids, ss)
    BY <1>1, <1>2, <2>1 DEF GetStrategies, QueryMonitoredHosts
  <2>3. PICK d : d = db
    OBVIOUS
  <2>4. Bindings(d) /\ tids \in QueryHostTemplateIds(d) /\ (ss = QueryStrategies(d, d.tpls) \/ d.tpls = <<>>)
    BY <1>1, <2>1, <2>3 DEF HbsInv
  <2>5. /\ Meant(d) \subseteq CalcInheritStrategies(d.tpls, tids, ss)
        /\ Twice(d) \/ CalcInheritStrategies(d.tpls, tids, ss) = Meant(d)
    BY <1>2, <2>3, <2>4, AnswerMeans
  <2> QED
    BY <2>2, <2>3, <2>5
<1>3. CASE ~(db.known /\ ~db.maintain)
  BY <1>1, <1>3 DEF GetStrategies, QueryMonitoredHosts, Meant
<1> QED
  BY <1>2, <1>3

\* A judge that asks with every table fresh gets what the database means.
LEMMA SyncStrategiesStep == HbsInv /\ syncStrategies => HbsInv'
<1> SUFFICES ASSUME HbsInv, syncStrategies PROVE HbsInv'
  OBVIOUS
<1>1. UNCHANGED <<db, cache, loading, since>>
  BY DEF syncStrategies
<1>2. /\ judge'.strategies = GetStrategies /\ judge'.expressions = judge.expressions
      /\ DOMAIN judge' = {"strategies", "expressions"}
  BY DEF syncStrategies, HbsInv
<1>3. told' = IF since = 10 THEN told \cup {"strategies"} ELSE {}
  BY TableFacts DEF syncStrategies
<1>4. LoadOrder' /\ FreshTables'
  BY <1>1 DEF HbsInv, LoadOrder, FreshTables, Fresh
<1>5. JudgeTold'
  <2>1. CASE since = 10
    <3>1. Meant(db) \subseteq GetStrategies /\ (Twice(db) \/ GetStrategies = Meant(db))
      BY <2>1, StrategiesMean
    <3> QED
      BY <1>1, <1>2, <1>3, <2>1, <3>1 DEF HbsInv, JudgeTold
  <2>2. CASE since # 10
    BY <1>3, <2>2 DEF JudgeTold
  <2> QED
    BY <2>1, <2>2
<1> QED
  BY <1>1, <1>2, <1>4, <1>5 DEF HbsInv, Bindings

\* The same for the expressions.
LEMMA SyncExpressionStep == HbsInv /\ syncExpression => HbsInv'
<1> SUFFICES ASSUME HbsInv, syncExpression PROVE HbsInv'
  OBVIOUS
<1>1. UNCHANGED <<db, cache, loading, since>>
  BY DEF syncExpression
<1>2. /\ judge'.strategies = judge.strategies /\ judge'.expressions = GetExpressions
      /\ DOMAIN judge' = {"strategies", "expressions"}
  BY DEF syncExpression, HbsInv
<1>3. told' = IF since = 10 THEN told \cup {"expressions"} ELSE {}
  BY TableFacts DEF syncExpression
<1>4. LoadOrder' /\ FreshTables'
  BY <1>1 DEF HbsInv, LoadOrder, FreshTables, Fresh
<1>5. JudgeTold'
  <2>1. CASE since = 10
    <3>1. GetExpressions = QueryExpressions(db)
      BY <2>1, AllTablesFresh DEF GetExpressions
    <3> QED
      BY <1>1, <1>2, <1>3, <2>1, <3>1 DEF HbsInv, JudgeTold
  <2>2. CASE since # 10
    BY <1>3, <2>2 DEF JudgeTold
  <2> QED
    BY <2>1, <2>2
<1> QED
  BY <1>1, <1>2, <1>4, <1>5 DEF HbsInv, Bindings

\* An edit makes every table stale.
LEMMA DbEditStep == HbsInv /\ DbEdit => HbsInv'
<1> SUFFICES ASSUME HbsInv, DbEdit PROVE HbsInv'
  OBVIOUS
<1>0. DOMAIN db = DbFields /\ db.grpTpl \subseteq HbsGrps \X HbsTpls
  BY DEF HbsInv, Bindings
<1>1. since' = 0 /\ told' = {} /\ UNCHANGED <<cache, loading, judge>>
  BY DEF DbEdit
<1>2. LoadOrder'
  BY <1>1 DEF HbsInv, LoadOrder
<1>3. \A k \in 1 .. 9 : ~Fresh(k)' /\ ~(LoadsAgo(k, loading') < since')
  BY <1>1, <1>2 DEF Fresh, LoadsAgo, LoadOrder
<1>4. FreshTables'
  BY <1>3 DEF FreshTables
<1>5. JudgeTold'
  BY <1>1 DEF JudgeTold
<1>6. DOMAIN db' = DbFields /\ db'.grpTpl \subseteq HbsGrps \X HbsTpls
  <2>1. CASE \E g \in HbsGrps : db' = [db EXCEPT !.grps = Toggle(db.grps, g)]
    BY <1>0, <2>1 DEF DbFields
  <2>2. CASE \E g \in HbsGrps, t \in HbsTpls : db' = [db EXCEPT !.grpTpl = Toggle(db.grpTpl, <<g, t>>)]
    <3>1. PICK g \in HbsGrps, t \in HbsTpls : db' = [db EXCEPT !.grpTpl = Toggle(db.grpTpl, <<g, t>>)]
      BY <2>2
    <3>2. DOMAIN db' = DbFields /\ db'.grpTpl = Toggle(db.grpTpl, <<g, t>>)
      BY <1>0, <3>1 DEF DbFields
    <3>3. Toggle(db.grpTpl, <<g, t>>) \subseteq HbsGrps \X HbsTpls
      BY <1>0 DEF Toggle
    <3> QED
      BY <3>2, <3>3
  <2>3. CASE \E s \in StrategyRows : db' = [db EXCEPT !.strategies = Toggle(db.strategies, s)]
    BY <1>0, <2>3 DEF DbFields
  <2>4. CASE \E t \in DOMAIN db.tpls, p \in {0} \cup HbsTpls : db' = [db EXCEPT !.tpls[t] = p]
    BY <1>0, <2>4 DEF DbFields
  <2>5. CASE \E t \in DOMAIN db.tpls :
               db' = [db EXCEPT !.tpls = [x \in DOMAIN db.tpls \ {t} |-> db.tpls[x]],
                                !.strategies = {s \in db.strategies : s.tpl # t},
                                !.grpTpl = {b \in db.grpTpl : b[2] # t}]
    BY <1>0, <2>5 DEF DbFields
  <2>6. CASE \E g \in HbsGrps : db' = [db EXCEPT !.plugins = Toggle(db.plugins, <<g, "sys">>)]
    BY <1>0, <2>6 DEF DbFields
  <2>7. CASE \/ db' = [db EXCEPT !.maintain = ~db.maintain]
             \/ db' = [db EXCEPT !.known = ~db.known]
             \/ db' = [db EXCEPT !.night = ~db.night]
    BY <1>0, <2>7 DEF DbFields
  <2>8. CASE \E e \in Expressions : db' = [db EXCEPT !.expressions = {e}]
    BY <1>0, <2>8 DEF DbFields
  <2> QED
    BY <2>1, <2>2, <2>3, <2>4, <2>5, <2>6, <2>7, <2>8 DEF DbEdit
<1> QED
  BY <1>1, <1>2, <1>4, <1>5, <1>6 DEF HbsInv, Bindings

\* At first nothing is fresh.
LEMMA HbsInvInit == HbsInit => HbsInv
<1> SUFFICES ASSUME HbsInit PROVE HbsInv
  OBVIOUS
<1>1. loading = 1 /\ since = 0 /\ told = {}
  BY DEF HbsInit
<1>2. {Tables[i] : i \in 1 .. Len(Tables)} = TableNames
  <2>1. \A i \in 1 .. 9 : i = 1 \/ i = 2 \/ i = 3 \/ i = 4 \/ i = 5 \/ i = 6 \/ i = 7 \/ i = 8 \/ i = 9
    OBVIOUS
  <2> QED
    BY <2>1, TableFacts DEF TableNames
<1>3. DOMAIN cache = TableNames
  BY <1>2 DEF HbsInit, Empty
<1>4. LoadOrder
  BY <1>1, <1>3 DEF LoadOrder
<1>5. \A k \in 1 .. 9 : ~Fresh(k) /\ ~(LoadsAgo(k, loading) < since)
  BY <1>1, <1>4 DEF Fresh, LoadsAgo, LoadOrder
<1>6. FreshTables
  BY <1>5 DEF FreshTables
<1>7. JudgeTold
  BY <1>1 DEF JudgeTold
<1>8. DOMAIN db = DbFields /\ db.grpTpl = {Min(HbsGrps)} \X HbsTpls
  BY DEF HbsInit, DbInit, DbFields
<1>9. Min(HbsGrps) \in HbsGrps
  <2>1. HbsGrps \subseteq Nat /\ HbsGrps # {}
    BY HbsAssumption
  <2>2. \E x \in HbsGrps : \A y \in HbsGrps : x <= y
    BY <2>1, LeastStamp
  <2> QED
    BY <2>2 DEF Min
<1>10. Bindings(db)
  BY <1>8, <1>9 DEF Bindings
<1>11. DOMAIN judge = {"strategies", "expressions"}
  BY DEF HbsInit
<1> QED
  BY <1>4, <1>6, <1>7, <1>8, <1>10, <1>11 DEF HbsInv

\* The property follows from the invariant.
LEMMA HbsInvSettles == HbsInv => AnswersSettle
<1> SUFFICES ASSUME HbsInv, since = 10 PROVE AnswersSettle
  BY TableFacts DEF AnswersSettle
<1>1. /\ cache["plugins"] = db.plugins /\ cache["groupTemplates"] = db.grpTpl
      /\ cache["hostGroups"] = db.grps /\ cache["hosts"] = db.known /\ cache["templates"] = db.tpls
  BY AllTablesFresh
<1>2. GetPlugins = IF db.known THEN {p[2] : p \in {q \in db.plugins : q[1] \in db.grps}} ELSE {}
  BY <1>1 DEF GetPlugins
<1>3. GetBuiltinMetrics =
        IF ~db.known THEN {}
        ELSE {s.id : s \in {x \in db.strategies :
               x.builtin /\ (x.tpl \in Bound(db) \/ \E c \in Chains(db) : x.tpl \in Members(c))}}
  <2>1. PICK all : all = Bound(db) \cup UNION {Members(ParentIds(db.tpls, t)) : t \in Bound(db)}
    OBVIOUS
  <2>2. GetBuiltinMetrics = IF ~db.known THEN {} ELSE {s.id : s \in QueryBuiltinMetrics(db, all)}
    BY <1>1, <2>1 DEF GetBuiltinMetrics, Bound
  <2>3. ASSUME NEW y PROVE y \in all <=> y \in Bound(db) \/ \E c \in Chains(db) : y \in Members(c)
    <3>1. \A c : c = <<>> => y \notin Members(c)
      BY DEF Members
    <3> QED
      BY <2>1, <3>1 DEF Chains
  <2>4. QueryBuiltinMetrics(db, all) = {x \in db.strategies :
               x.builtin /\ (x.tpl \in Bound(db) \/ \E c \in Chains(db) : x.tpl \in Members(c))}
    BY <2>3 DEF QueryBuiltinMetrics
  <2> QED
    BY <2>2, <2>4
<1>4. told = {"strategies", "expressions"} =>
        /\ Meant(db) \subseteq judge.strategies
        /\ Twice(db) \/ judge.strategies = Meant(db)
        /\ judge.expressions = {e.id : e \in {x \in db.expressions : x.action_id > 0 /\ ~x.pause /\ x.tags >= 2}}
  BY DEF HbsInv, JudgeTold, QueryExpressions, parseExpression
<1> QED
  BY <1>2, <1>3, <1>4 DEF AnswersSettle

\* Whatever templates, groups and strategies there are, however the edits, the
\* loads of LoopInit, the failing queries and the calls interleave: a round and
\* one table after the database came to rest, agents are told what it means for
\* their host, and the next answers leave a judge with the rules it means.
THEOREM AnswersDoSettle == HbsSpec => []AnswersSettle
<1>1. HbsInit => HbsInv
  BY HbsInvInit
<1>2. HbsInv /\ [HbsNextStep]_hbsVars => HbsInv'
  <2>1. HbsInv /\ UNCHANGED hbsVars => HbsInv'
    BY DEF hbsVars, HbsInv, LoadOrder, FreshTables, JudgeTold, Fresh, Bindings
  <2> QED
    BY <2>1, LoopInitStep, SyncStrategiesStep, SyncExpressionStep, DbEditStep DEF HbsNextStep
<1>3. HbsInv => AnswersSettle
  BY HbsInvSettles
<1> QED
  BY <1>1, <1>2, <1>3, PTL DEF HbsSpec

----------------------------------------------------------------------------
USE AgentAssumption, GatewayAssumption, MigrationAssumption

----------------------------------------------------------------------------
(* The agent's plugins (modules/agent/plugins, syncMinePlugins).           *)

PluginRec == [path : Paths, mtime : Nat]
SchedulerRec == [plugin : PluginRec, quit : BOOLEAN, running : BOOLEAN, late : 0 .. 1]

\* No file twice.
OneVersion(P) == \A p, q \in P : p.path = q.path => p = q

LiveSchedulers == {s \in schedulers : ~s.quit}

PluginInv ==
    /\ disk \in [Paths -> Nat]
    /\ plugins \subseteq PluginRec /\ OneVersion(plugins)
    /\ schedulers \subseteq SchedulerRec
    /\ plugins = applied
    /\ \A s \in LiveSchedulers : s.plugin \in plugins
    /\ \A p \in plugins : \E s \in LiveSchedulers : s.plugin = p
    /\ \A s, t \in LiveSchedulers : s.plugin = t.plugin => s = t

\* The property follows from the invariant.
LEMMA PluginInvTold == PluginInv => PluginsAsTold
<1> SUFFICES ASSUME PluginInv PROVE PluginsAsTold
  OBVIOUS
<1>1. {s.plugin : s \in {x \in schedulers : ~x.quit}} = plugins
  BY DEF PluginInv, LiveSchedulers
<1>2. ASSUME NEW s \in schedulers, NEW t \in schedulers,
             ~s.quit, ~t.quit, s.plugin.path = t.plugin.path
      PROVE  s = t
  <2>1. s \in LiveSchedulers /\ t \in LiveSchedulers
    BY <1>2 DEF LiveSchedulers
  <2>2. s.plugin = t.plugin
    BY <1>2, <2>1 DEF PluginInv, OneVersion
  <2> QED
    BY <2>1, <2>2 DEF PluginInv
<1> QED
  BY <1>1, <1>2 DEF PluginInv, PluginsAsTold

\* What is listed is on disk, in one version.
LEMMA ListedOnce ==
    ASSUME disk \in [Paths -> Nat], NEW dirs, dirs \subseteq SUBSET Paths
    PROVE  LET desired == UNION {ListPlugins(d) : d \in dirs}
           IN  desired \subseteq PluginRec /\ OneVersion(desired)
<1> DEFINE desired == UNION {ListPlugins(d) : d \in dirs}
<1>1. ASSUME NEW q \in desired PROVE q \in PluginRec /\ q.mtime = disk[q.path]
  <2>1. PICK d \in dirs : q \in ListPlugins(d)
    OBVIOUS
  <2>2. PICK p \in d : q = [path |-> p, mtime |-> disk[p]]
    BY <2>1 DEF ListPlugins
  <2>3. p \in Paths
    BY <2>2
  <2> QED
    BY <2>2, <2>3 DEF PluginRec
<1>2. ASSUME NEW p \in desired, NEW q \in desired, p.path = q.path PROVE p = q
  <2>1. p \in PluginRec /\ q \in PluginRec /\ p.mtime = q.mtime
    BY <1>1, <1>2
  <2> QED
    BY <1>2, <2>1 DEF PluginRec
<1> HIDE DEF desired
<1>3. desired \subseteq PluginRec /\ OneVersion(desired)
  BY <1>1, <1>2 DEF OneVersion
<1> QED
  BY <1>3 DEF desired

\* A goroutine of a scheduler that goes on under the same plugin.
LEMMA SchedulerMoves ==
    ASSUME PluginInv, NEW s \in schedulers, NEW t \in SchedulerRec,
           t.plugin = s.plugin, t.quit = s.quit,
           schedulers' = (schedulers \ {s}) \cup {t},
           UNCHANGED <<disk, plugins, applied>>
    PROVE  PluginInv'
<1>0. /\ disk \in [Paths -> Nat] /\ plugins \subseteq PluginRec /\ OneVersion(plugins)
      /\ schedulers \subseteq SchedulerRec /\ plugins = applied
  BY DEF PluginInv
<1>1. /\ \A x \in LiveSchedulers' : (x \in LiveSchedulers /\ x # s) \/ (x = t /\ ~s.quit)
      /\ \A x \in LiveSchedulers : x # s => x \in LiveSchedulers'
      /\ ~s.quit => t \in LiveSchedulers'
  <2>1. ASSUME NEW x \in LiveSchedulers'
        PROVE  (x \in LiveSchedulers /\ x # s) \/ (x = t /\ ~s.quit)
    <3>1. x \in schedulers' /\ ~x.quit
      BY DEF LiveSchedulers
    <3>2. CASE x = t
      BY <3>1, <3>2
    <3>3. CASE x # t
      BY <3>1, <3>3 DEF LiveSchedulers
    <3> QED
      BY <3>2, <3>3
  <2>2. ASSUME NEW x \in LiveSchedulers, x # s PROVE x \in LiveSchedulers'
    BY <2>2 DEF LiveSchedulers
  <2>3. ASSUME ~s.quit PROVE t \in LiveSchedulers'
    BY <2>3 DEF LiveSchedulers
  <2> QED
    BY <2>1, <2>2, <2>3
<1>2. ~s.quit => s \in LiveSchedulers
  BY DEF LiveSchedulers
<1>3. \A x \in LiveSchedulers' : x.plugin \in plugins
  BY <1>1, <1>2 DEF PluginInv
<1>4. ASSUME NEW p \in plugins PROVE \E x \in LiveSchedulers' : x.plugin = p
  <2>1. PICK x \in LiveSchedulers : x.plugin = p
    BY DEF PluginInv
  <2>2. CASE x = s
    <3>1. ~s.quit
      BY <2>2 DEF LiveSchedulers
    <3>2. t \in LiveSchedulers'
      BY <1>1, <3>1
    <3> QED
      BY <2>1, <2>2, <3>2
  <2>3. CASE x # s
    BY <1>1, <2>1, <2>3
  <2> QED
    BY <2>2, <2>3
<1>5. \A x, y \in LiveSchedulers' : x.plugin = y.plugin => x = y
  BY <1>1, <1>2 DEF PluginInv
<1> QED
  BY <1>0, <1>3, <1>4, <1>5 DEF PluginInv

\* An answer that is accepted replaces the one before (DelNoUsePlugins,
\* AddNewPlugins).
LEMMA SyncPlugins ==
    ASSUME PluginInv, NEW dirs, dirs \subseteq SUBSET Paths, NEW ts, syncMinePlugins(dirs, ts)
    PROVE  PluginInv'
<1>0. /\ disk \in [Paths -> Nat] /\ plugins \subseteq PluginRec /\ OneVersion(plugins)
      /\ schedulers \subseteq SchedulerRec /\ plugins = applied
  BY DEF PluginInv
<1>1. CASE ts <= timestamp
  BY <1>1 DEF syncMinePlugins, PluginInv, LiveSchedulers
<1>2. CASE ~(ts <= timestamp)
  <2> DEFINE desired == UNION {ListPlugins(d) : d \in dirs}
             kept == IF dirs = {} THEN ClearAllPlugins ELSE DelNoUsePlugins(desired)
             new == AddNewPlugins(desired)
  <2>1. /\ applied' = desired /\ UNCHANGED disk
        /\ plugins' = {p \in kept : ~\E q \in new : q.path = p.path} \cup new
        /\ schedulers' = {IF s.plugin \in kept THEN s ELSE Stop(s) : s \in schedulers}
                           \cup {NewPluginScheduler(p) : p \in new}
    BY <1>2 DEF syncMinePlugins
  <2>2. desired \subseteq PluginRec /\ OneVersion(desired)
    BY <1>0, ListedOnce
  <2>3. dirs = {} => desired = {}
    OBVIOUS
  <2>4. kept = plugins \cap desired
    <3> HIDE DEF desired
    <3> QED
      BY <2>3 DEF ClearAllPlugins, DelNoUsePlugins
  <2>5. new = desired \ kept
    <3> HIDE DEF desired, kept
    <3>1. new = {q \in desired : ~\E p \in plugins \cap desired : p = q}
      BY DEF AddNewPlugins, DelNoUsePlugins
    <3> QED
      BY <2>4, <3>1
  <2> HIDE DEF desired, kept, new
  <2>6. plugins' = desired
    <3>1. \A p \in kept : ~\E q \in new : q.path = p.path
      BY <2>2, <2>4, <2>5 DEF OneVersion
    <3> QED
      BY <2>1, <2>4, <2>5, <3>1
  <2>7. ASSUME NEW s \in schedulers
        PROVE  Stop(s) \in SchedulerRec /\ Stop(s).quit = TRUE
    BY <1>0 DEF Stop, SchedulerRec
  <2>8. ASSUME NEW p \in new
        PROVE  /\ NewPluginScheduler(p) \in SchedulerRec
               /\ NewPluginScheduler(p).plugin = p /\ ~NewPluginScheduler(p).quit
    BY <2>2, <2>5 DEF NewPluginScheduler, SchedulerRec
  <2>9. schedulers' \subseteq SchedulerRec
    BY <1>0, <2>1, <2>7, <2>8
  <2>10. \A x : x \in LiveSchedulers' <=> \/ x \in LiveSchedulers /\ x.plugin \in kept
                                          \/ \E p \in new : x = NewPluginScheduler(p)
    <3>1. ASSUME NEW x \in LiveSchedulers'
          PROVE  \/ x \in LiveSchedulers /\ x.plugin \in kept
                 \/ \E p \in new : x = NewPluginScheduler(p)
      <4>1. x \in schedulers' /\ ~x.quit
        BY DEF LiveSchedulers
      <4>2. CASE x \in {NewPluginScheduler(p) : p \in new}
        BY <4>2
      <4>3. CASE x \in {IF s.plugin \in kept THEN s ELSE Stop(s) : s \in schedulers}
        <5>1. PICK s \in schedulers : x = IF s.plugin \in kept THEN s ELSE Stop(s)
          BY <4>3
        <5>2. s.plugin \in kept
          BY <2>7, <4>1, <5>1
        <5> QED
          BY <4>1, <5>1, <5>2 DEF LiveSchedulers
      <4> QED
        BY <2>1, <4>1, <4>2, <4>3
    <3>2. ASSUME NEW x \in LiveSchedulers, x.plugin \in kept PROVE x \in LiveSchedulers'
      <4>1. x \in schedulers /\ ~x.quit
        BY DEF LiveSchedulers
      <4>2. x \in {IF s.plugin \in kept THEN s ELSE Stop(s) : s \in schedulers}
        BY <3>2, <4>1
      <4> QED
        BY <2>1, <4>1, <4>2 DEF LiveSchedulers
    <3>3. ASSUME NEW p \in new PROVE NewPluginScheduler(p) \in LiveSchedulers'
      BY <2>1, <2>8 DEF LiveSchedulers
    <3> QED
      BY <3>1, <3>2, <3>3
  <2>11. \A x \in LiveSchedulers' : x.plugin \in desired
    BY <2>4, <2>5, <2>8, <2>10
  <2>12. ASSUME NEW p \in desired PROVE \E x \in LiveSchedulers' : x.plugin = p
    <3>1. CASE p \in kept
      <4>1. PICK x \in LiveSchedulers : x.plugin = p
        BY <2>4, <3>1 DEF PluginInv
      <4> QED
        BY <2>10, <3>1, <4>1
    <3>2. CASE p \in new
      BY <2>8, <2>10, <3>2
    <3> QED
      BY <2>5, <3>1, <3>2
  <2>13. ASSUME NEW x \in LiveSchedulers', NEW y \in LiveSchedulers', x.plugin = y.plugin
         PROVE  x = y
    <3>1. CASE x \in LiveSchedulers /\ x.plugin \in kept /\ y \in LiveSchedulers
      BY <2>13, <3>1 DEF PluginInv
    <3>2. CASE \E p \in new : x = NewPluginScheduler(p)
      BY <2>5, <2>8, <2>10, <2>13, <3>2
    <3>3. CASE \E p \in new : y = NewPluginScheduler(p)
      BY <2>5, <2>8, <2>10, <2>13, <3>3
    <3> QED
      BY <2>10, <2>13, <3>1, <3>2, <3>3
  <2> QED
    BY <1>0, <2>1, <2>2, <2>6, <2>9, <2>11, <2>12, <2>13 DEF PluginInv
<1> QED
  BY <1>1, <1>2

AgentStep == AgentPluginStep \/ AgentWatchStep

\* Every step of the agent keeps the invariant.
LEMMA PluginStep == PluginInv /\ [AgentStep]_agentPluginVars => PluginInv'
<1> SUFFICES ASSUME PluginInv, [AgentStep]_agentPluginVars PROVE PluginInv'
  OBVIOUS
<1>0. /\ disk \in [Paths -> Nat] /\ schedulers \subseteq SchedulerRec
  BY DEF PluginInv
<1>u. ASSUME UNCHANGED <<plugins, schedulers, applied>>, disk' \in [Paths -> Nat] PROVE PluginInv'
  BY <1>u DEF PluginInv, LiveSchedulers
<1>1. CASE UNCHANGED agentPluginVars
  BY <1>0, <1>1, <1>u DEF agentPluginVars, filesVars
<1>2. ASSUME NEW p \in Paths, UpdateFile(p) PROVE PluginInv'
  <2>1. disk' \in [Paths -> Nat]
    BY <1>0, <1>2 DEF UpdateFile
  <2> QED
    BY <1>2, <1>u, <2>1 DEF UpdateFile
<1>3. ASSUME NEW dirs \in SUBSET Dirs, NEW ts, syncMinePlugins(dirs, ts) PROVE PluginInv'
  <2>1. dirs \subseteq SUBSET Paths
    OBVIOUS
  <2> QED
    BY <1>3, <2>1, SyncPlugins
<1>4. CASE syncMinePlugins({}, 0)
  <2>1. {} \subseteq SUBSET Paths
    OBVIOUS
  <2> QED
    BY <1>4, <2>1, SyncPlugins
<1>5. CASE syncTrustableIps
  BY <1>0, <1>5, <1>u DEF syncTrustableIps
<1>6. ASSUME NEW s \in schedulers, PluginRun(s) PROVE PluginInv'
  <2> DEFINE t == [s EXCEPT !.running = TRUE, !.late = IF s.quit THEN 1 ELSE 0]
  <2>1. t \in SchedulerRec /\ t.plugin = s.plugin /\ t.quit = s.quit
    <3>1. PICK n \in 0 .. 1 : n = IF s.quit THEN 1 ELSE 0
      OBVIOUS
    <3>2. t = [s EXCEPT !.running = TRUE, !.late = n]
      BY <3>1
    <3>3. s \in SchedulerRec
      BY <1>0
    <3> HIDE DEF t
    <3> QED
      BY <3>2, <3>3 DEF SchedulerRec
  <2>2. schedulers' = (schedulers \ {s}) \cup {t} /\ UNCHANGED <<disk, plugins, applied>>
    BY <1>6 DEF PluginRun
  <2> HIDE DEF t
  <2> QED
    BY <2>1, <2>2, SchedulerMoves
<1>7. ASSUME NEW s \in schedulers, PluginDone(s) PROVE PluginInv'
  <2> DEFINE t == [s EXCEPT !.running = FALSE]
  <2>1. t \in SchedulerRec /\ t.plugin = s.plugin /\ t.quit = s.quit
    BY <1>0 DEF SchedulerRec
  <2>2. schedulers' = (schedulers \ {s}) \cup {t} /\ UNCHANGED <<disk, plugins, applied>>
    BY <1>7 DEF PluginDone
  <2> HIDE DEF t
  <2> QED
    BY <2>1, <2>2, SchedulerMoves
<1>8. ASSUME NEW s \in schedulers, Schedule(s) PROVE PluginInv'
  <2>1. /\ s.quit /\ schedulers' = schedulers \ {s} /\ UNCHANGED <<disk, plugins, applied>>
    BY <1>8 DEF Schedule
  <2>2. LiveSchedulers' = LiveSchedulers
    BY <2>1 DEF LiveSchedulers
  <2>3. schedulers' \subseteq SchedulerRec
    BY <1>0, <2>1
  <2> QED
    BY <2>1, <2>2, <2>3 DEF PluginInv
<1>9. CASE AgentWatchStep
  BY <1>0, <1>9, <1>u DEF AgentWatchStep, WantedChanges, syncBuiltinMetrics, filesVars
<1> QED
  BY <1>1, <1>2, <1>3, <1>4, <1>5, <1>6, <1>7, <1>8, <1>9 DEF AgentStep, AgentPluginStep

\* Whatever hbs answers or fails to answer, and however the repository changes
\* in between, an agent runs what it was told last, in the version that was on
\* disk then, and no plugin twice (syncMinePlugins, DelNoUsePlugins).
THEOREM AgentRunsWhatItWasTold == AgentSpec => []PluginsAsTold
<1>1. AgentPluginInit => PluginInv
  <2> SUFFICES ASSUME AgentPluginInit PROVE PluginInv
    OBVIOUS
  <2>1. disk \in [Paths -> Nat]
    BY DEF AgentPluginInit
  <2> QED
    BY <2>1 DEF AgentPluginInit, PluginInv, OneVersion, LiveSchedulers
<1> QED
  BY <1>1, PluginStep, PluginInvTold, PTL DEF AgentSpec, AgentStep

\* The checksum an agent reports is that of the rows it watches, or none, so hbs
\* never takes an agent with other rows for up to date (syncBuiltinMetrics).
THEOREM AgentChecksumHonest == AgentSpec => []ChecksumHonest
<1>1. AgentPluginInit => ChecksumHonest
  BY DEF AgentPluginInit, ChecksumHonest
<1>2. ChecksumHonest /\ [AgentStep]_agentPluginVars => ChecksumHonest'
  <2> SUFFICES ASSUME ChecksumHonest, [AgentStep]_agentPluginVars PROVE ChecksumHonest'
    OBVIOUS
  <2>u. ASSUME UNCHANGED <<watched, checksum>> PROVE ChecksumHonest'
    BY <2>u DEF ChecksumHonest, Digest, NilDigest
  <2>1. ASSUME NEW resp, NEW ts, syncBuiltinMetrics(resp, ts), resp.checksum # checksum =>
               resp.checksum = Digest(resp.metrics)
        PROVE  ChecksumHonest'
    <3>1. CASE Unchanged(resp, ts)
      BY <2>1, <2>u, <3>1 DEF syncBuiltinMetrics
    <3>2. CASE ~Unchanged(resp, ts)
      <4>1. watched' = resp.metrics /\ checksum' = resp.checksum
        BY <2>1, <3>2 DEF syncBuiltinMetrics
      <4>2. resp.checksum # checksum
        BY <3>2 DEF Unchanged
      <4> QED
        BY <2>1, <4>1, <4>2 DEF ChecksumHonest, Digest
    <3> QED
      BY <3>1, <3>2
  <2>2. ASSUME NEW ts, syncBuiltinMetrics(BuiltinMetrics(checksum), ts) PROVE ChecksumHonest'
    <3> DEFINE r == BuiltinMetrics(checksum)
    <3>1. r.checksum = Digest(wanted) /\ r.metrics = IF checksum = Digest(wanted) THEN {} ELSE wanted
      BY DEF BuiltinMetrics
    <3>2. r.checksum # checksum => r.checksum = Digest(r.metrics)
      BY <3>1
    <3> HIDE DEF r
    <3> QED
      BY <2>1, <2>2, <3>2 DEF r
  <2>3. CASE syncBuiltinMetrics(NoAnswer, 0)
    <3>1. NoAnswer.checksum = Digest(NoAnswer.metrics)
      BY DEF NoAnswer, NoDigest, Digest
    <3> QED
      BY <2>1, <2>3, <3>1
  <2>4. CASE WantedChanges
    BY <2>4, <2>u DEF WantedChanges
  <2>5. CASE AgentPluginStep
    BY <2>5, <2>u DEF AgentPluginStep, UpdateFile, syncMinePlugins, syncTrustableIps, PluginRun,
       PluginDone, Schedule, watchVars
  <2>6. CASE UNCHANGED agentPluginVars
    BY <2>6, <2>u DEF agentPluginVars, watchVars
  <2> QED
    BY <2>2, <2>3, <2>4, <2>5, <2>6 DEF AgentStep, AgentWatchStep
<1> QED
  BY <1>1, <1>2, PTL DEF AgentSpec, AgentStep

----------------------------------------------------------------------------
(* The gateway (modules/gateway/sender).                                   *)

GwPcs == {"look", "count", "call", "refused", "sent", "failed"}
GwJob == [pc : GwPcs, batch : Nat, idx : 1 .. transNum, left : Nat, rounds : Nat]

\* The items that wait (with a receiver, in the queue, with the task), and those
\* goroutines carry.
InQueue == {SenderQueue[k] : k \in 1 .. Len(SenderQueue)}
Popped == {gwBatch} \ {0}
Queued == InQueue \cup gwOffered \cup Popped
Carrying == {p \in GwPermits : gwGo[p] \in GwJob}
Carried == {gwGo[p].batch : p \in Carrying}
Calling(host) == At(host, {"call", "refused"})

\* The five sets are disjoint and are the items received so far.
Partition(a, b, c, d, e, n) ==
    /\ a \cap (b \cup c \cup d \cup e) = {} /\ b \cap (c \cup d \cup e) = {}
    /\ c \cap (d \cup e) = {} /\ d \cap e = {}
    /\ a \cup b \cup c \cup d \cup e = 1 .. n

GwTypes ==
    /\ gwPushed \in Nat /\ SenderQueue \in Seq(Nat) /\ gwOffered \subseteq Nat /\ gwBatch \in Nat
    /\ gwGo \in [GwPermits -> {NoBatch} \cup GwJob]
    /\ inProgress \in [Hosts -> Int]
    /\ gwCounted \in [send : SUBSET Nat, fail : SUBSET Nat, drop : SUBSET Nat]

GwItems ==
    /\ \A j, k \in 1 .. Len(SenderQueue) : SenderQueue[j] = SenderQueue[k] => j = k
    /\ InQueue \cap gwOffered = {} /\ Popped \cap (InQueue \cup gwOffered) = {}
    /\ \A p, q \in Carrying : gwGo[p].batch = gwGo[q].batch => p = q
    /\ Partition(Queued, Carried, gwCounted.send, gwCounted.fail, gwCounted.drop, gwPushed)

GwSent ==
    /\ gwCounted.send \subseteq gwTaken
    /\ \A p \in Carrying : gwGo[p].pc = "sent" => gwGo[p].batch \in gwTaken

GwCalls == \A host \in Hosts : inProgress[host] = Cardinality(Calling(host))

GwInv == GwTypes /\ GwItems /\ GwSent /\ GwCalls

\* The semaphore has finitely many permits.
LEMMA PermitsFinite == IsFiniteSet(GwPermits) /\ transNum \in Nat
<1>1. transNum \in Nat
  BY LenProperties DEF transNum
<1>2. \A a, b \in Nat : a * b \in Int
  OBVIOUS
<1>3. GwMaxConns * transNum \in Int
  BY <1>1, <1>2
<1> QED
  BY <1>1, <1>3, FS_Interval DEF GwPermits

\* A goroutine's host is one of the transfers.
LEMMA HostIsHost == ASSUME NEW p \in GwPermits, gwGo[p] \in GwJob PROVE HostOf(p) \in Hosts
<1>1. gwGo[p].idx \in DOMAIN TransferHostnames
  BY LenProperties DEF GwJob, transNum
<1> QED
  BY <1>1 DEF HostOf, Hosts, Range

\* A goroutine without a batch is at none of the points of the walk.
LEMMA IdleNotJob == NoBatch \notin GwJob /\ NoBatch.pc = "idle" /\ NoBatch.batch = 0
  BY DEF NoBatch, GwJob, GwPcs

\* A goroutine that goes on with its batch leaves every item where it is.
LEMMA JobMoves ==
    ASSUME GwTypes, GwItems, NEW p \in GwPermits, NEW g \in GwJob,
           gwGo[p] \in GwJob, g.batch = gwGo[p].batch,
           gwGo' = [gwGo EXCEPT ![p] = g],
           UNCHANGED <<gwPushed, gwOffered, SenderQueue, gwBatch, gwCounted>>, inProgress' \in [Hosts -> Int]
    PROVE  /\ GwTypes' /\ GwItems'
           /\ Carrying' = Carrying
           /\ \A q \in GwPermits : gwGo'[q] = IF q = p THEN g ELSE gwGo[q]
<1>1. \A q \in GwPermits : gwGo'[q] = IF q = p THEN g ELSE gwGo[q]
  BY DEF GwTypes
<1>2. Carrying' = Carrying
  BY <1>1 DEF Carrying
<1>3. \A q \in GwPermits : gwGo'[q].batch = gwGo[q].batch
  BY <1>1
<1>4. Carried' = Carried
  BY <1>2, <1>3 DEF Carried, Carrying
<1>5. GwTypes'
  <2>1. gwGo' \in [GwPermits -> {NoBatch} \cup GwJob]
    BY DEF GwTypes
  <2> QED
    BY <2>1 DEF GwTypes
<1>6. Queued' = Queued /\ InQueue' = InQueue /\ Popped' = Popped
  BY DEF Queued, InQueue, Popped
<1>7. GwItems'
  <2>1. \A q, r \in Carrying' : gwGo'[q].batch = gwGo'[r].batch => q = r
    BY <1>2, <1>3 DEF GwItems, Carrying
  <2> QED
    BY <1>4, <1>6, <2>1 DEF GwItems
<1> QED
  BY <1>1, <1>2, <1>5, <1>7

\* The calls in progress, when one goroutine has moved.
LEMMA CallsMove ==
    ASSUME GwTypes, NEW p \in GwPermits, NEW g,
           gwGo' = [gwGo EXCEPT ![p] = g], NEW host
    PROVE  /\ p \notin Calling(host) /\ p \notin Calling(host)' => Calling(host)' = Calling(host)
           /\ p \notin Calling(host) /\ p \in Calling(host)'
                => Cardinality(Calling(host)') = Cardinality(Calling(host)) + 1
           /\ p \in Calling(host) /\ p \notin Calling(host)'
                => Cardinality(Calling(host)') = Cardinality(Calling(host)) - 1
<1>1. \A q \in GwPermits : q # p => gwGo'[q] = gwGo[q]
  BY DEF GwTypes
<1>2. \A q \in GwPermits : q # p => (q \in Calling(host)' <=> q \in Calling(host))
  BY <1>1 DEF Calling, At, HostOf
<1>3. Calling(host) \subseteq GwPermits /\ Calling(host)' \subseteq GwPermits
  BY DEF Calling, At, GwPermits
<1>4. IsFiniteSet(Calling(host))
  BY <1>3, PermitsFinite, FS_Subset
<1>5. PICK A : A = Calling(host)
  OBVIOUS
<1>6. PICK B : B = Calling(host)'
  OBVIOUS
<1>7. CASE p \notin A /\ p \notin B
  <2>1. \A q : q \in A <=> q \in B
    BY <1>2, <1>3, <1>5, <1>6, <1>7
  <2>2. A = B
    BY <2>1
  <2> QED
    BY <1>5, <1>6, <1>7, <2>2
<1>8. CASE p \notin A /\ p \in B
  <2>1. B = A \cup {p}
    BY <1>2, <1>3, <1>5, <1>6, <1>8
  <2>2. Cardinality(B) = Cardinality(A) + 1
    BY <1>4, <1>5, <1>8, <2>1, FS_AddElement
  <2> QED
    BY <1>5, <1>6, <1>8, <2>2
<1>9. CASE p \in A /\ p \notin B
  <2>1. B = A \ {p}
    BY <1>2, <1>3, <1>5, <1>6, <1>9
  <2>2. Cardinality(B) = Cardinality(A) - 1
    BY <1>4, <1>5, <1>9, <2>1, FS_RemoveElement
  <2> QED
    BY <1>5, <1>6, <1>9, <2>2
<1>10. CASE p \in A /\ p \in B
  BY <1>5, <1>6, <1>10
<1> QED
  BY <1>7, <1>8, <1>9, <1>10

\* The walk over the transfers keeps the batch (the loops of forward2TransferTask).
LEMMA WalkGoesOn ==
    ASSUME GwTypes, NEW p \in GwPermits, gwGo[p] \in GwJob, Onwards(p)
    PROVE  \E g \in GwJob : /\ gwGo' = [gwGo EXCEPT ![p] = g]
                            /\ g.batch = gwGo[p].batch /\ g.pc \in {"look", "failed"}
<1>0. PICK j \in GwJob : j = gwGo[p]
  OBVIOUS
<1>t. gwGo \in [GwPermits -> {NoBatch} \cup GwJob] /\ transNum \in Nat
  BY PermitsFinite DEF GwTypes
<1>1. CASE j.left > 1
  <2> DEFINE g == [j EXCEPT !.pc = "look", !.left = @ - 1, !.idx = (@ % transNum) + 1]
  <2>0. gwGo[p].left > 1
    BY <1>0, <1>1
  <2>6. gwGo' = [gwGo EXCEPT ![p] = [gwGo[p] EXCEPT !.pc = "look", !.left = @ - 1,
                                                      !.idx = (@ % transNum) + 1]]
    BY <2>0, Zenon DEF Onwards
  <2>1. gwGo' = [gwGo EXCEPT ![p] = g]
    BY <1>0, <2>6, Zenon
  <2>2. \A i \in 1 .. transNum : (i % transNum) + 1 \in 1 .. transNum
    BY <1>t
  <2>3. j.idx \in 1 .. transNum /\ j.left - 1 \in Nat
    BY <1>1 DEF GwJob
  <2>4. (j.idx % transNum) + 1 \in 1 .. transNum
    BY <2>2, <2>3
  <2>5. g \in GwJob /\ g.batch = j.batch /\ g.pc = "look"
    BY <2>3, <2>4 DEF GwJob, GwPcs
  <2> HIDE DEF g
  <2> QED
    BY <1>0, <2>1, <2>5
<1>2. CASE ~(j.left > 1) /\ j.rounds > 1
  <2>1. PICK start \in 1 .. transNum :
          gwGo' = [gwGo EXCEPT ![p] = [j EXCEPT !.pc = "look", !.left = transNum, !.idx = start,
                                                !.rounds = @ - 1]]
    <3>1. ~(gwGo[p].left > 1) /\ gwGo[p].rounds > 1
      BY <1>0, <1>2
    <3>2. \E start \in 1 .. transNum :
            gwGo' = [gwGo EXCEPT ![p] = [gwGo[p] EXCEPT !.pc = "look", !.left = transNum,
                                                        !.idx = start, !.rounds = @ - 1]]
      BY <3>1, Zenon DEF Onwards
    <3> QED
      BY <1>0, <3>2, Zenon
  <2> DEFINE g == [j EXCEPT !.pc = "look", !.left = transNum, !.idx = start, !.rounds = @ - 1]
  <2>2. j.rounds - 1 \in Nat
    BY <1>2 DEF GwJob
  <2>3. g \in GwJob /\ g.batch = j.batch /\ g.pc = "look"
    BY <1>t, <2>2 DEF GwJob, GwPcs
  <2>4. gwGo' = [gwGo EXCEPT ![p] = g]
    BY <2>1
  <2> HIDE DEF g
  <2> QED
    BY <1>0, <2>3, <2>4
<1>3. CASE ~(j.left > 1) /\ ~(j.rounds > 1)
  <2> DEFINE g == [j EXCEPT !.pc = "failed"]
  <2>1. gwGo' = [gwGo EXCEPT ![p] = g]
    BY <1>0, <1>3, <1>t DEF Onwards
  <2>2. g \in GwJob /\ g.batch = j.batch /\ g.pc = "failed"
    BY DEF GwJob, GwPcs
  <2> HIDE DEF g
  <2> QED
    BY <1>0, <2>1, <2>2
<1> QED
  BY <1>1, <1>2, <1>3

\* A step of a goroutine between two transfers: no item changes place, and the
\* number of calls in progress follows the goroutine.
LEMMA GwWalk ==
    ASSUME GwInv, NEW p \in GwPermits, NEW g \in GwJob,
           gwGo[p] \in GwJob, g.batch = gwGo[p].batch,
           gwGo' = [gwGo EXCEPT ![p] = g],
           UNCHANGED <<gwPushed, gwOffered, SenderQueue, gwBatch, gwCounted>>,
           gwTaken \subseteq gwTaken', g.pc = "sent" => g.batch \in gwTaken',
           inProgress' \in [Hosts -> Int], GwCalls'
    PROVE  GwInv'
<1>1. GwTypes /\ GwItems
  BY DEF GwInv
<1>2. /\ GwTypes' /\ GwItems' /\ Carrying' = Carrying
      /\ \A q \in GwPermits : gwGo'[q] = IF q = p THEN g ELSE gwGo[q]
  BY <1>1, JobMoves
<1>3. gwCounted'.send \subseteq gwTaken'
  BY DEF GwInv, GwSent
<1>4. ASSUME NEW q \in Carrying', gwGo'[q].pc = "sent" PROVE gwGo'[q].batch \in gwTaken'
  <2>1. q \in Carrying /\ q \in GwPermits
    BY <1>2 DEF Carrying
  <2>2. CASE q = p
    BY <1>2, <1>4, <2>1, <2>2
  <2>3. CASE q # p
    BY <1>2, <1>4, <2>1, <2>3 DEF GwInv, GwSent
  <2> QED
    BY <2>2, <2>3
<1> QED
  BY <1>2, <1>3, <1>4 DEF GwInv, GwSent

\* Where a goroutine counts as calling.
LEMMA CallingAt ==
    ASSUME NEW p \in GwPermits, NEW host
    PROVE  p \in Calling(host) <=> gwGo[p].pc \in {"call", "refused"} /\ HostOf(p) = host
  BY DEF Calling, At

\* The same after a step.
LEMMA CallingAtNext ==
    ASSUME NEW p \in GwPermits, NEW host
    PROVE  p \in Calling(host)' <=> gwGo'[p].pc \in {"call", "refused"} /\ HostOf(p)' = host
  BY DEF Calling, At, GwPermits, transNum

\* Neither before nor after the step is there a call.
LEMMA NoCallMoves ==
    ASSUME GwTypes, GwCalls, NEW p \in GwPermits, NEW g, gwGo' = [gwGo EXCEPT ![p] = g],
           gwGo[p].pc \notin {"call", "refused"}, g.pc \notin {"call", "refused"},
           UNCHANGED inProgress
    PROVE  GwCalls'
<1>1. gwGo'[p] = g
  BY DEF GwTypes
<1>2. ASSUME NEW host \in Hosts PROVE Calling(host)' = Calling(host)
  <2>1. p \notin Calling(host) /\ p \notin Calling(host)'
    BY <1>1, CallingAt, CallingAtNext
  <2> QED
    BY <2>1, CallsMove
<1> QED
  BY <1>2 DEF GwCalls, Hosts

\* A call begins: its transfer counts one more.
LEMMA CallBegins ==
    ASSUME GwTypes, GwCalls, NEW p \in GwPermits, NEW g, gwGo' = [gwGo EXCEPT ![p] = g],
           gwGo[p].pc \notin {"call", "refused"}, g.pc \in {"call", "refused"},
           g.idx = gwGo[p].idx, HostOf(p) \in Hosts,
           inProgress' = [inProgress EXCEPT ![HostOf(p)] = @ + 1]
    PROVE  GwCalls' /\ inProgress' \in [Hosts -> Int]
<1>1. gwGo'[p] = g /\ HostOf(p)' = HostOf(p) /\ inProgress \in [Hosts -> Int]
  BY DEF GwTypes, HostOf
<1>2. ASSUME NEW host \in Hosts PROVE inProgress'[host] = Cardinality(Calling(host)')
  <2>1. p \notin Calling(host)
    BY CallingAt
  <2>2. inProgress[host] = Cardinality(Calling(host))
    BY DEF GwCalls
  <2>3. CASE host = HostOf(p)
    <3>1. p \in Calling(host)'
      BY <1>1, <2>3, CallingAtNext
    <3>2. Cardinality(Calling(host)') = Cardinality(Calling(host)) + 1
      BY <2>1, <3>1, CallsMove
    <3> QED
      BY <1>1, <2>2, <2>3, <3>2
  <2>4. CASE host # HostOf(p)
    <3>1. p \notin Calling(host)'
      BY <1>1, <2>4, CallingAtNext
    <3>2. Calling(host)' = Calling(host)
      BY <2>1, <3>1, CallsMove
    <3> QED
      BY <1>1, <2>2, <2>4, <3>2
  <2> QED
    BY <2>3, <2>4
<1> QED
  BY <1>1, <1>2 DEF GwCalls, Hosts

\* A call ends, however it ends: its transfer counts one less.
LEMMA CallEnds ==
    ASSUME GwTypes, GwCalls, NEW p \in GwPermits, NEW g, gwGo' = [gwGo EXCEPT ![p] = g],
           gwGo[p].pc \in {"call", "refused"}, g.pc \notin {"call", "refused"},
           HostOf(p) \in Hosts,
           inProgress' = [inProgress EXCEPT ![HostOf(p)] = @ - 1]
    PROVE  GwCalls' /\ inProgress' \in [Hosts -> Int]
<1>1. gwGo'[p] = g /\ inProgress \in [Hosts -> Int]
  BY DEF GwTypes
<1>2. ASSUME NEW host \in Hosts PROVE inProgress'[host] = Cardinality(Calling(host)')
  <2>1. p \notin Calling(host)'
    BY <1>1, CallingAtNext
  <2>2. inProgress[host] = Cardinality(Calling(host))
    BY DEF GwCalls
  <2>3. CASE host = HostOf(p)
    <3>1. p \in Calling(host)
      BY <2>3, CallingAt
    <3>2. Cardinality(Calling(host)') = Cardinality(Calling(host)) - 1
      BY <2>1, <3>1, CallsMove
    <3> QED
      BY <1>1, <2>2, <2>3, <3>2
  <2>4. CASE host # HostOf(p)
    <3>1. p \notin Calling(host)
      BY <2>4, CallingAt
    <3>2. Calling(host)' = Calling(host)
      BY <2>1, <3>1, CallsMove
    <3> QED
      BY <1>1, <2>2, <2>4, <3>2
  <2> QED
    BY <2>3, <2>4
<1> QED
  BY <1>1, <1>2 DEF GwCalls, Hosts

\* The receiver: an item is offered, or dropped and counted (the check of PushFront).
LEMMA GwPushStep == GwInv /\ Push2SendQueue => GwInv'
<1> SUFFICES ASSUME GwInv, Push2SendQueue PROVE GwInv'
  OBVIOUS
<1>0. GwTypes /\ GwItems /\ GwSent /\ GwCalls
  BY DEF GwInv
<1>1. /\ gwPushed' = gwPushed + 1 /\ gwPushed \in Nat
      /\ UNCHANGED <<SenderQueue, gwBatch, gwGo, inProgress, gwTaken>>
  BY <1>0 DEF Push2SendQueue, GwTypes
<1>2. Carrying' = Carrying /\ Carried' = Carried /\ InQueue' = InQueue /\ Popped' = Popped
  BY <1>1 DEF Carrying, Carried, InQueue, Popped, GwPermits, transNum
<1>3. GwCalls'
  BY <1>0, <1>1 DEF GwCalls, Calling, At, HostOf
<1>4. /\ \A p, q \in Carrying' : gwGo'[p].batch = gwGo'[q].batch => p = q
      /\ \A j, k \in 1 .. Len(SenderQueue') : SenderQueue'[j] = SenderQueue'[k] => j = k
  BY <1>0, <1>1, <1>2 DEF GwItems
<1>5. Partition(Queued, Carried, gwCounted.send, gwCounted.fail, gwCounted.drop, gwPushed)
  BY <1>0 DEF GwItems
<1>6. CASE Len(SenderQueue) < GwQueueSize
  <2>1. gwOffered' = gwOffered \cup {gwPushed'} /\ UNCHANGED gwCounted
    BY <1>6 DEF Push2SendQueue
  <2>2. GwTypes'
    BY <1>0, <1>1, <2>1 DEF GwTypes
  <2>3. Queued' = Queued \cup {gwPushed'}
    BY <1>2, <2>1 DEF Queued
  <2>4. gwPushed' \notin Queued
    BY <1>1, <1>5 DEF Partition
  <2>5. InQueue' \cap gwOffered' = {} /\ Popped' \cap (InQueue' \cup gwOffered') = {}
    BY <1>0, <1>2, <2>1, <2>4 DEF GwItems, Queued
  <2>6. Partition(Queued', Carried', gwCounted'.send, gwCounted'.fail, gwCounted'.drop, gwPushed')
    BY <1>1, <1>2, <1>5, <2>1, <2>3 DEF Partition
  <2> QED
    BY <1>0, <1>1, <1>2, <1>3, <1>4, <2>1, <2>2, <2>5, <2>6 DEF GwInv, GwItems, GwSent
<1>7. CASE ~(Len(SenderQueue) < GwQueueSize)
  <2>1. gwCounted' = [gwCounted EXCEPT !.drop = @ \cup {gwPushed'}] /\ UNCHANGED gwOffered
    BY <1>7 DEF Push2SendQueue
  <2>2. /\ gwCounted'.send = gwCounted.send /\ gwCounted'.fail = gwCounted.fail
        /\ gwCounted'.drop = gwCounted.drop \cup {gwPushed'}
    BY <1>0, <2>1 DEF GwTypes
  <2>3. GwTypes'
    <3>1. gwPushed' \in Nat
      BY <1>1
    <3>2. gwCounted' \in [send : SUBSET Nat, fail : SUBSET Nat, drop : SUBSET Nat]
      BY <1>0, <2>1, <3>1 DEF GwTypes
    <3> QED
      BY <1>0, <1>1, <2>1, <3>1, <3>2 DEF GwTypes
  <2>4. Queued' = Queued
    BY <1>2, <2>1 DEF Queued
  <2>5. Partition(Queued', Carried', gwCounted'.send, gwCounted'.fail, gwCounted'.drop, gwPushed')
    BY <1>1, <1>2, <1>5, <2>2, <2>4 DEF Partition
  <2>6. InQueue' \cap gwOffered' = {} /\ Popped' \cap (InQueue' \cup gwOffered') = {}
    BY <1>0, <1>2, <2>1 DEF GwItems
  <2> QED
    BY <1>0, <1>1, <1>2, <1>3, <1>4, <2>2, <2>3, <2>5, <2>6 DEF GwInv, GwItems, GwSent
<1> QED
  BY <1>6, <1>7

\* An item is put before a sequence (PushFront of the limited list).
LEMMA PutFirst ==
    ASSUME NEW x \in Nat, NEW s \in Seq(Nat), NEW t, t = <<x>> \o s
    PROVE  /\ t \in Seq(Nat) /\ Len(t) = Len(s) + 1
           /\ t[1] = x /\ \A k \in 1 .. Len(s) : t[k + 1] = s[k]
           /\ \A k \in 1 .. Len(t) : k = 1 \/ (k - 1 \in 1 .. Len(s) /\ t[k] = s[k - 1])
<1> DEFINE one == <<x>>
<1>1. one \in Seq(Nat) /\ Len(one) = 1 /\ one[1] = x
  OBVIOUS
<1>2. t = one \o s
  OBVIOUS
<1> HIDE DEF one
<1>3. /\ one \o s \in Seq(Nat) /\ Len(one \o s) = Len(one) + Len(s)
      /\ \A k \in 1 .. Len(one) + Len(s) :
           (one \o s)[k] = IF k <= Len(one) THEN one[k] ELSE s[k - Len(one)]
  BY <1>1, ConcatProperties
<1>4. PICK n \in Nat : n = Len(s)
  BY LenProperties
<1>5. /\ Len(t) = n + 1
      /\ \A k \in 1 .. n + 1 : t[k] = IF k <= 1 THEN x ELSE s[k - 1]
  BY <1>1, <1>2, <1>3, <1>4
<1>6. \A k \in 1 .. n : k + 1 \in 1 .. n + 1 /\ ~(k + 1 <= 1) /\ (k + 1) - 1 = k
  OBVIOUS
<1>7. \A k \in 1 .. n + 1 : k = 1 \/ (k - 1 \in 1 .. n /\ ~(k <= 1))
  OBVIOUS
<1>8. 1 \in 1 .. n + 1
  OBVIOUS
<1> QED
  BY <1>2, <1>3, <1>4, <1>5, <1>6, <1>7, <1>8

\* The item its receiver offers is in the queue, newest first (the push of PushFront).
LEMMA GwFrontStep == ASSUME GwInv, NEW i \in gwOffered, PushFront(i) PROVE GwInv'
<1>0. GwTypes /\ GwItems /\ GwSent /\ GwCalls
  BY DEF GwInv
<1>1. /\ gwOffered' = gwOffered \ {i} /\ SenderQueue' = <<i>> \o SenderQueue
      /\ UNCHANGED <<gwPushed, gwBatch, gwGo, inProgress, gwTaken, gwCounted>>
  BY DEF PushFront
<1>2. i \in Nat /\ SenderQueue \in Seq(Nat) /\ i \notin InQueue
  BY <1>0 DEF GwTypes, GwItems
<1>3. PICK n \in Nat : n = Len(SenderQueue)
  BY <1>2, LenProperties
<1>4. /\ SenderQueue' \in Seq(Nat) /\ Len(SenderQueue') = n + 1
      /\ SenderQueue'[1] = i /\ \A k \in 1 .. n : SenderQueue'[k + 1] = SenderQueue[k]
      /\ \A k \in 1 .. n + 1 : k = 1 \/ (k - 1 \in 1 .. n /\ SenderQueue'[k] = SenderQueue[k - 1])
  BY <1>1, <1>2, <1>3, PutFirst
<1>5. InQueue = {SenderQueue[k] : k \in 1 .. n} /\ InQueue' = {SenderQueue'[k] : k \in 1 .. n + 1}
  BY <1>3, <1>4 DEF InQueue
<1>6. InQueue' = InQueue \cup {i}
  <2>1. \A k \in 1 .. n : k + 1 \in 1 .. n + 1
    OBVIOUS
  <2>2. 1 \in 1 .. n + 1
    OBVIOUS
  <2>3. ASSUME NEW x \in InQueue' PROVE x \in InQueue \cup {i}
    <3>1. PICK k \in 1 .. n + 1 : x = SenderQueue'[k]
      BY <1>5
    <3>2. CASE k = 1
      BY <1>4, <3>1, <3>2
    <3>3. CASE k # 1
      <4>1. k - 1 \in 1 .. n /\ x = SenderQueue[k - 1]
        BY <1>4, <3>1, <3>3
      <4> QED
        BY <1>5, <4>1
    <3> QED
      BY <3>2, <3>3
  <2>4. InQueue \subseteq InQueue'
    BY <1>4, <1>5, <2>1
  <2>5. i \in InQueue'
    BY <1>4, <1>5, <2>2
  <2> QED
    BY <2>3, <2>4, <2>5
<1>7. Popped' = Popped /\ Carrying' = Carrying /\ Carried' = Carried
  BY <1>1 DEF Carrying, Carried, Popped, GwPermits, transNum
<1>8. Queued' = Queued
  BY <1>1, <1>6, <1>7 DEF Queued
<1>9. GwTypes'
  BY <1>0, <1>1, <1>4 DEF GwTypes
<1>10. ASSUME NEW j \in 1 .. n + 1, NEW k \in 1 .. n + 1, SenderQueue'[j] = SenderQueue'[k]
       PROVE  j = k
  <2>1. \A m \in 1 .. n + 1 : m # 1 => m - 1 \in 1 .. n /\ SenderQueue'[m] \in InQueue
    BY <1>4, <1>5
  <2>2. CASE j = 1 \/ k = 1
    BY <1>2, <1>4, <1>10, <2>1, <2>2
  <2>3. CASE j # 1 /\ k # 1
    <3>1. PICK l \in 1 .. n : l = j - 1 /\ SenderQueue'[j] = SenderQueue[l]
      BY <1>4, <2>3
    <3>2. PICK m \in 1 .. n : m = k - 1 /\ SenderQueue'[k] = SenderQueue[m]
      BY <1>4, <2>3
    <3>3. l = m
      BY <1>0, <1>3, <1>10, <3>1, <3>2 DEF GwItems
    <3> QED
      BY <3>1, <3>2, <3>3
  <2> QED
    BY <2>2, <2>3
<1>11. GwItems'
  <2>1. Partition(Queued, Carried, gwCounted.send, gwCounted.fail, gwCounted.drop, gwPushed)
    BY <1>0 DEF GwItems
  <2>2. Partition(Queued', Carried', gwCounted'.send, gwCounted'.fail, gwCounted'.drop, gwPushed')
    BY <1>1, <1>7, <1>8, <2>1
  <2>3. InQueue' \cap gwOffered' = {} /\ Popped' \cap (InQueue' \cup gwOffered') = {}
    BY <1>0, <1>1, <1>6, <1>7 DEF GwItems
  <2>4. \A p, q \in Carrying' : gwGo'[p].batch = gwGo'[q].batch => p = q
    BY <1>0, <1>1, <1>7 DEF GwItems
  <2> QED
    BY <1>4, <1>10, <2>2, <2>3, <2>4 DEF GwItems
<1>12. GwSent'
  BY <1>0, <1>1, <1>7 DEF GwSent
<1>13. GwCalls'
  BY <1>0, <1>1 DEF GwCalls, Calling, At, HostOf
<1> QED
  BY <1>9, <1>11, <1>12, <1>13 DEF GwInv

\* The oldest item leaves the queue and waits for a permit (PopBackBy).
LEMMA GwPopStep == GwInv /\ PopBackBy => GwInv'
<1> SUFFICES ASSUME GwInv, PopBackBy PROVE GwInv'
  OBVIOUS
<1>0. GwTypes /\ GwItems /\ GwSent /\ GwCalls
  BY DEF GwInv
<1>1. /\ SenderQueue \in Seq(Nat) /\ Len(SenderQueue) \in Nat \ {0} /\ gwBatch = 0
      /\ UNCHANGED <<gwPushed, gwOffered, gwGo, inProgress, gwTaken, gwCounted>>
  BY <1>0, EmptySeq, LenProperties DEF PopBackBy, GwTypes
<1>2. PICK n \in Nat \ {0} : n = Len(SenderQueue)
  BY <1>1
<1>3. PICK i \in Nat : i = SenderQueue[n]
  BY <1>1, <1>2, ElementOfSeq
<1>4. /\ SenderQueue' \in Seq(Nat) /\ Len(SenderQueue') = n - 1
      /\ \A k \in 1 .. n - 1 : SenderQueue'[k] = SenderQueue[k]
  <2>1. SenderQueue' = SubSeq(SenderQueue, 1, n - 1)
    BY <1>2 DEF PopBackBy, Front
  <2>2. \A k \in 1 .. n - 1 : SenderQueue[k] \in Nat
    BY <1>1, <1>2, ElementOfSeq
  <2>3. /\ SubSeq(SenderQueue, 1, n - 1) \in Seq(Nat)
        /\ Len(SubSeq(SenderQueue, 1, n - 1)) = IF 1 <= n - 1 THEN n - 1 - 1 + 1 ELSE 0
        /\ \A k \in 1 .. n - 1 - 1 + 1 : SubSeq(SenderQueue, 1, n - 1)[k] = SenderQueue[1 + k - 1]
    BY <2>2, SubSeqProperties
  <2> QED
    BY <2>1, <2>3
<1>5. InQueue' = InQueue \ {i} /\ i \in InQueue
  <2>1. \A j, k \in 1 .. n : SenderQueue[j] = SenderQueue[k] => j = k
    BY <1>0, <1>2 DEF GwItems
  <2>2. InQueue = {SenderQueue[k] : k \in 1 .. n}
    BY <1>2 DEF InQueue
  <2>3. InQueue' = {SenderQueue[k] : k \in 1 .. n - 1}
    BY <1>4 DEF InQueue
  <2>4. \A k \in 1 .. n - 1 : k \in 1 .. n /\ k # n
    OBVIOUS
  <2>5. \A k \in 1 .. n : k = n \/ k \in 1 .. n - 1
    OBVIOUS
  <2>6. n \in 1 .. n
    OBVIOUS
  <2>7. InQueue' \subseteq InQueue \ {i}
    BY <1>3, <2>1, <2>2, <2>3, <2>4, <2>6
  <2>8. InQueue \ {i} \subseteq InQueue'
    BY <1>3, <2>2, <2>3, <2>5
  <2> QED
    BY <1>3, <2>2, <2>6, <2>7, <2>8
<1>6. gwBatch' = i
  BY <1>2, <1>3 DEF PopBackBy, Last
<1>7. Partition(Queued, Carried, gwCounted.send, gwCounted.fail, gwCounted.drop, gwPushed)
  BY <1>0 DEF GwItems
<1>8. Popped = {} /\ Popped' = {i}
  <2>1. i # 0
    BY <1>5, <1>7 DEF Partition, Queued
  <2> QED
    BY <1>1, <1>6, <2>1 DEF Popped
<1>9. Queued' = Queued
  BY <1>1, <1>5, <1>8 DEF Queued
<1>10. Carrying' = Carrying /\ Carried' = Carried
  BY <1>1 DEF Carrying, Carried, GwPermits, transNum
<1>11. GwTypes'
  BY <1>0, <1>1, <1>4, <1>6 DEF GwTypes
<1>12. GwItems'
  <2>1. Partition(Queued', Carried', gwCounted'.send, gwCounted'.fail, gwCounted'.drop, gwPushed')
    BY <1>1, <1>7, <1>9, <1>10
  <2>2. \A j, k \in 1 .. Len(SenderQueue') : SenderQueue'[j] = SenderQueue'[k] => j = k
    <3>1. \A k \in 1 .. n - 1 : k \in 1 .. n
      OBVIOUS
    <3> QED
      BY <1>0, <1>2, <1>4, <3>1 DEF GwItems
  <2>3. InQueue' \cap gwOffered' = {} /\ Popped' \cap (InQueue' \cup gwOffered') = {}
    BY <1>0, <1>1, <1>5, <1>8 DEF GwItems
  <2>4. \A p, q \in Carrying' : gwGo'[p].batch = gwGo'[q].batch => p = q
    BY <1>0, <1>1, <1>10 DEF GwItems
  <2> QED
    BY <2>1, <2>2, <2>3, <2>4 DEF GwItems
<1>13. GwSent'
  BY <1>0, <1>1, <1>10 DEF GwSent
<1>14. GwCalls'
  BY <1>0, <1>1 DEF GwCalls, Calling, At, HostOf
<1> QED
  BY <1>11, <1>12, <1>13, <1>14 DEF GwInv

\* The batch that waits for a permit gets one, and a goroutine has it (Acquire, go).
LEMMA GwAcquireStep == ASSUME GwInv, NEW p \in GwPermits, AcquireAndGo(p) PROVE GwInv'
<1>0. GwTypes /\ GwItems /\ GwSent /\ GwCalls
  BY DEF GwInv
<1>1. /\ gwGo[p] = NoBatch /\ gwBatch \in Nat \ {0} /\ gwBatch' = 0
      /\ UNCHANGED <<gwPushed, gwOffered, SenderQueue, inProgress, gwTaken, gwCounted>>
  BY <1>0 DEF AcquireAndGo, GwTypes
<1>2. PICK i \in Nat \ {0} : i = gwBatch
  BY <1>1
<1>4. PICK g \in GwJob : gwGo' = [gwGo EXCEPT ![p] = g] /\ g.batch = i /\ g.pc = "look"
  <2>1. PICK start \in 1 .. transNum :
          gwGo' = [gwGo EXCEPT ![p] = [pc |-> "look", batch |-> i, idx |-> start,
                     left |-> transNum, rounds |-> IF Retry < 1 THEN 1 ELSE Retry]]
    BY <1>2 DEF AcquireAndGo
  <2>2. PICK r \in Nat : r = IF Retry < 1 THEN 1 ELSE Retry
    OBVIOUS
  <2> DEFINE g == [pc |-> "look", batch |-> i, idx |-> start, left |-> transNum, rounds |-> r]
  <2>3. g \in GwJob /\ g.batch = i /\ g.pc = "look"
    BY PermitsFinite DEF GwJob, GwPcs
  <2>4. gwGo' = [gwGo EXCEPT ![p] = g]
    BY <2>1, <2>2
  <2> HIDE DEF g
  <2> QED
    BY <2>3, <2>4
<1>5. \A q \in GwPermits : gwGo'[q] = IF q = p THEN g ELSE gwGo[q]
  BY <1>0, <1>4 DEF GwTypes
<1>7. GwTypes'
  <2>1. gwGo' \in [GwPermits -> {NoBatch} \cup GwJob]
    BY <1>0, <1>4 DEF GwTypes
  <2> QED
    BY <1>0, <1>1, <2>1 DEF GwTypes
<1>8. p \notin Carrying /\ Carrying' = Carrying \cup {p}
  <2>1. p \notin Carrying
    BY <1>1, IdleNotJob DEF Carrying
  <2>2. Carrying \subseteq GwPermits /\ Carrying' \subseteq GwPermits
    BY DEF Carrying, GwPermits, transNum
  <2>3. \A q \in GwPermits : q \in Carrying' <=> q \in Carrying \/ q = p
    BY <1>5 DEF Carrying
  <2> QED
    BY <2>1, <2>2, <2>3
<1>9. Carried' = Carried \cup {i}
  <2>1. \A q \in Carrying : gwGo'[q] = gwGo[q]
    BY <1>5, <1>8 DEF Carrying
  <2>2. gwGo'[p].batch = i
    BY <1>4, <1>5
  <2> QED
    BY <1>8, <2>1, <2>2 DEF Carried
<1>10. /\ InQueue' = InQueue /\ Popped = {i} /\ Popped' = {}
       /\ Queued' = Queued \ {i} /\ i \in Queued
  <2>1. InQueue' = InQueue /\ Popped = {i} /\ Popped' = {}
    BY <1>1, <1>2 DEF InQueue, Popped
  <2>2. i \notin InQueue \cup gwOffered
    BY <1>0, <2>1 DEF GwItems
  <2> QED
    BY <1>1, <2>1, <2>2 DEF Queued
<1>11. GwItems'
  <2>1. Partition(Queued, Carried, gwCounted.send, gwCounted.fail, gwCounted.drop, gwPushed)
    BY <1>0 DEF GwItems
  <2>2. Partition(Queued', Carried', gwCounted'.send, gwCounted'.fail, gwCounted'.drop, gwPushed')
    BY <1>1, <1>9, <1>10, <2>1 DEF Partition
  <2>3. InQueue' \cap gwOffered' = {} /\ Popped' \cap (InQueue' \cup gwOffered') = {}
    BY <1>0, <1>1, <1>10 DEF GwItems
  <2>8. \A j, k \in 1 .. Len(SenderQueue') : SenderQueue'[j] = SenderQueue'[k] => j = k
    BY <1>0, <1>1 DEF GwItems
  <2>4. i \notin Carried
    BY <1>10, <2>1 DEF Partition
  <2>5. \A q \in Carrying : gwGo'[q].batch = gwGo[q].batch /\ gwGo[q].batch # i
    BY <1>5, <1>8, <2>4 DEF Carrying, Carried
  <2>6. gwGo'[p].batch = i
    BY <1>4, <1>5
  <2>7. ASSUME NEW q \in Carrying', NEW r \in Carrying', gwGo'[q].batch = gwGo'[r].batch PROVE q = r
    <3>1. CASE q = p \/ r = p
      BY <1>8, <2>5, <2>6, <2>7, <3>1
    <3>2. CASE q # p /\ r # p
      BY <1>0, <1>8, <2>5, <2>7, <3>2 DEF GwItems
    <3> QED
      BY <3>1, <3>2
  <2> QED
    BY <2>2, <2>3, <2>7, <2>8 DEF GwItems
<1>12. GwSent'
  <2>1. ASSUME NEW q \in Carrying', gwGo'[q].pc = "sent" PROVE gwGo'[q].batch \in gwTaken'
    <3>1. q # p
      BY <1>4, <1>5, <2>1
    <3> QED
      BY <1>0, <1>1, <1>5, <1>8, <2>1, <3>1 DEF GwSent, Carrying
  <2> QED
    BY <1>0, <1>1, <2>1 DEF GwSent
<1>13. GwCalls'
  <2>1. gwGo[p].pc \notin {"call", "refused"} /\ g.pc \notin {"call", "refused"}
    BY <1>1, <1>4, IdleNotJob
  <2> QED
    BY <1>0, <1>1, <1>4, <2>1, NoCallMoves
<1> QED
  BY <1>7, <1>11, <1>12, <1>13 DEF GwInv

\* The statistics: the batch leaves the goroutine and is in one of the counters.
LEMMA GwAccountStep == ASSUME GwInv, NEW p \in GwPermits, Account(p) PROVE GwInv'
<1>0. GwTypes /\ GwItems /\ GwSent /\ GwCalls
  BY DEF GwInv
<1>1. /\ gwGo' = [gwGo EXCEPT ![p] = NoBatch] /\ gwGo[p].pc \in {"sent", "failed"}
      /\ UNCHANGED <<gwPushed, gwOffered, SenderQueue, gwBatch, inProgress, gwTaken>>
  BY DEF Account
<1>2. gwGo[p] \in GwJob
  BY <1>0, <1>1, IdleNotJob DEF GwTypes
<1>3. PICK i \in Nat : i = gwGo[p].batch
  BY <1>2 DEF GwJob
<1>4. /\ gwCounted' \in [send : SUBSET Nat, fail : SUBSET Nat, drop : SUBSET Nat]
      /\ gwCounted'.drop = gwCounted.drop
      /\ \/ /\ gwCounted'.send = gwCounted.send \cup {i} /\ gwCounted'.fail = gwCounted.fail
            /\ gwGo[p].pc = "sent"
         \/ gwCounted'.send = gwCounted.send /\ gwCounted'.fail = gwCounted.fail \cup {i}
  <2>1. CASE gwGo[p].pc = "sent"
    <3>1. gwCounted' = [gwCounted EXCEPT !.send = @ \cup {i}]
      BY <1>3, <2>1 DEF Account
    <3> QED
      BY <1>0, <2>1, <3>1 DEF GwTypes
  <2>2. CASE gwGo[p].pc # "sent"
    <3>1. gwCounted' = [gwCounted EXCEPT !.fail = @ \cup {i}]
      BY <1>3, <2>2 DEF Account
    <3> QED
      BY <1>0, <2>2, <3>1 DEF GwTypes
  <2> QED
    BY <2>1, <2>2
<1>5. \A q \in GwPermits : gwGo'[q] = IF q = p THEN NoBatch ELSE gwGo[q]
  BY <1>0, <1>1 DEF GwTypes
<1>6. GwTypes'
  <2>1. gwGo' \in [GwPermits -> {NoBatch} \cup GwJob]
    BY <1>0, <1>1 DEF GwTypes
  <2> QED
    BY <1>0, <1>1, <1>4, <2>1 DEF GwTypes
<1>7. p \in Carrying /\ Carrying' = Carrying \ {p}
  <2>1. p \in Carrying
    BY <1>2 DEF Carrying
  <2>2. Carrying \subseteq GwPermits /\ Carrying' \subseteq GwPermits
    BY DEF Carrying, GwPermits, transNum
  <2>3. \A q \in GwPermits : q \in Carrying' <=> q \in Carrying /\ q # p
    BY <1>5, IdleNotJob DEF Carrying
  <2> QED
    BY <2>1, <2>2, <2>3
<1>8. \A q \in Carrying' : q \in Carrying /\ q # p /\ gwGo'[q] = gwGo[q]
  BY <1>5, <1>7 DEF Carrying
<1>9. Carried' = Carried \ {i} /\ i \in Carried
  <2>1. i \in Carried
    BY <1>3, <1>7 DEF Carried
  <2>2. \A q \in Carrying : q # p => gwGo[q].batch # i
    BY <1>0, <1>3, <1>7 DEF GwItems
  <2>3. ASSUME NEW x \in Carried' PROVE x \in Carried \ {i}
    <3>1. PICK q \in Carrying' : x = gwGo'[q].batch
      BY DEF Carried
    <3>2. q \in Carrying /\ q # p /\ x = gwGo[q].batch
      BY <1>8, <3>1
    <3> QED
      BY <2>2, <3>2 DEF Carried
  <2>4. ASSUME NEW x \in Carried, x # i PROVE x \in Carried'
    <3>1. PICK q \in Carrying : x = gwGo[q].batch
      BY DEF Carried
    <3>2. q # p
      BY <1>3, <2>4, <3>1
    <3>3. q \in Carrying' /\ x = gwGo'[q].batch
      BY <1>7, <1>8, <3>1, <3>2
    <3> QED
      BY <3>3 DEF Carried
  <2> QED
    BY <2>1, <2>3, <2>4
<1>10. GwItems'
  <2>1. Partition(Queued, Carried, gwCounted.send, gwCounted.fail, gwCounted.drop, gwPushed)
    BY <1>0 DEF GwItems
  <2>2. Queued' = Queued /\ InQueue' = InQueue /\ Popped' = Popped
    BY <1>1 DEF Queued, InQueue, Popped
  <2>3. Partition(Queued', Carried', gwCounted'.send, gwCounted'.fail, gwCounted'.drop, gwPushed')
    <3>1. CASE gwCounted'.send = gwCounted.send \cup {i} /\ gwCounted'.fail = gwCounted.fail
      BY <1>1, <1>4, <1>9, <2>1, <2>2, <3>1 DEF Partition
    <3>2. CASE gwCounted'.send = gwCounted.send /\ gwCounted'.fail = gwCounted.fail \cup {i}
      BY <1>1, <1>4, <1>9, <2>1, <2>2, <3>2 DEF Partition
    <3> QED
      BY <1>4, <3>1, <3>2
  <2>4. \A q, r \in Carrying' : gwGo'[q].batch = gwGo'[r].batch => q = r
    BY <1>0, <1>8 DEF GwItems
  <2>5. \A j, k \in 1 .. Len(SenderQueue') : SenderQueue'[j] = SenderQueue'[k] => j = k
    BY <1>0, <1>1 DEF GwItems
  <2>6. InQueue' \cap gwOffered' = {} /\ Popped' \cap (InQueue' \cup gwOffered') = {}
    BY <1>0, <1>1, <2>2 DEF GwItems
  <2> QED
    BY <2>3, <2>4, <2>5, <2>6 DEF GwItems
<1>11. GwSent'
  <2>1. gwCounted'.send \subseteq gwTaken'
    BY <1>0, <1>1, <1>3, <1>4, <1>7 DEF GwSent
  <2>2. \A q \in Carrying' : gwGo'[q].pc = "sent" => gwGo'[q].batch \in gwTaken'
    BY <1>0, <1>1, <1>8 DEF GwSent
  <2> QED
    BY <2>1, <2>2 DEF GwSent
<1>12. GwCalls'
  <2>1. gwGo[p].pc \notin {"call", "refused"} /\ NoBatch.pc \notin {"call", "refused"}
    BY <1>1, IdleNotJob
  <2> HIDE DEF NoBatch
  <2> QED
    BY <1>0, <1>1, <2>1, NoCallMoves
<1> QED
  BY <1>6, <1>10, <1>11, <1>12 DEF GwInv

\* One step per action of forward2TransferTask, the loop over the transfers included.
LEMMA GwTaskStep == ASSUME GwInv, NEW p \in GwPermits, forward2TransferTask(p) PROVE GwInv'
<1>0. GwTypes /\ GwItems /\ GwSent /\ GwCalls /\ inProgress \in [Hosts -> Int]
  BY DEF GwInv, GwTypes
<1>j. gwGo[p].pc # "idle" => gwGo[p] \in GwJob
  BY <1>0, IdleNotJob DEF GwTypes
<1>1. CASE AcquireAndGo(p)
  BY <1>1, GwAcquireStep
<1>2. CASE LookBusy(p)
  <2>1. /\ gwGo[p].pc = "look" /\ Onwards(p)
        /\ UNCHANGED <<gwPushed, gwOffered, SenderQueue, gwBatch, inProgress, gwTaken, gwCounted>>
    BY <1>2 DEF LookBusy
  <2>2. gwGo[p] \in GwJob
    BY <1>j, <2>1
  <2>3. PICK g \in GwJob : /\ gwGo' = [gwGo EXCEPT ![p] = g]
                            /\ g.batch = gwGo[p].batch /\ g.pc \in {"look", "failed"}
    BY <1>0, <2>1, <2>2, WalkGoesOn
  <2>4. g.pc \notin {"call", "refused"} /\ gwGo[p].pc \notin {"call", "refused"}
    BY <2>1, <2>3
  <2>5. GwCalls'
    BY <1>0, <2>1, <2>3, <2>4, NoCallMoves
  <2> QED
    BY <1>0, <2>1, <2>2, <2>3, <2>5, GwWalk
<1>3. CASE LookFree(p)
  <2> DEFINE g == [gwGo[p] EXCEPT !.pc = "count"]
  <2>1. /\ gwGo[p].pc = "look" /\ gwGo' = [gwGo EXCEPT ![p] = g]
        /\ UNCHANGED <<gwPushed, gwOffered, SenderQueue, gwBatch, inProgress, gwTaken, gwCounted>>
    BY <1>3 DEF LookFree
  <2>2. gwGo[p] \in GwJob
    BY <1>j, <2>1
  <2>3. g \in GwJob /\ g.batch = gwGo[p].batch /\ g.pc = "count"
    BY <2>2 DEF GwJob, GwPcs
  <2> HIDE DEF g
  <2>4. GwCalls'
    BY <1>0, <2>1, <2>3, NoCallMoves
  <2> QED
    BY <1>0, <2>1, <2>2, <2>3, <2>4, GwWalk
<1>4. CASE CountUp(p)
  <2>1. PICK x \in {"call", "refused"} : gwGo' = [gwGo EXCEPT ![p] = [gwGo[p] EXCEPT !.pc = x]]
    BY <1>4 DEF CountUp
  <2> DEFINE g == [gwGo[p] EXCEPT !.pc = x]
  <2>2. /\ gwGo[p].pc = "count" /\ inProgress' = [inProgress EXCEPT ![HostOf(p)] = @ + 1]
        /\ gwGo' = [gwGo EXCEPT ![p] = g]
        /\ UNCHANGED <<gwPushed, gwOffered, SenderQueue, gwBatch, gwTaken, gwCounted>>
    BY <1>4, <2>1 DEF CountUp
  <2>3. gwGo[p] \in GwJob /\ HostOf(p) \in Hosts
    BY <1>j, <2>2, HostIsHost
  <2>4. g \in GwJob /\ g.batch = gwGo[p].batch /\ g.idx = gwGo[p].idx /\ g.pc = x
    BY <2>3 DEF GwJob, GwPcs
  <2> HIDE DEF g
  <2>5. g.pc \in {"call", "refused"} /\ g.pc # "sent" /\ gwGo[p].pc \notin {"call", "refused"}
    BY <2>2, <2>4
  <2>6. GwCalls' /\ inProgress' \in [Hosts -> Int]
    BY <1>0, <2>2, <2>3, <2>4, <2>5, CallBegins
  <2> QED
    BY <1>0, <2>2, <2>3, <2>4, <2>5, <2>6, GwWalk
<1>5. CASE CallOk(p)
  <2> DEFINE g == [gwGo[p] EXCEPT !.pc = "sent"]
  <2>1. /\ gwGo[p].pc = "call" /\ gwGo' = [gwGo EXCEPT ![p] = g]
        /\ inProgress' = [inProgress EXCEPT ![HostOf(p)] = @ - 1]
        /\ gwTaken' = gwTaken \cup {gwGo[p].batch}
        /\ UNCHANGED <<gwPushed, gwOffered, SenderQueue, gwBatch, gwCounted>>
    BY <1>5 DEF CallOk
  <2>2. gwGo[p] \in GwJob /\ HostOf(p) \in Hosts
    BY <1>j, <2>1, HostIsHost
  <2>3. g \in GwJob /\ g.batch = gwGo[p].batch /\ g.pc = "sent"
    BY <2>2 DEF GwJob, GwPcs
  <2> HIDE DEF g
  <2>4. GwCalls' /\ inProgress' \in [Hosts -> Int]
    BY <1>0, <2>1, <2>2, <2>3, CallEnds
  <2>5. gwTaken \subseteq gwTaken' /\ g.batch \in gwTaken'
    BY <2>1, <2>3
  <2> QED
    BY <1>0, <2>1, <2>2, <2>3, <2>4, <2>5, GwWalk
<1>6. CASE CallErr(p)
  <2>1. /\ gwGo[p].pc \in {"call", "refused"} /\ Onwards(p) /\ MayArrive(p)
        /\ inProgress' = [inProgress EXCEPT ![HostOf(p)] = @ - 1]
        /\ UNCHANGED <<gwPushed, gwOffered, SenderQueue, gwBatch, gwCounted>>
    BY <1>6 DEF CallErr
  <2>2. gwGo[p] \in GwJob /\ HostOf(p) \in Hosts
    BY <1>j, <2>1, HostIsHost
  <2>3. PICK g \in GwJob : /\ gwGo' = [gwGo EXCEPT ![p] = g]
                            /\ g.batch = gwGo[p].batch /\ g.pc \in {"look", "failed"}
    BY <1>0, <2>1, <2>2, WalkGoesOn
  <2>4. g.pc \notin {"call", "refused"} /\ g.pc # "sent"
    BY <2>3
  <2>5. GwCalls' /\ inProgress' \in [Hosts -> Int]
    BY <1>0, <2>1, <2>2, <2>3, <2>4, CallEnds
  <2>6. gwTaken \subseteq gwTaken'
    BY <2>1 DEF MayArrive
  <2> QED
    BY <1>0, <2>1, <2>2, <2>3, <2>4, <2>5, <2>6, GwWalk
<1>7. CASE Account(p)
  BY <1>7, GwAccountStep
<1> QED
  BY <1>1, <1>2, <1>3, <1>4, <1>5, <1>6, <1>7 DEF forward2TransferTask

\* In a partition an item has one holder, and one that was not received has none.
LEMMA GwInvBooks == GwInv => GatewayBooks
<1> SUFFICES ASSUME GwInv PROVE GatewayBooks
  OBVIOUS
<1>0. GwTypes /\ GwItems /\ GwSent /\ GwCalls
  BY DEF GwInv
<1>1. ASSUME NEW i \in 1 .. MaxGwBatches
      PROVE  Cardinality(Holders(i)) = IF i <= gwPushed THEN 1 ELSE 0
  <2> DEFINE inq == {<<"queue", k>> : k \in {j \in DOMAIN SenderQueue : SenderQueue[j] = i}}
             task == {<<"task", p>> : p \in {q \in GwPermits : gwGo[q].batch = i}}
             cnt == {<<c, 0>> : c \in {d \in {"send", "fail", "drop"} : i \in gwCounted[d]}}
             rec == {<<"receiver", j>> : j \in {i} \cap gwOffered}
             pop == {<<"popped", j>> : j \in {i} \cap {gwBatch}}
             wait == rec \cup pop \cup inq
  <2>1. Holders(i) = wait \cup task \cup cnt
    BY DEF Holders
  <2>d. DOMAIN SenderQueue = 1 .. Len(SenderQueue)
    BY <1>0, LenProperties DEF GwTypes
  <2>e. /\ i \notin InQueue => inq = {}
        /\ i \notin gwOffered => rec = {}
        /\ i \in gwOffered => rec = {<<"receiver", i>>}
        /\ i \notin Popped => pop = {}
        /\ i \in Popped => pop = {<<"popped", i>>}
    <3>1. i \notin InQueue => inq = {}
      BY <2>d DEF InQueue
    <3>2. i \in Popped <=> i = gwBatch
      BY <1>1 DEF Popped
    <3> QED
      BY <3>1, <3>2
  <2>2. i \notin Queued => wait = {}
    BY <2>e DEF Queued
  <2>3. i \in Queued => \E x : wait = {x}
    <3>1. CASE i \in InQueue
      <4>1. PICK k \in 1 .. Len(SenderQueue) : SenderQueue[k] = i
        BY <3>1 DEF InQueue
      <4>2. {j \in DOMAIN SenderQueue : SenderQueue[j] = i} = {k}
        BY <1>0, <2>d, <4>1 DEF GwItems
      <4>3. inq = {<<"queue", k>>}
        BY <4>2
      <4>4. rec = {} /\ pop = {}
        BY <1>0, <2>e, <3>1 DEF GwItems
      <4> QED
        BY <4>3, <4>4
    <3>2. CASE i \in gwOffered
      <4>1. inq = {} /\ pop = {} /\ rec = {<<"receiver", i>>}
        BY <1>0, <2>e, <3>2 DEF GwItems
      <4> QED
        BY <4>1
    <3>3. CASE i \in Popped
      <4>1. inq = {} /\ rec = {} /\ pop = {<<"popped", i>>}
        BY <1>0, <2>e, <3>3 DEF GwItems
      <4> QED
        BY <4>1
    <3> QED
      BY <3>1, <3>2, <3>3 DEF Queued
  <2>4. \A q \in GwPermits : gwGo[q].batch = i => q \in Carrying
    BY <1>0, <1>1, IdleNotJob DEF GwTypes, Carrying
  <2>5. i \notin Carried => task = {}
    BY <2>4 DEF Carried
  <2>6. i \in Carried => \E x : task = {x}
    <3> SUFFICES ASSUME i \in Carried PROVE \E x : task = {x}
      OBVIOUS
    <3>1. PICK p \in Carrying : gwGo[p].batch = i
      BY DEF Carried
    <3>2. {q \in GwPermits : gwGo[q].batch = i} = {p}
      BY <1>0, <2>4, <3>1 DEF GwItems, Carrying
    <3>3. task = {<<"task", p>>}
      BY <3>2
    <3> QED
      BY <3>3
  <2>7. /\ cnt = (IF i \in gwCounted.send THEN {<<"send", 0>>} ELSE {})
                  \cup (IF i \in gwCounted.fail THEN {<<"fail", 0>>} ELSE {})
                  \cup (IF i \in gwCounted.drop THEN {<<"drop", 0>>} ELSE {})
    OBVIOUS
  <2>8. Partition(Queued, Carried, gwCounted.send, gwCounted.fail, gwCounted.drop, gwPushed)
    BY <1>0 DEF GwItems
  <2>9. i \in 1 .. gwPushed <=> i <= gwPushed
    BY <1>0, <1>1 DEF GwTypes
  <2> HIDE DEF wait, task, cnt
  <2>10. CASE i <= gwPushed
    <3>1. \E x : Holders(i) = {x}
      <4>1. i \in Queued \cup Carried \cup gwCounted.send \cup gwCounted.fail \cup gwCounted.drop
        BY <2>8, <2>9, <2>10 DEF Partition
      <4>2. CASE i \in Queued
        <5>1. i \notin Carried \cup gwCounted.send \cup gwCounted.fail \cup gwCounted.drop
          BY <2>8, <4>2 DEF Partition
        <5>2. cnt = {} /\ task = {}
          BY <2>5, <2>7, <5>1
        <5> QED
          BY <2>1, <2>3, <4>2, <5>2
      <4>3. CASE i \in Carried
        <5>1. i \notin Queued \cup gwCounted.send \cup gwCounted.fail \cup gwCounted.drop
          BY <2>8, <4>3 DEF Partition
        <5>2. cnt = {} /\ wait = {}
          BY <2>2, <2>7, <5>1
        <5> QED
          BY <2>1, <2>6, <4>3, <5>2
      <4>4. CASE i \in gwCounted.send
        <5>1. i \notin Queued \cup Carried \cup gwCounted.fail \cup gwCounted.drop
          BY <2>8, <4>4 DEF Partition
        <5>2. cnt = {<<"send", 0>>} /\ wait = {} /\ task = {}
          BY <2>2, <2>5, <2>7, <4>4, <5>1
        <5> QED
          BY <2>1, <5>2
      <4>5. CASE i \in gwCounted.fail
        <5>1. i \notin Queued \cup Carried \cup gwCounted.send \cup gwCounted.drop
          BY <2>8, <4>5 DEF Partition
        <5>2. cnt = {<<"fail", 0>>} /\ wait = {} /\ task = {}
          BY <2>2, <2>5, <2>7, <4>5, <5>1
        <5> QED
          BY <2>1, <5>2
      <4>6. CASE i \in gwCounted.drop
        <5>1. i \notin Queued \cup Carried \cup gwCounted.send \cup gwCounted.fail
          BY <2>8, <4>6 DEF Partition
        <5>2. cnt = {<<"drop", 0>>} /\ wait = {} /\ task = {}
          BY <2>2, <2>5, <2>7, <4>6, <5>1
        <5> QED
          BY <2>1, <5>2
      <4> QED
        BY <4>1, <4>2, <4>3, <4>4, <4>5, <4>6
    <3> QED
      BY <2>10, <3>1, FS_Singleton
  <2>11. CASE ~(i <= gwPushed)
    <3>1. i \notin Queued \cup Carried \cup gwCounted.send \cup gwCounted.fail \cup gwCounted.drop
      BY <2>8, <2>9, <2>11 DEF Partition
    <3>2. wait = {} /\ task = {} /\ cnt = {}
      BY <2>2, <2>5, <2>7, <3>1
    <3>3. Holders(i) = {}
      BY <2>1, <3>2
    <3> QED
      BY <2>11, <3>3, FS_EmptySet
  <2> QED
    BY <2>10, <2>11
<1> QED
  BY <1>0, <1>1 DEF GatewayBooks, GwSent, GwCalls, Calling

\* The gateway's books hold for any transfers, semaphore, queue and number of
\* rounds: an item is in one place, once, what counts as sent was taken by a
\* transfer, and no transfer counts as busy with a call that has ended
\* (forward2TransferTask).
THEOREM GatewayKeepsBooks == GatewaySpec => []GatewayBooks
<1>1. GatewayInit => GwInv
  <2> SUFFICES ASSUME GatewayInit PROVE GwInv
    OBVIOUS
  <2>1. gwPushed = 0 /\ SenderQueue = <<>> /\ gwTaken = {} /\ gwOffered = {} /\ gwBatch = 0
    BY DEF GatewayInit
  <2>2. \A p \in GwPermits : gwGo[p] = NoBatch
    BY DEF GatewayInit
  <2>3. gwCounted.send = {} /\ gwCounted.fail = {} /\ gwCounted.drop = {}
    BY DEF GatewayInit
  <2>4. /\ Len(SenderQueue) = 0 /\ SenderQueue \in Seq(Nat)
        /\ Queued = {} /\ InQueue = {} /\ Popped = {}
    BY <2>1 DEF Queued, InQueue, Popped
  <2>5. Carrying = {} /\ Carried = {}
    <3>1. Carrying = {}
      BY <2>2, IdleNotJob DEF Carrying
    <3> QED
      BY <3>1 DEF Carried
  <2>6. GwTypes
    BY <2>1, <2>4 DEF GatewayInit, GwTypes
  <2>7. GwItems
    BY <2>1, <2>3, <2>4, <2>5 DEF GwItems, Partition
  <2>8. GwSent
    BY <2>3, <2>5 DEF GwSent
  <2>9. ASSUME NEW host \in Hosts PROVE inProgress[host] = Cardinality(Calling(host))
    <3>1. Calling(host) = {}
      BY <2>2, IdleNotJob DEF Calling, At
    <3>2. inProgress[host] = 0
      BY DEF GatewayInit
    <3> QED
      BY <3>1, <3>2, FS_EmptySet
  <2> QED
    BY <2>6, <2>7, <2>8, <2>9 DEF GwInv, GwCalls
<1>2. GwInv /\ [GatewayStep]_gatewayVars => GwInv'
  <2> SUFFICES ASSUME GwInv, [GatewayStep]_gatewayVars PROVE GwInv'
    OBVIOUS
  <2>1. CASE UNCHANGED gatewayVars
    <3>1. GwTypes'
      BY <2>1 DEF gatewayVars, GwInv, GwTypes
    <3>2. GwItems'
      BY <2>1 DEF gatewayVars, GwInv, GwItems, Carrying, Carried, Queued, InQueue, Popped,
                  GwPermits, transNum
    <3>3. GwSent'
      BY <2>1 DEF gatewayVars, GwInv, GwSent, Carrying, GwPermits, transNum
    <3>4. GwCalls'
      BY <2>1 DEF gatewayVars, GwInv, GwCalls, Calling, At, HostOf
    <3> QED
      BY <3>1, <3>2, <3>3, <3>4 DEF GwInv
  <2>2. CASE Push2SendQueue
    BY <2>2, GwPushStep
  <2>3. ASSUME NEW i \in gwOffered, PushFront(i) PROVE GwInv'
    BY <2>3, GwFrontStep
  <2>4. CASE PopBackBy
    BY <2>4, GwPopStep
  <2>5. ASSUME NEW p \in GwPermits, forward2TransferTask(p) PROVE GwInv'
    BY <2>5, GwTaskStep
  <2> QED
    BY <2>1, <2>2, <2>3, <2>4, <2>5 DEF GatewayStep
<1> QED
  BY <1>1, <1>2, GwInvBooks, PTL DEF GatewaySpec

----------------------------------------------------------------------------
(* A series on its way to its new node (modules/graph/rrdtool/migrate.go). *)

Stamps == 1 .. MaxTs
StoredStamps == 0 .. MaxTs
SeriesRec == [here : BOOLEAN, miss : BOOLEAN, items : Seq(Stamps)]
WorkerRec == [pc : {"idle", "mark", "pop", "call", "write", "out"}, what : {"fetch", "send"},
              miss : BOOLEAN, try : Nat, items : Seq(Stamps), body : SUBSET StoredStamps]
FileRec == [made : BOOLEAN, broken : BOOLEAN, pts : SUBSET StoredStamps]
OldRec == [made : BOOLEAN, pts : SUBSET StoredStamps, cached : SUBSET Stamps,
           inbox : SUBSET [items : Seq(Stamps), call : Nat]]
PastRec == [taken : SUBSET Stamps, dropped : SUBSET Stamps, cut : BOOLEAN]

MigTypes ==
    /\ series \in SeriesRec
    /\ worker \in [MigrateWorkers -> WorkerRec]
    /\ committing \in Seq(Stamps)
    /\ file \in FileRec /\ oldNode \in OldRec
    /\ past \in PastRec

\* The file is here, and one written in part only after a shutdown found it.
HasFile == file.made /\ (file.broken => past.cut)

\* The flag is off only when the file is here, for the series and for every
\* worker that will write the flag it read.
FlagInv ==
    /\ ~series.here => series.items = <<>> /\ (file.broken => past.cut)
    /\ series.here /\ ~series.miss => HasFile
    /\ committing # <<>> => HasFile
    /\ ~file.made => file.pts = {}
    /\ \A w \in MigrateWorkers : worker[w].pc # "idle" =>
         series.here /\ (~worker[w].miss => HasFile)

\* A file that is here, and whole, has the history, and so has one that is fetched.
BodyInv ==
    /\ History \in oldNode.pts /\ file.made /\ ~file.broken /\ ~past.cut => History \in file.pts
    /\ History \in oldNode.pts =>
         \A w \in MigrateWorkers : worker[w].pc = "write" => History \in worker[w].body

\* Only a worker that sends has points.
SendsOnly(r) ==
    /\ r.pc = "mark" \/ (r.pc = "call" /\ r.what = "fetch") => r.items = <<>>
    /\ r.pc = "pop" => r.what = "send"

FetchInv == \A w \in MigrateWorkers : SendsOnly(worker[w])

MigInv == MigTypes /\ FlagInv /\ BodyInv /\ FetchInv /\ MigrationKeeps

\* The places of a point, one by one.
Passed(p) == \E q \in file.pts \cup AtOldNode : q >= p
Kept(p) == p \in Range(series.items) \cup Range(committing) \cup InboxPts \cup WorkerPts \/ Passed(p)

\* What a step of the old node must see to: the history stays what it is, the
\* newest stored point does not get older, a request is handled or waits.
OldMoves ==
    /\ oldNode' \in OldRec
    /\ History \in oldNode'.pts <=> History \in oldNode.pts
    /\ \A q \in AtOldNode : \E t \in AtOldNode' : t >= q
    /\ \A q \in InboxPts : q \in InboxPts' \/ \E t \in AtOldNode' : t >= q

\* What is stored stays there, and for a written point there is one as new
\* (flushrrd, handleItems).
LEMMA AppendedFacts ==
    ASSUME NEW pts, pts \subseteq StoredStamps, NEW s \in Seq(Stamps)
    PROVE  /\ pts \subseteq Appended(pts, s) /\ Appended(pts, s) \subseteq pts \cup Stamps
           /\ \A x \in Range(s) : \E t \in Appended(pts, s) : t >= x
<1>1. Len(s) \in Nat /\ DOMAIN s = 1 .. Len(s) /\ \A i \in 1 .. Len(s) : s[i] \in Stamps
  BY LenProperties, ElementOfSeq
<1>s. Stamps \subseteq StoredStamps /\ StoredStamps \subseteq Nat
  BY DEF Stamps, StoredStamps
<1>2. pts \subseteq Appended(pts, s)
  BY DEF Appended
<1>3. Appended(pts, s) \subseteq pts \cup Stamps
  BY <1>1, <1>s DEF Appended
<1>4. ASSUME NEW x \in Range(s) PROVE \E t \in Appended(pts, s) : t >= x
  <2> DEFINE J == {j \in 1 .. Len(s) : s[j] >= x}
  <2>1. PICK i \in 1 .. Len(s) : x = s[i]
    BY <1>1 DEF Range
  <2>n. x \in Nat
    BY <1>1, <1>s, <2>1
  <2>2. x \in Nat /\ i \in J /\ J \subseteq Nat
    BY <1>1, <2>1, <2>n
  <2> HIDE DEF J
  <2>3. PICK k \in J : \A j \in J : k <= j
    BY <2>2, LeastStamp
  <2>4. k \in 1 .. Len(s) /\ s[k] >= x /\ s[k] \in Nat
    BY <1>1, <1>s, <2>3 DEF J
  <2>5. \A j \in 1 .. k - 1 : s[j] < s[k]
    <3> SUFFICES ASSUME NEW j \in 1 .. k - 1 PROVE s[j] < s[k]
      OBVIOUS
    <3>0. j \in 1 .. Len(s) /\ ~(k <= j)
      BY <1>1, <2>4
    <3>1. j \in 1 .. Len(s) /\ ~(k <= j) /\ s[j] \in Nat
      BY <1>1, <1>s, <3>0
    <3>2. ~(s[j] >= x)
      BY <2>3, <3>1 DEF J
    <3> QED
      BY <2>2, <2>4, <3>1, <3>2
  <2>6. CASE \A t \in pts : t < s[k]
    <3>1. s[k] \in Appended(pts, s)
      BY <1>1, <2>4, <2>5, <2>6 DEF Appended
    <3> QED
      BY <2>2, <2>4, <3>1
  <2>7. CASE \E t \in pts : ~(t < s[k])
    <3>1. PICK t \in pts : ~(t < s[k])
      BY <2>7
    <3>2. t \in Nat /\ t \in Appended(pts, s)
      BY <1>2, <1>s
    <3> QED
      BY <2>2, <2>4, <3>1, <3>2
  <2> QED
    BY <2>6, <2>7
<1> QED
  BY <1>2, <1>3, <1>4

\* One worker moves.
LEMMA WorkerMoves ==
    ASSUME worker \in [MigrateWorkers -> WorkerRec], NEW w \in MigrateWorkers,
           NEW r \in WorkerRec, Worker(w, r)
    PROVE  /\ worker' \in [MigrateWorkers -> WorkerRec] /\ worker'[w] = r
           /\ \A v \in MigrateWorkers : v # w => worker'[v] = worker[v]
BY DEF Worker

\* A point that was taken and not dropped is kept.
LEMMA KeepsKept == MigrationKeeps <=> \A p \in past.taken \ past.dropped : Kept(p)
  BY DEF MigrationKeeps, Kept, Passed

\* No point is lost when those of the list, the commit and the workers are seen to.
LEMMA KeepsStep ==
    ASSUME MigInv, OldMoves, file' \in FileRec, file.pts \subseteq file'.pts,
           past' \in PastRec, past.dropped \subseteq past'.dropped,
           \A p \in past'.taken \ past.taken : p \in Range(series'.items),
           \A p \in (Range(series.items) \cup Range(committing) \cup WorkerPts) \ past'.dropped : Kept(p)'
    PROVE  MigrationKeeps'
<1>1. StoredStamps \subseteq Nat /\ Stamps \subseteq StoredStamps
  BY DEF StoredStamps, Stamps
<1>2. /\ AtOldNode \subseteq StoredStamps /\ AtOldNode' \subseteq StoredStamps
      /\ file.pts \subseteq StoredStamps /\ file'.pts \subseteq StoredStamps
  BY <1>1 DEF AtOldNode, OldMoves, MigInv, MigTypes, OldRec, FileRec
<1>3. past.taken \subseteq Stamps /\ past'.taken \subseteq Stamps
  BY DEF MigInv, MigTypes, PastRec
<1>4. ASSUME NEW p \in past'.taken \ past'.dropped PROVE Kept(p)'
  <2>1. p \in Nat
    BY <1>1, <1>3
  <2>2. CASE p \notin past.taken
    <3>1. p \in Range(series'.items)
      BY <2>2
    <3> QED
      BY <3>1 DEF Kept
  <2>3. CASE p \in past.taken
    <3>1. p \in past.taken \ past.dropped
      BY <2>3
    <3>2. Kept(p)
      BY <3>1, KeepsKept DEF MigInv
    <3>3. CASE p \in Range(series.items) \cup Range(committing) \cup WorkerPts
      BY <3>3
    <3>4. CASE p \in InboxPts
      <4>1. p \in InboxPts' \/ \E t \in AtOldNode' : t >= p
        BY <3>4 DEF OldMoves
      <4> QED
        BY <4>1 DEF Kept, Passed
    <3>5. CASE Passed(p)
      <4>1. PICK q \in file.pts \cup AtOldNode : q >= p
        BY <3>5 DEF Passed
      <4>2. CASE q \in file.pts
        BY <4>1, <4>2 DEF Kept, Passed
      <4>3. CASE q \in AtOldNode
        <5>1. PICK t \in AtOldNode' : t >= q
          BY <4>3 DEF OldMoves
        <5>2. t \in Nat /\ q \in Nat
          BY <1>1, <1>2, <4>3
        <5>3. t >= p
          BY <2>1, <4>1, <5>1, <5>2
        <5> QED
          BY <5>3 DEF Kept, Passed
      <4> QED
        BY <4>1, <4>2, <4>3
    <3> QED
      BY <3>2, <3>3, <3>4, <3>5 DEF Kept
  <2> QED
    BY <2>2, <2>3
<1>5. (MigrationKeeps <=> \A p \in past.taken \ past.dropped : Kept(p))'
  BY KeepsKept, PTL
<1> QED
  BY <1>4, <1>5

\* What a step of a worker must see to: the flag, the history, the points.
LEMMA WorkerStep ==
    ASSUME MigInv, NEW w \in MigrateWorkers, NEW r \in WorkerRec, Worker(w, r),
           committing' = committing, past' = past, OldMoves,
           series' \in SeriesRec, series'.here = series.here,
           ~series.here => series'.items = <<>>,
           series.here /\ ~series'.miss => HasFile',
           file' \in FileRec, file.made => file' = file, series.here \/ file' = file,
           ~file'.made => file'.pts = {},
           ~file.made /\ file'.made /\ ~file'.broken /\ History \in oldNode.pts => History \in file'.pts,
           r.pc # "idle" => series.here /\ (~r.miss => HasFile'),
           r.pc = "write" /\ History \in oldNode.pts => History \in r.body,
           SendsOnly(r),
           Range(series.items) \cup PointsOf(w) \subseteq
               Range(series'.items) \cup InboxPts' \cup (IF r.pc = "call" THEN Range(r.items) ELSE {})
    PROVE  MigInv'
<1>1. /\ worker' \in [MigrateWorkers -> WorkerRec] /\ worker'[w] = r
      /\ \A v \in MigrateWorkers : v # w => worker'[v] = worker[v]
  BY WorkerMoves DEF MigInv, MigTypes
<1>2. MigTypes'
  BY <1>1 DEF MigInv, MigTypes, OldMoves
<1>3. FlagInv'
  <2>1. HasFile => HasFile'
    BY DEF HasFile
  <2>2. ~series'.here => series'.items = <<>> /\ (file'.broken => past'.cut)
    BY DEF MigInv, FlagInv
  <2>3. committing' # <<>> => HasFile'
    BY <2>1 DEF MigInv, FlagInv
  <2>4. ASSUME NEW v \in MigrateWorkers, worker'[v].pc # "idle"
        PROVE  series'.here /\ (~worker'[v].miss => HasFile')
    <3>1. CASE v = w
      BY <1>1, <2>4, <3>1
    <3>2. CASE v # w
      BY <1>1, <2>1, <2>4, <3>2 DEF MigInv, FlagInv
    <3> QED
      BY <3>1, <3>2
  <2> QED
    BY <2>2, <2>3, <2>4 DEF FlagInv
<1>4. BodyInv'
  <2>1. History \in oldNode'.pts <=> History \in oldNode.pts
    BY DEF OldMoves
  <2> QED
    BY <1>1, <2>1 DEF MigInv, BodyInv
<1>5. FetchInv'
  BY <1>1 DEF MigInv, FetchInv
<1>6. MigrationKeeps'
  <2>1. /\ \A v \in MigrateWorkers : v # w => PointsOf(v)' = PointsOf(v)
        /\ PointsOf(w)' = IF r.pc = "call" THEN Range(r.items) ELSE {}
    BY <1>1 DEF PointsOf
  <2>2. file.pts \subseteq file'.pts /\ past' \in PastRec
    BY DEF MigInv, MigTypes, FlagInv
  <2>3. ASSUME NEW p \in (Range(series.items) \cup Range(committing) \cup WorkerPts) \ past'.dropped
        PROVE  Kept(p)'
    <3>1. CASE p \in Range(series.items) \cup PointsOf(w)
      <4>1. p \in Range(series'.items) \cup InboxPts' \cup PointsOf(w)'
        BY <2>1, <3>1
      <4> QED
        BY <4>1 DEF Kept, WorkerPts
    <3>2. CASE p \in Range(committing)
      BY <3>2 DEF Kept
    <3>3. CASE \E v \in MigrateWorkers : v # w /\ p \in PointsOf(v)
      BY <2>1, <3>3 DEF Kept, WorkerPts
    <3> QED
      BY <2>3, <3>1, <3>2, <3>3 DEF WorkerPts
  <2>4. /\ past.dropped \subseteq past'.dropped
        /\ \A p \in past'.taken \ past.taken : p \in Range(series'.items)
    OBVIOUS
  <2> QED
    BY <2>2, <2>3, <2>4, KeepsStep
<1> QED
  BY <1>2, <1>3, <1>4, <1>5, <1>6 DEF MigInv

\* The fields of the records, and the points a worker has.
LEMMA MigFields ==
    ASSUME MigInv
    PROVE  /\ series.here \in BOOLEAN /\ series.miss \in BOOLEAN /\ series.items \in Seq(Stamps)
           /\ file.made \in BOOLEAN /\ file.broken \in BOOLEAN /\ file.pts \subseteq StoredStamps
           /\ oldNode.made \in BOOLEAN /\ oldNode.pts \subseteq StoredStamps
           /\ oldNode.cached \subseteq Stamps
           /\ oldNode.inbox \subseteq [items : Seq(Stamps), call : Nat]
           /\ \A w \in MigrateWorkers :
                /\ worker[w] \in WorkerRec /\ worker[w].miss \in BOOLEAN
                /\ worker[w].items \in Seq(Stamps) /\ worker[w].body \subseteq StoredStamps
                /\ worker[w].try \in Nat /\ worker[w].what \in {"fetch", "send"}
                /\ worker[w].pc \in {"idle", "mark", "pop", "call", "write", "out"}
           /\ IdleWorker \in WorkerRec
<1>1. IdleWorker \in WorkerRec
  <2>1. <<>> \in Seq(Stamps)
    OBVIOUS
  <2> QED
    BY <2>1 DEF IdleWorker, WorkerRec
<1>2. \A w \in MigrateWorkers : worker[w] \in WorkerRec
  BY DEF MigInv, MigTypes
<1>3. ASSUME NEW r \in WorkerRec
      PROVE  /\ r.miss \in BOOLEAN
             /\ r.items \in Seq(Stamps) /\ r.body \subseteq StoredStamps
             /\ r.try \in Nat /\ r.what \in {"fetch", "send"}
             /\ r.pc \in {"idle", "mark", "pop", "call", "write", "out"}
  BY DEF WorkerRec
<1>4. /\ series.here \in BOOLEAN /\ series.miss \in BOOLEAN /\ series.items \in Seq(Stamps)
      /\ file.made \in BOOLEAN /\ file.broken \in BOOLEAN /\ file.pts \subseteq StoredStamps
      /\ oldNode.made \in BOOLEAN /\ oldNode.pts \subseteq StoredStamps
      /\ oldNode.cached \subseteq Stamps
      /\ oldNode.inbox \subseteq [items : Seq(Stamps), call : Nat]
  BY DEF MigInv, MigTypes, SeriesRec, FileRec, OldRec
<1> QED
  BY <1>1, <1>2, <1>3, <1>4

\* The old node does nothing.
LEMMA OldStays == MigInv /\ oldNode' = oldNode => OldMoves
<1> SUFFICES ASSUME MigInv, oldNode' = oldNode PROVE OldMoves
  OBVIOUS
<1>1. AtOldNode' = AtOldNode /\ InboxPts' = InboxPts
  BY DEF AtOldNode, InboxPts
<1>2. AtOldNode \subseteq Nat
  BY MigFields DEF AtOldNode, StoredStamps, Stamps
<1>3. \A q \in AtOldNode : q >= q
  BY <1>2
<1> QED
  BY <1>1, <1>3 DEF OldMoves, MigInv, MigTypes

\* It flushes its list: a point that is not newer than the file's is overtaken.
LEMMA OldFlushes == MigInv /\ oldNode' = OldFlushed => OldMoves
<1> SUFFICES ASSUME MigInv, oldNode' = OldFlushed PROVE OldMoves
  OBVIOUS
<1>1. PICK m \in BOOLEAN : m = (oldNode.made \/ oldNode.cached # {})
  OBVIOUS
<1>2. PICK e \in SUBSET Stamps : e = {}
  OBVIOUS
<1>3. PICK P : P = oldNode.pts \cup {t \in oldNode.cached : \A u \in oldNode.pts : u < t}
  OBVIOUS
<1>4. oldNode' = [oldNode EXCEPT !.made = m, !.cached = e, !.pts = P]
  BY <1>1, <1>2, <1>3 DEF OldFlushed
<1>5. Stamps \subseteq Nat /\ StoredStamps \subseteq Nat /\ Stamps \subseteq StoredStamps /\ History \notin Stamps
  BY DEF Stamps, StoredStamps, History
<1>6. P \subseteq StoredStamps
  BY <1>3, <1>5, MigFields
<1>7. oldNode \in OldRec
  BY DEF MigInv, MigTypes
<1>8. /\ oldNode' \in OldRec /\ oldNode'.pts = P /\ oldNode'.cached = {}
      /\ oldNode'.inbox = oldNode.inbox
  BY <1>2, <1>4, <1>6, <1>7 DEF OldRec
<1>9. InboxPts' = InboxPts /\ AtOldNode' = P
  BY <1>8 DEF InboxPts, AtOldNode
<1>10. History \in oldNode'.pts <=> History \in oldNode.pts
  BY <1>3, <1>5, <1>8, MigFields
<1>11. ASSUME NEW q \in AtOldNode PROVE \E t \in AtOldNode' : t >= q
  <2>1. q \in Nat /\ (q \in oldNode.pts \/ q \in oldNode.cached)
    BY <1>5, MigFields DEF AtOldNode
  <2>2. CASE q \in P
    <3>1. q >= q
      BY <2>1
    <3> QED
      BY <1>9, <2>2, <3>1
  <2>3. CASE q \notin P
    <3>1. PICK u \in oldNode.pts : ~(u < q)
      BY <1>3, <2>1, <2>3
    <3>2. u \in P /\ u \in Nat
      BY <1>3, <1>5, MigFields
    <3>3. u >= q
      BY <2>1, <3>1, <3>2
    <3> QED
      BY <1>9, <3>2, <3>3
  <2> QED
    BY <2>2, <2>3
<1> QED
  BY <1>8, <1>9, <1>10, <1>11 DEF OldMoves

\* A worker whose step leaves the file and its own points alone.
LEMMA QuietWorkerStep ==
    ASSUME MigInv, NEW w \in MigrateWorkers, NEW r \in WorkerRec, Worker(w, r),
           UNCHANGED <<committing, past, file>>, OldMoves,
           series' = series \/ (SetFlag(worker[w].miss) /\ worker[w].pc # "idle"),
           r.pc # "idle" => series.here /\ (~r.miss => HasFile),
           r.pc # "write",
           SendsOnly(r),
           PointsOf(w) \subseteq (IF r.pc = "call" THEN Range(r.items) ELSE {})
    PROVE  MigInv'
<1>0. HasFile' <=> HasFile
  BY DEF HasFile
<1>1. /\ series' \in SeriesRec /\ series'.here = series.here /\ series'.items = series.items
      /\ (~series'.miss /\ series.here => HasFile)
  <2>1. CASE series' = series
    BY <2>1 DEF MigInv, MigTypes, FlagInv
  <2>2. CASE SetFlag(worker[w].miss) /\ worker[w].pc # "idle"
    <3>1. PICK b \in BOOLEAN : b = worker[w].miss
      BY MigFields
    <3>2. series.here /\ (~b => HasFile)
      BY <2>2, <3>1 DEF MigInv, FlagInv
    <3>3. series' = [series EXCEPT !.miss = b]
      BY <2>2, <3>1, <3>2 DEF SetFlag
    <3>4. series \in SeriesRec
      BY DEF MigInv, MigTypes
    <3> QED
      BY <3>2, <3>3, <3>4 DEF SeriesRec
  <2> QED
    BY <2>1, <2>2
<1>2. /\ file \in FileRec /\ (~file.made => file.pts = {})
      /\ (~series.here => series.items = <<>>)
      /\ file' = file /\ committing' = committing /\ past' = past
  BY DEF MigInv, MigTypes, FlagInv
<1> HIDE DEF SetFlag
<1> QED
  BY <1>0, <1>1, <1>2, WorkerStep

\* A task is taken, the flag read.
LEMMA TakeTaskStep == ASSUME MigInv, NEW w \in MigrateWorkers, TakeTask(w) PROVE MigInv'
<1>1. PICK what \in {"fetch", "send"} :
        Worker(w, IF series.here
                  THEN [IdleWorker EXCEPT !.pc = "mark", !.what = what, !.miss = series.miss]
                  ELSE IdleWorker)
  BY DEF TakeTask
<1>2. PICK r : r = IF series.here
                   THEN [IdleWorker EXCEPT !.pc = "mark", !.what = what, !.miss = series.miss]
                   ELSE IdleWorker
  OBVIOUS
<1>3. /\ r \in WorkerRec /\ r.items = <<>> /\ r.pc \in {"idle", "mark"}
      /\ (r.pc # "idle" => series.here /\ r.miss = series.miss)
  BY <1>2, MigFields DEF IdleWorker, WorkerRec
<1>4. Worker(w, r) /\ worker[w].pc = "idle" /\ UNCHANGED <<series, committing, past, file, oldNode>>
  BY <1>1, <1>2 DEF TakeTask
<1>5. PointsOf(w) = {}
  BY <1>4 DEF PointsOf
<1>6. r.pc # "idle" => series.here /\ (~r.miss => HasFile)
  BY <1>3 DEF MigInv, FlagInv
<1>7. SendsOnly(r)
  BY <1>3 DEF SendsOnly
<1> QED
  <2>1. PointsOf(w) \subseteq (IF r.pc = "call" THEN Range(r.items) ELSE {}) /\ r.pc # "write"
    BY <1>3, <1>5
  <2>2. /\ r \in WorkerRec /\ UNCHANGED <<committing, past, file>> /\ OldMoves /\ Worker(w, r)
        /\ (series' = series \/ (SetFlag(worker[w].miss) /\ worker[w].pc # "idle"))
    BY <1>3, <1>4, OldStays
  <2> QED
    BY <2>1, <2>2, <1>6, <1>7, QuietWorkerStep

\* The flag that was read is written back at once.
LEMMA MarkFlagStep == ASSUME MigInv, NEW w \in MigrateWorkers, MarkFlag(w) PROVE MigInv'
<1>1. PICK pc \in {"pop", "call"} : pc = IF worker[w].what = "send" THEN "pop" ELSE "call"
  OBVIOUS
<1>2. PICK r : r = [worker[w] EXCEPT !.pc = pc]
  OBVIOUS
<1>3. /\ r \in WorkerRec /\ r.pc = pc /\ r.items = worker[w].items /\ r.miss = worker[w].miss
  BY <1>2, MigFields DEF WorkerRec
<1>4. /\ Worker(w, r) /\ worker[w].pc = "mark" /\ SetFlag(worker[w].miss)
      /\ UNCHANGED <<committing, past, file, oldNode>>
  BY <1>1, <1>2 DEF MarkFlag
<1>5. PointsOf(w) = {} /\ r.items = <<>>
  BY <1>3, <1>4 DEF PointsOf, MigInv, FetchInv, SendsOnly
<1>6. r.pc # "idle" => series.here /\ (~r.miss => HasFile)
  BY <1>3, <1>4 DEF MigInv, FlagInv
<1>7. SendsOnly(r)
  BY <1>1, <1>2, <1>3, <1>5, MigFields DEF SendsOnly
<1> QED
  BY <1>1, <1>3, <1>4, <1>5, <1>6, <1>7, OldStays, QuietWorkerStep

\* The flag of before is written back at the end.
LEMMA TaskDoneStep == ASSUME MigInv, NEW w \in MigrateWorkers, TaskDone(w) PROVE MigInv'
<1>1. PICK r \in WorkerRec : r = IdleWorker
  BY MigFields
<1>2. r.pc = "idle"
  BY <1>1 DEF IdleWorker
<1>3. /\ Worker(w, r) /\ worker[w].pc = "out" /\ SetFlag(worker[w].miss)
      /\ UNCHANGED <<committing, past, file, oldNode>>
  BY <1>1 DEF TaskDone
<1>4. PointsOf(w) = {}
  BY <1>3 DEF PointsOf
<1>5. SendsOnly(r)
  BY <1>2 DEF SendsOnly
<1> QED
  BY <1>2, <1>3, <1>4, <1>5, OldStays, QuietWorkerStep

\* A fetch is tried again, or given up.
LEMMA GetRrdFailsStep == ASSUME MigInv, NEW w \in MigrateWorkers, GetRrdFails(w) PROVE MigInv'
<1>1. PICK r : r = IF worker[w].try < MaxTries THEN [worker[w] EXCEPT !.try = worker[w].try + 1]
                   ELSE [worker[w] EXCEPT !.pc = "out"]
  OBVIOUS
<1>2. /\ r \in WorkerRec /\ r.pc \in {"out", worker[w].pc} /\ r.items = worker[w].items
      /\ r.miss = worker[w].miss /\ r.what = worker[w].what
  <2>1. worker[w] \in WorkerRec /\ worker[w].try + 1 \in Nat
    BY MigFields
  <2>2. CASE worker[w].try < MaxTries
    BY <1>1, <2>1, <2>2 DEF WorkerRec
  <2>3. CASE ~(worker[w].try < MaxTries)
    BY <1>1, <2>1, <2>3 DEF WorkerRec
  <2> QED
    BY <2>2, <2>3
<1>3. /\ Worker(w, r) /\ worker[w].pc = "call" /\ worker[w].what = "fetch"
      /\ UNCHANGED <<series, committing, past, file>> /\ oldNode' \in {oldNode, OldFlushed}
  BY <1>1 DEF GetRrdFails
<1>4. PointsOf(w) = {} /\ r.items = <<>>
  BY <1>2, <1>3 DEF PointsOf, MigInv, FetchInv, SendsOnly, Range
<1>5. r.pc # "idle" => series.here /\ (~r.miss => HasFile)
  BY <1>2, <1>3 DEF MigInv, FlagInv
<1>6. SendsOnly(r)
  BY <1>2, <1>3, <1>4 DEF SendsOnly
<1> QED
  BY <1>2, <1>3, <1>4, <1>5, <1>6, OldStays, OldFlushes, QuietWorkerStep

\* What is fetched has the history.
LEMMA GetRrdStep == ASSUME MigInv, NEW w \in MigrateWorkers, GetRrd(w) PROVE MigInv'
<1>0. OldMoves /\ oldNode'.pts = OldFlushed.pts /\ oldNode'.pts \subseteq StoredStamps
  <2>1. OldMoves /\ oldNode' = OldFlushed
    BY OldFlushes DEF GetRrd
  <2> QED
    BY <2>1 DEF OldMoves, OldRec
<1>1. PICK P \in SUBSET StoredStamps : P = oldNode'.pts
  BY <1>0
<1>2. PICK r : r = [worker[w] EXCEPT !.pc = "write", !.body = P]
  OBVIOUS
<1>3. /\ r \in WorkerRec /\ r.pc = "write" /\ r.miss = worker[w].miss /\ r.body = P
  BY <1>2, MigFields DEF WorkerRec
<1>4. /\ Worker(w, r) /\ worker[w].pc = "call" /\ worker[w].what = "fetch"
      /\ series' = series /\ committing' = committing /\ past' = past /\ file' = file
  BY <1>0, <1>1, <1>2 DEF GetRrd
<1>5. PointsOf(w) = {} /\ SendsOnly(r)
  BY <1>3, <1>4 DEF PointsOf, MigInv, FetchInv, SendsOnly, Range
<1>6. /\ series.here /\ (~r.miss => HasFile) /\ (~series.miss => HasFile)
      /\ (~file.made => file.pts = {}) /\ (HasFile' <=> HasFile)
  BY <1>3, <1>4 DEF MigInv, FlagInv, HasFile
<1>7. series \in SeriesRec /\ file \in FileRec
  BY DEF MigInv, MigTypes
<1>8. History \in oldNode.pts => History \in r.body
  BY <1>0, <1>1, <1>3 DEF OldMoves
<1> QED
  BY <1>0, <1>3, <1>4, <1>5, <1>6, <1>7, <1>8, WorkerStep

\* The points of the list go to the worker.
LEMMA PopToSendStep == ASSUME MigInv, NEW w \in MigrateWorkers, PopToSend(w) PROVE MigInv'
<1>1. PICK s \in Seq(Stamps) : s = Reverse(series.items)
  <2>1. Reverse(series.items) \in Seq(Stamps)
    BY MigFields, Turned
  <2> QED
    BY <2>1
<1>2. PICK pc \in {"out", "call"} : pc = IF series.items = <<>> THEN "out" ELSE "call"
  OBVIOUS
<1>3. PICK r : r = [worker[w] EXCEPT !.pc = pc, !.items = s]
  OBVIOUS
<1>4. r \in WorkerRec /\ r.pc = pc /\ r.items = s /\ r.miss = worker[w].miss /\ r.what = worker[w].what
  BY <1>3, MigFields DEF WorkerRec
<1>5. /\ Worker(w, r) /\ worker[w].pc = "pop" /\ series' = [series EXCEPT !.items = <<>>]
      /\ committing' = committing /\ past' = past /\ file' = file /\ OldMoves
  BY <1>1, <1>2, <1>3, OldStays DEF PopToSend
<1>6. series \in SeriesRec /\ file \in FileRec
  BY DEF MigInv, MigTypes
<1>7. series' \in SeriesRec /\ series'.here = series.here /\ series'.miss = series.miss /\ series'.items = <<>>
  <2>1. <<>> \in Seq(Stamps)
    OBVIOUS
  <2> QED
    BY <1>5, <1>6, <2>1 DEF SeriesRec
<1>8. Range(s) = Range(series.items) /\ PointsOf(w) = {}
  BY <1>1, <1>5, MigFields, Turned DEF PointsOf
<1>9. /\ series.here /\ (~r.miss => HasFile) /\ (~series.miss => HasFile)
      /\ (~file.made => file.pts = {}) /\ (HasFile' <=> HasFile)
  BY <1>4, <1>5 DEF MigInv, FlagInv, HasFile
<1>10. SendsOnly(r)
  BY <1>2, <1>4, <1>5 DEF MigInv, FetchInv, SendsOnly
<1>11. series.items = <<>> => Range(series.items) = {}
  BY DEF Range
<1> QED
  BY <1>2, <1>4, <1>5, <1>6, <1>7, <1>8, <1>9, <1>10, <1>11, WorkerStep

\* What a call sent waits at the old node.
LEMMA SentFacts ==
    ASSUME MigInv, migrateFaults \in Nat, NEW w \in MigrateWorkers, SendArrives(w)
    PROVE  OldMoves /\ Range(worker[w].items) \subseteq InboxPts'
<1>1. PICK q \in [items : Seq(Stamps), call : Nat] : q = [items |-> worker[w].items, call |-> migrateFaults]
  BY MigFields
<1>2. PICK I : I = oldNode.inbox \cup {q}
  OBVIOUS
<1>3. I \subseteq [items : Seq(Stamps), call : Nat]
  BY <1>1, <1>2, MigFields
<1>4. oldNode' = [oldNode EXCEPT !.inbox = I] /\ oldNode \in OldRec
  BY <1>1, <1>2 DEF SendArrives, MigInv, MigTypes
<1>5. /\ oldNode' \in OldRec /\ oldNode'.pts = oldNode.pts /\ oldNode'.cached = oldNode.cached
      /\ oldNode'.inbox = I
  BY <1>3, <1>4 DEF OldRec
<1>6. AtOldNode' = AtOldNode /\ InboxPts \subseteq InboxPts' /\ Range(q.items) \subseteq InboxPts'
  BY <1>2, <1>5 DEF AtOldNode, InboxPts
<1>7. \A t \in AtOldNode : t >= t
  <2>1. AtOldNode \subseteq Nat
    BY MigFields DEF AtOldNode, StoredStamps, Stamps
  <2> QED
    BY <2>1
<1>8. q.items = worker[w].items
  BY <1>1
<1> QED
  BY <1>5, <1>6, <1>7, <1>8 DEF OldMoves

\* The points are on their way into the old node's list.
LEMMA SendDataStep ==
    ASSUME MigInv, migrateFaults \in Nat, NEW w \in MigrateWorkers, send_data(w) PROVE MigInv'
<1>0. PICK s \in Seq(Stamps) : s = <<>>
  <2>1. <<>> \in Seq(Stamps)
    OBVIOUS
  <2> QED
    BY <2>1
<1>1. PICK r : r = [worker[w] EXCEPT !.pc = "out", !.items = s]
  OBVIOUS
<1>2. r \in WorkerRec /\ r.pc = "out" /\ r.miss = worker[w].miss
  BY <1>1, MigFields DEF WorkerRec
<1>3. /\ Worker(w, r) /\ worker[w].pc = "call" /\ SendArrives(w)
      /\ series' = series /\ committing' = committing /\ past' = past /\ file' = file
  BY <1>0, <1>1 DEF send_data
<1>4. PointsOf(w) = Range(worker[w].items)
  BY <1>3 DEF PointsOf
<1>5. /\ series.here /\ (~r.miss => HasFile) /\ (~series.miss => HasFile)
      /\ (~file.made => file.pts = {}) /\ (HasFile' <=> HasFile)
  BY <1>2, <1>3 DEF MigInv, FlagInv, HasFile
<1>6. series \in SeriesRec /\ file \in FileRec
  BY DEF MigInv, MigTypes
<1>7. SendsOnly(r)
  BY <1>2 DEF SendsOnly
<1> QED
  BY <1>2, <1>3, <1>4, <1>5, <1>6, <1>7, SentFacts, WorkerStep

\* The points stay with the worker, or go back behind the list.
LEMMA SendFailsStep ==
    ASSUME MigInv, migrateFaults \in Nat, NEW w \in MigrateWorkers, sendFails(w) PROVE MigInv'
<1>1. /\ worker[w].pc = "call" /\ worker[w].what = "send"
      /\ committing' = committing /\ past' = past /\ file' = file
  BY DEF sendFails
<1>2. OldMoves
  <2>1. CASE SendArrives(w)
    BY <2>1, SentFacts
  <2>2. CASE oldNode' = oldNode
    BY <2>2, OldStays
  <2> QED
    BY <2>1, <2>2 DEF sendFails
<1>3. PointsOf(w) = Range(worker[w].items)
  BY <1>1 DEF PointsOf
<1>4. /\ series.here /\ (~worker[w].miss => HasFile) /\ (~series.miss => HasFile)
      /\ (~file.made => file.pts = {}) /\ (HasFile' <=> HasFile)
  BY <1>1 DEF MigInv, FlagInv, HasFile
<1>5. series \in SeriesRec /\ file \in FileRec
  BY DEF MigInv, MigTypes
<1>6. CASE worker[w].try < MaxTries
  <2>1. PICK r : r = [worker[w] EXCEPT !.try = worker[w].try + 1]
    OBVIOUS
  <2>2. /\ r \in WorkerRec /\ r.pc = worker[w].pc /\ r.miss = worker[w].miss
        /\ r.items = worker[w].items /\ r.what = worker[w].what
    <3>1. worker[w] \in WorkerRec /\ worker[w].try + 1 \in Nat
      BY MigFields
    <3> QED
      BY <2>1, <3>1 DEF WorkerRec
  <2>3. Worker(w, r) /\ series' = series
    BY <1>6, <2>1 DEF sendFails
  <2>4. SendsOnly(r)
    BY <1>1, <2>2 DEF SendsOnly
  <2> QED
    BY <1>1, <1>2, <1>3, <1>4, <1>5, <2>2, <2>3, <2>4, WorkerStep
<1>7. CASE ~(worker[w].try < MaxTries)
  <2>0. PICK s \in Seq(Stamps) : s = <<>>
    <3>1. <<>> \in Seq(Stamps)
      OBVIOUS
    <3> QED
      BY <3>1
  <2>1. PICK r : r = [worker[w] EXCEPT !.pc = "out", !.items = s]
    OBVIOUS
  <2>2. r \in WorkerRec /\ r.pc = "out" /\ r.miss = worker[w].miss
    BY <2>1, MigFields DEF WorkerRec
  <2>3. PICK back \in Seq(Stamps) : back = Reverse(worker[w].items)
    <3>1. Reverse(worker[w].items) \in Seq(Stamps)
      BY MigFields, Turned
    <3> QED
      BY <3>1
  <2>4. PICK l \in Seq(Stamps) : l = series.items \o back
    <3>1. series.items \o back \in Seq(Stamps)
      BY <2>3, MigFields, ConcatProperties
    <3> QED
      BY <3>1
  <2>5. Worker(w, r) /\ series' = [series EXCEPT !.items = l]
    BY <1>4, <1>7, <2>0, <2>1, <2>3, <2>4 DEF sendFails, PushAll
  <2>6. series' \in SeriesRec /\ series'.here = series.here /\ series'.miss = series.miss /\ series'.items = l
    BY <1>5, <2>5 DEF SeriesRec
  <2>7. Range(series.items) \cup PointsOf(w) \subseteq Range(l)
    <3>1. Range(back) = PointsOf(w)
      BY <1>3, <2>3, MigFields, Turned
    <3>2. Range(l) = Range(series.items) \cup Range(back)
      BY <2>4, MigFields, JoinedRange
    <3> QED
      BY <3>1, <3>2
  <2>8. SendsOnly(r)
    BY <2>2 DEF SendsOnly
  <2> QED
    BY <1>1, <1>2, <1>4, <1>5, <2>2, <2>5, <2>6, <2>7, <2>8, WorkerStep
<1> QED
  BY <1>6, <1>7

\* The fetched file is the first of this node, or is refused; a failing disk leaves
\* a part of it, and the flag as it was.
LEMMA FetchRrdStep == ASSUME MigInv, NEW w \in MigrateWorkers, fetch_rrd(w) PROVE MigInv'
<1>1. PICK written \in BOOLEAN :
        /\ IF written THEN writeFile(worker[w].body) ELSE writeFileFails
        /\ Worker(w, [worker[w] EXCEPT !.pc = "out", !.body = {}, !.miss = @ /\ ~written])
  BY DEF fetch_rrd
<1>2. PICK b \in BOOLEAN : b = (worker[w].miss /\ ~written)
  BY MigFields
<1>3. PICK e \in SUBSET StoredStamps : e = {}
  OBVIOUS
<1>4. PICK r : r = [worker[w] EXCEPT !.pc = "out", !.body = e, !.miss = b]
  OBVIOUS
<1>5. r \in WorkerRec /\ r.pc = "out" /\ r.miss = b
  BY <1>4, MigFields DEF WorkerRec
<1>6. /\ Worker(w, r) /\ worker[w].pc = "write"
      /\ series' = series /\ committing' = committing /\ past' = past /\ OldMoves
  BY <1>1, <1>2, <1>3, <1>4, OldStays DEF fetch_rrd
<1>7. series \in SeriesRec /\ file \in FileRec
  BY DEF MigInv, MigTypes
<1>8. /\ series.here /\ (~worker[w].miss => HasFile) /\ (~series.miss => HasFile)
      /\ (~file.made => file.pts = {})
      /\ (History \in oldNode.pts => History \in worker[w].body)
  BY <1>6 DEF MigInv, FlagInv, BodyInv
<1>9. /\ file' \in FileRec /\ (file.made => file' = file)
      /\ (~file'.made => file'.pts = {})
      /\ (~file.made /\ file'.made /\ ~file'.broken => file'.pts = worker[w].body)
      /\ (written => file'.made /\ ~file'.broken)
  <2>0. PICK P \in SUBSET StoredStamps : P = worker[w].body
    BY MigFields
  <2>1. CASE written
    <3>1. ~file.made /\ file' = [made |-> TRUE, broken |-> FALSE, pts |-> P]
      BY <1>1, <2>0, <2>1 DEF writeFile
    <3> QED
      BY <2>0, <3>1 DEF FileRec
  <2>2. CASE ~written /\ file' = file
    BY <1>7, <1>8, <2>2
  <2>3. CASE ~written /\ file' # file
    <3>1. ~file.made /\ file' = [made |-> TRUE, broken |-> TRUE, pts |-> {}]
      BY <1>1, <2>3 DEF writeFileFails
    <3> QED
      BY <2>3, <3>1 DEF FileRec
  <2> QED
    BY <2>1, <2>2, <2>3
<1>10. PointsOf(w) = {} /\ SendsOnly(r)
  BY <1>5, <1>6 DEF PointsOf, SendsOnly
<1>11. HasFile => HasFile'
  BY <1>6, <1>9 DEF HasFile
<1>12. ~r.miss => HasFile'
  BY <1>2, <1>5, <1>8, <1>9, <1>11 DEF HasFile
<1> QED
  BY <1>5, <1>6, <1>7, <1>8, <1>9, <1>10, <1>11, <1>12, WorkerStep

\* What a step of the list, the commits or the file must see to: no worker moves.
LEMMA StoreStep ==
    ASSUME MigInv, worker' = worker, oldNode' = oldNode, past' \in PastRec,
           past.dropped \subseteq past'.dropped, past'.cut = past.cut,
           series' \in SeriesRec, series.here => series'.here,
           ~series'.here => series'.items = <<>>,
           series'.here /\ ~series'.miss => HasFile,
           committing' \in Seq(Stamps), committing' # <<>> => HasFile,
           file' \in FileRec, file'.made = file.made, file'.broken = file.broken,
           file.pts \subseteq file'.pts, ~file'.made => file'.pts = {},
           \A p \in past'.taken \ past.taken : p \in Range(series'.items),
           \A p \in (Range(series.items) \cup Range(committing)) \ past'.dropped :
               \/ p \in Range(series'.items) \cup Range(committing')
               \/ \E t \in file'.pts : t >= p
    PROVE  MigInv'
<1>0. OldMoves /\ (HasFile' <=> HasFile) /\ WorkerPts' = WorkerPts
  BY OldStays DEF HasFile, WorkerPts, PointsOf
<1>1. MigTypes'
  BY DEF MigInv, MigTypes
<1>2. FlagInv'
  BY <1>0 DEF MigInv, FlagInv
<1>3. BodyInv'
  BY DEF MigInv, BodyInv
<1>4. FetchInv'
  BY DEF MigInv, FetchInv
<1>5. MigrationKeeps'
  <2>1. ASSUME NEW p \in (Range(series.items) \cup Range(committing) \cup WorkerPts) \ past'.dropped
        PROVE  Kept(p)'
    <3>1. CASE p \in WorkerPts
      BY <1>0, <3>1 DEF Kept
    <3>2. CASE p \in Range(series.items) \cup Range(committing)
      BY <2>1, <3>2 DEF Kept, Passed
    <3> QED
      BY <2>1, <3>1, <3>2
  <2> QED
    BY <1>0, <2>1, KeepsStep
<1> QED
  BY <1>1, <1>2, <1>3, <1>4, <1>5 DEF MigInv

\* A point is put in front of the list.
LEMMA ReceiveStep == ASSUME MigInv, NEW ts \in Stamps, ReceivePoint(ts) PROVE MigInv'
<1>1. PICK one \in Seq(Stamps) : one = <<ts>>
  <2>1. <<ts>> \in Seq(Stamps)
    OBVIOUS
  <2> QED
    BY <2>1
<1>2. one # <<>> /\ Range(one) = {ts}
  BY <1>1 DEF Range
<1>3. PICK l \in Seq(Stamps) : l = one \o series.items
  <2>1. one \o series.items \in Seq(Stamps)
    BY MigFields, ConcatProperties
  <2> QED
    BY <2>1
<1>4. Range(l) = {ts} \cup Range(series.items)
  BY <1>2, <1>3, MigFields, JoinedRange
<1>5. series \in SeriesRec /\ file \in FileRec /\ past \in PastRec /\ committing \in Seq(Stamps)
  BY DEF MigInv, MigTypes
<1>6. /\ (~series.here => series.items = <<>>) /\ (series.here /\ ~series.miss => HasFile)
      /\ (~series.here /\ file.made => HasFile)
      /\ (committing # <<>> => HasFile) /\ (~file.made => file.pts = {})
  BY DEF MigInv, FlagInv, HasFile
<1>7. /\ worker' = worker /\ oldNode' = oldNode /\ committing' = committing /\ file' = file
      /\ series' = Received(ts)
  BY DEF ReceivePoint
<1>8. /\ series' \in SeriesRec /\ series'.here /\ (~series'.miss => HasFile)
      /\ {ts} \cup Range(series.items) \subseteq Range(series'.items)
  <2>1. CASE series.here
    <3>1. series' = [series EXCEPT !.items = l]
      BY <1>1, <1>3, <1>7, <2>1 DEF Received
    <3> QED
      BY <1>4, <1>5, <1>6, <2>1, <3>1 DEF SeriesRec
  <2>2. CASE ~series.here
    <3>1. PICK b \in BOOLEAN : b = ~file.made
      OBVIOUS
    <3>2. series' = [here |-> TRUE, miss |-> b, items |-> one]
      BY <1>1, <1>7, <2>2, <3>1 DEF Received
    <3>3. Range(series.items) = {}
      BY <1>6, <2>2 DEF Range
    <3>4. series' \in SeriesRec /\ series'.here /\ series'.miss = b /\ series'.items = one
      BY <3>2 DEF SeriesRec
    <3>5. ~b => HasFile
      BY <1>6, <2>2, <3>1
    <3> QED
      BY <1>2, <3>3, <3>4, <3>5
  <2> QED
    BY <2>1, <2>2
<1>9. /\ past' \in PastRec /\ past'.dropped = past.dropped /\ past'.cut = past.cut
      /\ past'.taken = past.taken \cup {ts}
  <2>1. PICK P \in SUBSET Stamps : P = past.taken \cup {ts}
    BY <1>5 DEF PastRec
  <2>2. past' = [past EXCEPT !.taken = P]
    BY <2>1 DEF ReceivePoint
  <2> QED
    BY <1>5, <2>1, <2>2 DEF PastRec
<1>10. \A p \in past'.taken \ past.taken : p \in Range(series'.items)
  BY <1>8, <1>9
<1>11. \A p \in (Range(series.items) \cup Range(committing)) \ past'.dropped :
           \/ p \in Range(series'.items) \cup Range(committing')
           \/ \E t \in file'.pts : t >= p
  BY <1>7, <1>8
<1>12. /\ file' \in FileRec /\ file'.made = file.made /\ file'.broken = file.broken
       /\ file.pts \subseteq file'.pts /\ past.dropped \subseteq past'.dropped
       /\ (~file'.made => file'.pts = {}) /\ (committing' # <<>> => HasFile)
       /\ committing' \in Seq(Stamps) /\ (series'.here /\ ~series'.miss => HasFile)
       /\ worker' = worker /\ oldNode' = oldNode
  BY <1>5, <1>6, <1>7, <1>8, <1>9
<1> QED
  BY <1>8, <1>9, <1>10, <1>11, <1>12, StoreStep

\* A series that is not missing has its file.
LEMMA CommitPopsStep == MigInv /\ CommitPops => MigInv'
<1> SUFFICES ASSUME MigInv, CommitPops PROVE MigInv'
  OBVIOUS
<1>1. series \in SeriesRec /\ file \in FileRec /\ past \in PastRec
  BY DEF MigInv, MigTypes
<1>2. /\ (~series.here => series.items = <<>>) /\ (series.here /\ ~series.miss => HasFile)
      /\ (~file.made => file.pts = {})
  BY DEF MigInv, FlagInv
<1>3. /\ worker' = worker /\ oldNode' = oldNode /\ past' = past /\ file' = file
      /\ ~series.miss /\ series.items # <<>> /\ committing = <<>>
      /\ committing' = Reverse(series.items) /\ series' = [series EXCEPT !.items = <<>>]
  BY DEF CommitPops
<1>4. series' \in SeriesRec /\ series'.here = series.here /\ series'.miss = series.miss /\ series'.items = <<>>
  <2>1. <<>> \in Seq(Stamps)
    OBVIOUS
  <2> QED
    BY <1>1, <1>3, <2>1 DEF SeriesRec
<1>5. committing' \in Seq(Stamps) /\ Range(committing') = Range(series.items)
  BY <1>3, MigFields, Turned
<1>6. Range(committing) = {} /\ HasFile
  BY <1>2, <1>3 DEF Range
<1>7. \A p \in (Range(series.items) \cup Range(committing)) \ past'.dropped :
          \/ p \in Range(series'.items) \cup Range(committing')
          \/ \E t \in file'.pts : t >= p
  BY <1>5, <1>6
<1>8. /\ past' \in PastRec /\ past'.dropped = past.dropped /\ past'.cut = past.cut
      /\ past'.taken \ past.taken = {} /\ file' \in FileRec /\ file' = file
      /\ worker' = worker /\ oldNode' = oldNode
  BY <1>1, <1>3
<1> QED
  BY <1>2, <1>4, <1>5, <1>6, <1>7, <1>8, StoreStep

\* A flush that works: for every point the file has one as new (flushrrd).
LEMMA FlushFacts ==
    ASSUME file \in FileRec, NEW s \in Seq(Stamps), Flushed(s)
    PROVE  /\ file' \in FileRec /\ file'.made /\ file'.broken = file.broken
           /\ file.pts \subseteq file'.pts
           /\ \A x \in Range(s) : \E t \in file'.pts : t >= x
<1>1. PICK P : P = Appended(file.pts, s)
  OBVIOUS
<1>2. /\ file.pts \subseteq P /\ P \subseteq file.pts \cup Stamps
      /\ \A x \in Range(s) : \E t \in P : t >= x
  BY <1>1, AppendedFacts DEF FileRec
<1>3. P \subseteq StoredStamps
  BY <1>2 DEF FileRec, Stamps, StoredStamps
<1>4. file' = [file EXCEPT !.made = TRUE, !.pts = P]
  BY <1>1 DEF Flushed
<1>5. file' \in FileRec /\ file'.made /\ file'.broken = file.broken /\ file'.pts = P
  BY <1>3, <1>4 DEF FileRec
<1> QED
  BY <1>2, <1>5

\* A flush that fails leaves what was in the file.
LEMMA FlushKeeps ==
    ASSUME file \in FileRec, NEW s \in Seq(Stamps), FlushFails(s)
    PROVE  /\ file' \in FileRec /\ (file.made => file'.made) /\ file'.broken = file.broken
           /\ file.pts \subseteq file'.pts /\ (~file'.made => file' = file)
<1>1. CASE file' = file
  BY <1>1
<1>2. CASE \E n \in 0 .. Len(s) - 1 : Flushed(SubSeq(s, 1, n))
  <2>1. PICK n \in 0 .. Len(s) - 1 : Flushed(SubSeq(s, 1, n))
    BY <1>2
  <2>2. PICK l \in Nat : l = Len(s)
    BY LenProperties
  <2>3. n \in Nat /\ n < l
    BY <2>2
  <2>4. \A i \in 1 .. n : i \in 1 .. l
    BY <2>3
  <2>5. \A i \in 1 .. n : s[i] \in Stamps
    BY <2>2, <2>4, ElementOfSeq
  <2>6. SubSeq(s, 1, n) \in Seq(Stamps)
    BY <2>3, <2>5, SubSeqProperties
  <2> QED
    BY <2>1, <2>6, FlushFacts
<1> QED
  BY <1>1, <1>2 DEF FlushFails

\* A commit adds to a file that is here, or drops its points.
LEMMA CommitWritesStep == MigInv /\ CommitWrites => MigInv'
<1> SUFFICES ASSUME MigInv, CommitWrites PROVE MigInv'
  OBVIOUS
<1>1. /\ series \in SeriesRec /\ file \in FileRec /\ past \in PastRec /\ committing \in Seq(Stamps)
  BY DEF MigInv, MigTypes
<1>2. /\ (~series.here => series.items = <<>>) /\ file.made /\ HasFile
      /\ (series.here /\ ~series.miss => HasFile)
  BY DEF MigInv, FlagInv, CommitWrites, HasFile
<1>3. worker' = worker /\ oldNode' = oldNode /\ series' = series /\ committing' = <<>>
  BY DEF CommitWrites
<1>4. /\ file' \in FileRec /\ file'.made = file.made /\ file'.broken = file.broken
      /\ file.pts \subseteq file'.pts
      /\ past' \in PastRec /\ past.dropped \subseteq past'.dropped /\ past'.cut = past.cut
      /\ past'.taken = past.taken
      /\ \A p \in Range(committing) \ past'.dropped : \E t \in file'.pts : t >= p
  <2>1. CASE FlushFile(committing) /\ past' = past
    BY <1>1, <1>2, <2>1, FlushFacts DEF FlushFile
  <2>2. CASE FlushFails(committing) /\ past' = [past EXCEPT !.dropped = @ \cup Range(committing)]
    <3>1. PICK D : D = past.dropped \cup Range(committing)
      OBVIOUS
    <3>2. D \subseteq Stamps
      <4>1. DOMAIN committing = 1 .. Len(committing) /\ \A i \in 1 .. Len(committing) : committing[i] \in Stamps
        BY <1>1, LenProperties, ElementOfSeq
      <4> QED
        BY <1>1, <3>1, <4>1 DEF Range, PastRec
    <3>3. past' = [past EXCEPT !.dropped = D]
      BY <2>2, <3>1
    <3>4. /\ past' \in PastRec /\ past'.dropped = D /\ past'.cut = past.cut
          /\ past'.taken = past.taken
      BY <1>1, <3>2, <3>3 DEF PastRec
    <3>5. /\ file' \in FileRec /\ (file.made => file'.made) /\ file'.broken = file.broken
          /\ file.pts \subseteq file'.pts
      BY <1>1, <2>2, FlushKeeps
    <3>6. file'.made = file.made
      BY <1>1, <1>2, <3>5 DEF FileRec
    <3> QED
      BY <3>1, <3>4, <3>5, <3>6
  <2> QED
    BY <2>1, <2>2 DEF CommitWrites
<1>5. committing' \in Seq(Stamps) /\ (committing' # <<>> => HasFile)
  BY <1>3
<1>6. \A p \in (Range(series.items) \cup Range(committing)) \ past'.dropped :
          \/ p \in Range(series'.items) \cup Range(committing')
          \/ \E t \in file'.pts : t >= p
  BY <1>3, <1>4
<1>7. \A p \in past'.taken \ past.taken : p \in Range(series'.items)
  BY <1>4
<1>8. (~series'.here => series'.items = <<>>) /\ (~file'.made => file'.pts = {})
      /\ series' \in SeriesRec /\ (series.here => series'.here)
      /\ (series'.here /\ ~series'.miss => HasFile)
  BY <1>1, <1>2, <1>3, <1>4
<1> QED
  BY <1>2, <1>3, <1>4, <1>5, <1>6, <1>7, <1>8, StoreStep

\* A step of the old node by itself.
LEMMA OldStep == MigInv /\ OldMoves /\ UNCHANGED <<series, worker, committing, file, past>> => MigInv'
<1> SUFFICES ASSUME MigInv, OldMoves, UNCHANGED <<series, worker, committing, file, past>> PROVE MigInv'
  OBVIOUS
<1>1. MigTypes'
  BY DEF MigInv, MigTypes, OldMoves
<1>2. FlagInv' /\ FetchInv'
  BY DEF MigInv, FlagInv, FetchInv, HasFile
<1>3. BodyInv'
  <2>1. History \in oldNode'.pts <=> History \in oldNode.pts
    BY DEF OldMoves
  <2> QED
    BY <2>1 DEF MigInv, BodyInv
<1>4. MigrationKeeps'
  <2>1. WorkerPts' = WorkerPts
    BY DEF WorkerPts, PointsOf
  <2>2. \A p \in (Range(series.items) \cup Range(committing) \cup WorkerPts) \ past'.dropped : Kept(p)'
    BY <2>1 DEF Kept
  <2>3. /\ file' \in FileRec /\ file.pts \subseteq file'.pts /\ past' \in PastRec
        /\ past.dropped \subseteq past'.dropped
        /\ \A p \in past'.taken \ past.taken : p \in Range(series'.items)
    BY <1>1 DEF MigTypes
  <2> QED
    BY <2>2, <2>3, KeepsStep
<1> QED
  BY <1>1, <1>2, <1>3, <1>4 DEF MigInv

\* A request is handled: what is skipped is not newer than the list.
LEMMA HandledMoves == ASSUME MigInv, NEW q \in oldNode.inbox, handleItems(q) PROVE OldMoves
<1>1. q \in [items : Seq(Stamps), call : Nat] /\ q.items \in Seq(Stamps)
  BY MigFields
<1>2. Stamps \subseteq Nat /\ StoredStamps \subseteq Nat /\ Stamps \subseteq StoredStamps /\ History \notin Stamps
  BY DEF Stamps, StoredStamps, History
<1>3. PICK C : C = Appended(oldNode.cached, q.items)
  OBVIOUS
<1>4. oldNode.cached \subseteq StoredStamps
  BY <1>2, MigFields
<1>5. /\ oldNode.cached \subseteq C /\ C \subseteq Stamps
      /\ \A x \in Range(q.items) : \E t \in C : t >= x
  BY <1>1, <1>3, <1>4, MigFields, AppendedFacts
<1>6. PICK I : I = oldNode.inbox \ {q}
  OBVIOUS
<1>7. oldNode' = [oldNode EXCEPT !.inbox = I, !.cached = C] /\ oldNode \in OldRec
  BY <1>3, <1>6 DEF handleItems, MigInv, MigTypes
<1>8. I \subseteq [items : Seq(Stamps), call : Nat]
  BY <1>6, MigFields
<1>9. /\ oldNode' \in OldRec /\ oldNode'.pts = oldNode.pts /\ oldNode'.cached = C
      /\ oldNode'.inbox = I
  BY <1>5, <1>7, <1>8 DEF OldRec
<1>10. AtOldNode \subseteq AtOldNode' /\ AtOldNode \subseteq Nat /\ C \subseteq AtOldNode'
  BY <1>2, <1>5, <1>9, MigFields DEF AtOldNode
<1>11. ASSUME NEW x \in InboxPts PROVE x \in InboxPts' \/ \E t \in AtOldNode' : t >= x
  <2>1. PICK m \in oldNode.inbox : x \in Range(m.items)
    BY DEF InboxPts
  <2>2. CASE m = q
    BY <1>5, <1>10, <2>1, <2>2
  <2>3. CASE m # q
    BY <1>6, <1>9, <2>1, <2>3 DEF InboxPts
  <2> QED
    BY <2>2, <2>3
<1>12. \A x \in AtOldNode : x >= x
  BY <1>10
<1> QED
  BY <1>9, <1>10, <1>11, <1>12 DEF OldMoves

\* The list goes to the file, what is on its way is dropped.
LEMMA ShutdownStep == MigInv /\ Shutdown => MigInv'
<1> SUFFICES ASSUME MigInv, Shutdown PROVE MigInv'
  OBVIOUS
<1>1. /\ file \in FileRec /\ past \in PastRec /\ committing \in Seq(Stamps)
      /\ (~file.made => file.pts = {})
  BY DEF MigInv, MigTypes, FlagInv
<1>2. /\ series' = NoSeries /\ committing' = <<>> /\ oldNode' = oldNode
      /\ worker' = [w \in MigrateWorkers |-> IdleWorker]
  BY DEF Shutdown
<1>3. PICK s \in Seq(Stamps) : s = Reverse(series.items) /\ Range(s) = Range(series.items)
  BY MigFields, Turned
<1>4. PICK flushed \in BOOLEAN :
        /\ IF series.items = <<>> THEN flushed /\ file' = file
           ELSE IF flushed THEN FlushFile(s) ELSE FlushFails(s)
        /\ past' = [past EXCEPT
             !.dropped = @ \cup Range(committing) \cup WorkerPts
                           \cup (IF flushed THEN {} ELSE Range(series.items)),
             !.cut = @ \/ file'.broken \/ (file'.made /\ ~file.made)]
  BY <1>3 DEF Shutdown
<1>5. /\ file' \in FileRec /\ (file.made => file'.made) /\ file.pts \subseteq file'.pts
      /\ (~file'.made => file'.pts = {})
      /\ (flushed => \A x \in Range(series.items) : \E t \in file'.pts : t >= x)
  <2>1. CASE series.items = <<>>
    <3>1. Range(series.items) = {}
      BY <2>1 DEF Range
    <3> QED
      BY <1>1, <1>4, <2>1, <3>1
  <2>2. CASE series.items # <<>> /\ flushed
    <3>1. Flushed(s)
      BY <1>4, <2>2 DEF FlushFile
    <3> QED
      BY <1>1, <1>3, <3>1, FlushFacts
  <2>3. CASE series.items # <<>> /\ ~flushed
    <3>1. FlushFails(s)
      BY <1>4, <2>3
    <3>2. /\ file' \in FileRec /\ (file.made => file'.made) /\ file.pts \subseteq file'.pts
          /\ (~file'.made => file' = file)
      BY <1>1, <3>1, FlushKeeps
    <3> QED
      BY <1>1, <2>3, <3>2
  <2> QED
    BY <2>1, <2>2, <2>3
<1>6. PICK D : D = past.dropped \cup Range(committing) \cup WorkerPts
                     \cup (IF flushed THEN {} ELSE Range(series.items))
  OBVIOUS
<1>7. D \subseteq Stamps
  <2>1. ASSUME NEW l \in Seq(Stamps) PROVE Range(l) \subseteq Stamps
    <3>1. DOMAIN l = 1 .. Len(l) /\ \A i \in 1 .. Len(l) : l[i] \in Stamps
      BY LenProperties, ElementOfSeq
    <3> QED
      BY <3>1 DEF Range
  <2>2. \A w \in MigrateWorkers : PointsOf(w) \subseteq Stamps
    BY <2>1, MigFields DEF PointsOf
  <2>3. /\ Range(committing) \subseteq Stamps /\ past.dropped \subseteq Stamps
        /\ Range(series.items) \subseteq Stamps
    BY <1>1, <2>1, MigFields DEF PastRec
  <2>4. WorkerPts \subseteq Stamps
    BY <2>2 DEF WorkerPts
  <2> QED
    BY <1>6, <2>3, <2>4
<1>8. PICK b \in BOOLEAN : b = (past.cut \/ file'.broken \/ (file'.made /\ ~file.made))
  BY <1>1, <1>5 DEF PastRec, FileRec
<1>9. past' \in PastRec /\ past'.taken = past.taken /\ past'.dropped = D /\ past'.cut = b
  <2>1. past' = [past EXCEPT !.dropped = D,
                             !.cut = past.cut \/ file'.broken \/ (file'.made /\ ~file.made)]
    BY <1>4, <1>6
  <2>2. past' = [past EXCEPT !.dropped = D, !.cut = b]
    BY <1>8, <2>1, Zenon
  <2> QED
    BY <1>1, <1>7, <2>2 DEF PastRec
<1>10. \A w \in MigrateWorkers : worker'[w] = IdleWorker /\ worker'[w].pc = "idle"
  BY <1>2 DEF IdleWorker
<1>11. /\ series'.here = FALSE /\ series'.miss = FALSE /\ series'.items = <<>> /\ series' \in SeriesRec
  <2>1. <<>> \in Seq(Stamps)
    OBVIOUS
  <2> QED
    BY <1>2, <2>1 DEF NoSeries, SeriesRec
<1>12. MigTypes'
  <2>1. worker' \in [MigrateWorkers -> WorkerRec]
    BY <1>2, MigFields
  <2>2. committing' \in Seq(Stamps) /\ oldNode' \in OldRec
    BY <1>2 DEF MigInv, MigTypes
  <2> QED
    BY <1>5, <1>9, <1>11, <2>1, <2>2 DEF MigTypes
<1>13. FlagInv'
  BY <1>2, <1>5, <1>8, <1>9, <1>10, <1>11 DEF FlagInv
<1>14. BodyInv'
  <2>1. /\ History \in oldNode.pts /\ file'.made /\ ~file'.broken /\ ~past'.cut => History \in file'.pts
    <3>1. CASE past.cut \/ file'.broken \/ ~file.made
      BY <1>8, <1>9, <3>1
    <3>2. CASE ~past.cut /\ file.made /\ ~file'.broken
      <4>1. ~file.broken
        <5>1. CASE series.items = <<>>
          BY <1>4, <3>2, <5>1
        <5>2. CASE series.items # <<>> /\ flushed
          BY <1>4, <5>2 DEF FlushFile
        <5>3. CASE series.items # <<>> /\ ~flushed
          <6>1. file'.broken = file.broken
            BY <1>1, <1>4, <5>3, FlushKeeps
          <6> QED
            BY <3>2, <6>1
        <5> QED
          BY <5>1, <5>2, <5>3
      <4> QED
        BY <1>5, <3>2, <4>1 DEF MigInv, BodyInv
    <3> QED
      BY <3>1, <3>2
  <2> QED
    BY <1>2, <1>10, <2>1 DEF BodyInv
<1>15. FetchInv'
  BY <1>10 DEF FetchInv, SendsOnly
<1>16. MigrationKeeps'
  <2>1. ASSUME NEW p \in (Range(series.items) \cup Range(committing) \cup WorkerPts) \ past'.dropped
        PROVE  Kept(p)'
    <3>1. p \in Range(series.items) /\ flushed
      BY <1>6, <1>9, <2>1
    <3>2. PICK t \in file'.pts : t >= p
      BY <1>5, <3>1
    <3> QED
      BY <3>2 DEF Kept, Passed
  <2>2. past.dropped \subseteq past'.dropped
    BY <1>6, <1>9
  <2>3. \A p \in past'.taken \ past.taken : p \in Range(series'.items)
    BY <1>9
  <2>4. OldMoves
    BY <1>2, OldStays
  <2> QED
    BY <1>5, <1>9, <2>1, <2>2, <2>3, <2>4, KeepsStep
<1> QED
  BY <1>12, <1>13, <1>14, <1>15, <1>16 DEF MigInv

\* Every step keeps the invariant.
LEMMA MigStep == MigInv /\ migrateFaults \in Nat /\ [MigrationStep]_migrationVars => MigInv'
<1> SUFFICES ASSUME MigInv, migrateFaults \in Nat, [MigrationStep]_migrationVars PROVE MigInv'
  OBVIOUS
<1>1. ASSUME UNCHANGED <<series, worker, committing, file, oldNode, past>> PROVE MigInv'
  BY <1>1, OldStays, OldStep
<1>2. ASSUME NEW ts \in 1 .. MaxTs, ReceivePoint(ts) PROVE MigInv'
  <2>1. ts \in Stamps
    BY DEF Stamps
  <2> QED
    BY <1>2, <2>1, ReceiveStep
<1>3. CASE PullByKey
  BY <1>1, <1>3 DEF PullByKey
<1>4. CASE CommitPops
  BY <1>4, CommitPopsStep
<1>5. CASE CommitWrites
  BY <1>5, CommitWritesStep
<1>6. ASSUME NEW w \in MigrateWorkers, net_task_worker(w) PROVE MigInv'
  BY <1>6, TakeTaskStep, MarkFlagStep, PopToSendStep, SendDataStep, SendFailsStep,
     GetRrdStep, GetRrdFailsStep, FetchRrdStep, TaskDoneStep DEF net_task_worker
<1>7. CASE Shutdown
  BY <1>7, ShutdownStep
<1>8. CASE OldCommits
  BY <1>8, OldFlushes, OldStep DEF OldCommits
<1>9. ASSUME NEW q \in oldNode.inbox, handleItems(q) PROVE MigInv'
  <2>1. UNCHANGED <<series, worker, committing, file, past>>
    BY <1>9 DEF handleItems
  <2> QED
    BY <1>9, <2>1, HandledMoves, OldStep
<1>10. CASE UNCHANGED migrationVars
  BY <1>1, <1>10 DEF migrationVars
<1> QED
  BY <1>2, <1>3, <1>4, <1>5, <1>6, <1>7, <1>8, <1>9, <1>10 DEF MigrationStep

\* The faults are counted.
FaultsCounted == migrateFaults \in Nat

LEMMA FaultsCount == MigrationSpec => []FaultsCounted
<1>1. MigrationInit => FaultsCounted
  BY DEF MigrationInit, FaultsCounted
<1>2. FaultsCounted /\ Fault => FaultsCounted'
  BY DEF Fault, FaultsCounted
<1>3. FaultsCounted /\ [MigrationStep]_migrationVars => FaultsCounted'
  <2> SUFFICES ASSUME FaultsCounted, [MigrationStep]_migrationVars,
                      migrateFaults' # migrateFaults
               PROVE  Fault
    BY <1>2 DEF FaultsCounted
  <2>1. ASSUME NEW w \in MigrateWorkers, net_task_worker(w) PROVE Fault
    BY <2>1 DEF net_task_worker, TakeTask, MarkFlag, PopToSend, send_data, sendFails, GetRrd,
                GetRrdFails, fetch_rrd, writeFile, writeFileFails, TaskDone
  <2>2. ASSUME CommitWrites PROVE Fault
    BY <2>2 DEF CommitWrites, FlushFile, FlushFails
  <2>3. ASSUME Shutdown PROVE Fault
    BY <2>3 DEF Shutdown, FlushFile, FlushFails
  <2> QED
    BY <2>1, <2>2, <2>3 DEF MigrationStep, migrationVars, ReceivePoint, PullByKey, CommitPops,
                            OldCommits, handleItems
<1> QED
  BY <1>1, <1>3, PTL DEF MigrationSpec

\* It holds at the start.
LEMMA MigInvInit == MigrationInit => MigInv
<1> SUFFICES ASSUME MigrationInit PROVE MigInv
  OBVIOUS
<1>1. /\ series = NoSeries /\ committing = <<>> /\ worker = [w \in MigrateWorkers |-> IdleWorker]
      /\ file = [made |-> FALSE, broken |-> FALSE, pts |-> {}]
      /\ past = [taken |-> {}, dropped |-> {}, cut |-> FALSE]
  BY DEF MigrationInit
<1>2. <<>> \in Seq(Stamps)
  OBVIOUS
<1>3. IdleWorker \in WorkerRec /\ IdleWorker.pc = "idle"
  BY <1>2 DEF IdleWorker, WorkerRec
<1>4. MigTypes
  <2>1. series \in SeriesRec
    BY <1>1, <1>2 DEF NoSeries, SeriesRec
  <2>2. file \in FileRec /\ past \in PastRec
    BY <1>1 DEF FileRec, PastRec
  <2>3. oldNode \in OldRec
    <3>1. PICK P \in {{}, {History}} :
            oldNode = [made |-> P # {}, pts |-> P, cached |-> {}, inbox |-> {}]
      BY DEF MigrationInit
    <3>2. P \subseteq StoredStamps
      BY DEF StoredStamps, History
    <3>3. PICK b \in BOOLEAN : b = (P # {})
      OBVIOUS
    <3>4. oldNode = [made |-> b, pts |-> P, cached |-> {}, inbox |-> {}]
      BY <3>1, <3>3
    <3> QED
      BY <3>2, <3>4 DEF OldRec
  <2>4. worker \in [MigrateWorkers -> WorkerRec]
    BY <1>1, <1>3
  <2> QED
    BY <1>1, <1>2, <2>1, <2>2, <2>3, <2>4 DEF MigTypes
<1>5. FlagInv
  BY <1>1, <1>3 DEF FlagInv, NoSeries, HasFile
<1>6. BodyInv /\ FetchInv
  BY <1>1, <1>3 DEF BodyInv, FetchInv, SendsOnly
<1>7. MigrationKeeps
  BY <1>1 DEF MigrationKeeps
<1> QED
  BY <1>4, <1>5, <1>6, <1>7 DEF MigInv

\* While a series moves, what was stored before the change can be read all the
\* time, whatever the number of workers and however their flags, fetches and
\* sends interleave with commits and the disk fails, unless a shutdown began the
\* file itself or found one that was written in part (Graph.Query, fetch_rrd,
\* writeFile, send_data).
THEOREM MovedHistoryReadable == MigrationSpec => []HistoryReadable
<1>1. MigInv => HistoryReadable
  BY DEF MigInv, FlagInv, BodyInv, HistoryReadable, Answering, AtOldNode, HasFile
<1>2. MigInv /\ FaultsCounted /\ [MigrationStep]_migrationVars => MigInv'
  BY MigStep DEF FaultsCounted
<1> QED
  BY <1>1, <1>2, MigInvInit, FaultsCount, PTL DEF MigrationSpec

\* No point that was taken is lost on the way: it is in the list, in a commit,
\* with a worker, on its way to the old node or stored, unless a shutdown or a
\* failing disk dropped it, or a newer point overtook it into the file of this
\* node or into the list or the file of the old node, whose handleItems then
\* skips it (send_data, PushAll, handleItems, flushrrd).
THEOREM MovedPointsKept == MigrationSpec => []MigrationKeeps
<1>1. MigInv => MigrationKeeps
  BY DEF MigInv
<1>2. MigInv /\ FaultsCounted /\ [MigrationStep]_migrationVars => MigInv'
  BY MigStep DEF FaultsCounted
<1> QED
  BY <1>1, <1>2, MigInvInit, FaultsCount, PTL DEF MigrationSpec

============================================================================
