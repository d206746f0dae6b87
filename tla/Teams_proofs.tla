--------------------------- MODULE Teams_proofs ---------------------------
(***************************************************************************)
(* Users and sessions of the api, and what alarm tells the members of a    *)
(* team, for any number of users, sessions, teams, events and concurrent   *)
(* requests.                                                               *)
(*                                                                         *)
(* A signature is spoken of in three places: the session table, the        *)
(* answers clients hold, and a login between its read and its answer.      *)
(* They always agree on the user it stands for (SigsAgree), because a      *)
(* signature is made once and only copied after that; with that, the       *)
(* session check of a request cannot take one user for another, whatever   *)
(* happens to the user rows.  SessionInv is inductive.  UserInv says that  *)
(* a save still to come is what was read with one column changed, and that *)
(* the table and its history agree on every user no save crossed.          *)
(*                                                                         *)
(* Alarm: what an event has to tell a member on a channel is a thing.  It  *)
(* is at one spot: a stage (a queue, a reader, a worker, the gateways, a   *)
(* fault) and a place there (an event, a write to come, a message).        *)
(* AlarmInv says that no thing is at two spots and that the things are     *)
(* those the events pushed so far owe; a step takes some things from one   *)
(* spot to another (Rearranged) and leaves the rest.                       *)
(***************************************************************************)
EXTENDS Uic, Alarm, FiniteSetTheorems, SequenceTheorems, WellFoundedInduction, TLAPS

----------------------------------------------------------------------------
(* Sets of numbers.                                                        *)

\* A set of numbers has a least one.
LEMMA LeastOf ==
    ASSUME NEW T, T \subseteq Nat, T # {}
    PROVE  \E x \in T : \A y \in T : x <= y
<1>1. PICK R : R = OpToRel(<, Nat)
  OBVIOUS
<1>2. IsWellFoundedOn(R, Nat)
  BY <1>1, NatLessThanWellFounded
<1>3. PICK x \in T : \A y \in T : ~(<<y, x>> \in R)
  BY <1>2, WFMin
<1>4. ASSUME NEW y \in T PROVE x <= y
  <2>1. <<y, x>> \notin R
    BY <1>3
  <2>2. y < x => <<y, x>> \in R
    BY <1>1 DEF OpToRel
  <2> QED
    BY <2>1, <2>2
<1> QED
  BY <1>4

----------------------------------------------------------------------------
(* Lists without repetition.                                               *)

Apart(s, t) == Range(s) \cap Range(t) = {}
NoneTwice(s) == \A i, j \in DOMAIN s : s[i] = s[j] => i = j

\* Two lists with different elements, joined.
LEMMA JoinedLists ==
    ASSUME NEW S, NEW s \in Seq(S), NEW t \in Seq(S), NoneTwice(s), NoneTwice(t), Apart(s, t)
    PROVE  s \o t \in Seq(S) /\ NoneTwice(s \o t) /\ Range(s \o t) = Range(s) \cup Range(t)
<1>1. /\ Len(s) \in Nat /\ Len(t) \in Nat /\ DOMAIN s = 1 .. Len(s) /\ DOMAIN t = 1 .. Len(t)
  BY LenProperties
<1>2. PICK u \in Seq(S) : u = s \o t
  BY ConcatProperties
<1>3. /\ Len(u) = Len(s) + Len(t) /\ DOMAIN u = 1 .. Len(u)
      /\ \A i \in 1 .. Len(s) + Len(t) : u[i] = IF i <= Len(s) THEN s[i] ELSE t[i - Len(s)]
  BY <1>2, ConcatProperties, LenProperties
<1>4. \A i \in 1 .. Len(s) : i \in DOMAIN u /\ u[i] = s[i]
  BY <1>1, <1>3
<1>5. \A i \in 1 .. Len(t) : Len(s) + i \in DOMAIN u /\ u[Len(s) + i] = t[i]
  <2>1. SUFFICES ASSUME NEW i \in 1 .. Len(t) PROVE Len(s) + i \in DOMAIN u /\ u[Len(s) + i] = t[i]
    OBVIOUS
  <2>2. PICK k \in 1 .. Len(s) + Len(t) : k = Len(s) + i /\ ~(k <= Len(s)) /\ k - Len(s) = i
    BY <1>1
  <2> QED
    BY <1>3, <2>2
<1>6. ASSUME NEW i \in DOMAIN u
      PROVE  \/ i \in 1 .. Len(s) /\ u[i] = s[i]
             \/ i - Len(s) \in 1 .. Len(t) /\ u[i] = t[i - Len(s)]
  BY <1>1, <1>3
<1>7. Range(u) = Range(s) \cup Range(t)
  BY <1>1, <1>4, <1>5, <1>6 DEF Range
<1>8. ASSUME NEW i \in DOMAIN u, NEW j \in DOMAIN u, u[i] = u[j] PROVE i = j
  <2>1. i \in Int /\ j \in Int
    BY <1>1, <1>3
  <2>2. CASE i \in 1 .. Len(s) /\ u[i] = s[i] /\ j \in 1 .. Len(s) /\ u[j] = s[j]
    BY <1>1, <1>8, <2>2 DEF NoneTwice
  <2>3. CASE /\ i - Len(s) \in 1 .. Len(t) /\ u[i] = t[i - Len(s)]
             /\ j - Len(s) \in 1 .. Len(t) /\ u[j] = t[j - Len(s)]
    <3>1. i - Len(s) = j - Len(s)
      BY <1>1, <1>8, <2>3 DEF NoneTwice
    <3> QED
      BY <1>1, <2>1, <3>1
  <2>4. CASE /\ i \in 1 .. Len(s) /\ u[i] = s[i]
             /\ j - Len(s) \in 1 .. Len(t) /\ u[j] = t[j - Len(s)]
    BY <1>1, <1>8, <2>4 DEF Range, Apart
  <2>5. CASE /\ j \in 1 .. Len(s) /\ u[j] = s[j]
             /\ i - Len(s) \in 1 .. Len(t) /\ u[i] = t[i - Len(s)]
    BY <1>1, <1>8, <2>5 DEF Range, Apart
  <2> QED
    BY <1>6, <2>2, <2>3, <2>4, <2>5
<1> QED
  BY <1>2, <1>7, <1>8 DEF NoneTwice

\* A list of one element or none.
Perhaps(c, to, w) == IF c \in to THEN <<w>> ELSE <<>>

\* It has no repetition, and its elements are known.
LEMMA OneOrNone ==
    ASSUME NEW S, NEW w \in S, NEW c, NEW to
    PROVE  /\ Perhaps(c, to, w) \in Seq(S) /\ NoneTwice(Perhaps(c, to, w))
           /\ Range(Perhaps(c, to, w)) = IF c \in to THEN {w} ELSE {}
<1>1. PICK s : s = Perhaps(c, to, w)
  OBVIOUS
<1>2. CASE c \in to
  <2>1. s = <<w>> /\ s \in Seq(S) /\ DOMAIN s = {1} /\ s[1] = w
    BY <1>1, <1>2 DEF Perhaps
  <2> QED
    BY <1>1, <1>2, <2>1 DEF NoneTwice, Range
<1>3. CASE c \notin to
  <2>1. s = <<>> /\ <<>> \in Seq(S)
    BY <1>1, <1>3 DEF Perhaps
  <2>2. DOMAIN s = {}
    BY <2>1
  <2> QED
    BY <1>1, <1>3, <2>1, <2>2 DEF NoneTwice, Range
<1> QED
  BY <1>2, <1>3

\* A list without its head.
LEMMA WithoutHead ==
    ASSUME NEW S, NEW s \in Seq(S), s # <<>>, NoneTwice(s)
    PROVE  /\ Head(s) \in S /\ Head(s) \in Range(s)
           /\ Len(s) = 1 => Range(s) = {Head(s)}
           /\ Len(s) # 1 => /\ Tail(s) \in Seq(S) /\ Tail(s) # <<>> /\ NoneTwice(Tail(s))
                            /\ Range(Tail(s)) = Range(s) \ {Head(s)}
<1>1. Len(s) \in Nat \ {0} /\ DOMAIN s = 1 .. Len(s) /\ Head(s) = s[1] /\ 1 \in DOMAIN s /\ s[1] \in S
  BY EmptySeq, LenProperties, ElementOfSeq
<1>2. Head(s) \in Range(s)
  BY <1>1 DEF Range
<1>3. Len(s) = 1 => Range(s) = {Head(s)}
  BY <1>1 DEF Range
<1>4. ASSUME Len(s) # 1
      PROVE  /\ Tail(s) \in Seq(S) /\ Tail(s) # <<>> /\ NoneTwice(Tail(s))
             /\ Range(Tail(s)) = Range(s) \ {Head(s)}
  <2>1. PICK u \in Seq(S) : u = Tail(s)
    BY HeadTailProperties
  <2>2. Len(u) = Len(s) - 1 /\ DOMAIN u = 1 .. Len(s) - 1 /\ \A i \in 1 .. Len(s) - 1 : u[i] = s[i + 1]
    BY <1>1, <2>1, HeadTailProperties, LenProperties
  <2>3. u # <<>>
    BY <1>1, <1>4, <2>2, EmptySeq
  <2>4. \A i \in DOMAIN u : i + 1 \in DOMAIN s /\ i + 1 # 1 /\ u[i] = s[i + 1] /\ i \in Int
    BY <1>1, <2>2
  <2>5. NoneTwice(u)
    <3>1. SUFFICES ASSUME NEW i \in DOMAIN u, NEW j \in DOMAIN u, u[i] = u[j] PROVE i = j
      BY DEF NoneTwice
    <3>2. i + 1 = j + 1
      BY <2>4, <3>1 DEF NoneTwice
    <3> QED
      BY <2>4, <3>2
  <2>6. \A i \in DOMAIN s : i # 1 => i - 1 \in DOMAIN u /\ u[i - 1] = s[i]
    BY <1>1, <2>2
  <2>7. Range(u) = Range(s) \ {s[1]}
    <3>1. ASSUME NEW i \in DOMAIN u PROVE u[i] \in Range(s) /\ u[i] # s[1]
      BY <1>1, <2>4 DEF Range, NoneTwice
    <3>2. ASSUME NEW i \in DOMAIN s, s[i] # s[1] PROVE s[i] \in Range(u)
      <4>1. i # 1
        BY <3>2
      <4>2. i - 1 \in DOMAIN u /\ u[i - 1] = s[i]
        BY <2>6, <4>1
      <4> QED
        BY <4>2 DEF Range
    <3> QED
      BY <3>1, <3>2 DEF Range
  <2> QED
    BY <1>1, <2>1, <2>3, <2>5, <2>7
<1> QED
  BY <1>1, <1>2, <1>3, <1>4

----------------------------------------------------------------------------
(* What an event has to tell, and the writes that tell it.                 *)

EventParts == {"before", "after", "event"}
Todo == [ch : Channels, kind : EventParts, dest : {"out", "user"}]

\* The writes of one kind: one for every channel.
LEMMA WritesOnce ==
    ASSUME NEW kind \in EventParts, NEW dest \in {"out", "user"}, NEW to, to \subseteq Channels
    PROVE  /\ Writes(kind, dest, to) \in Seq(Todo) /\ NoneTwice(Writes(kind, dest, to))
           /\ Range(Writes(kind, dest, to)) = {[ch |-> c, kind |-> kind, dest |-> dest] : c \in to}
<1> DEFINE W(c) == [ch |-> c, kind |-> kind, dest |-> dest]
           one(c) == Perhaps(c, to, W(c))
           All == {[ch |-> c, kind |-> kind, dest |-> dest] : c \in {"sms", "im", "mail"}}
<1>1. ASSUME NEW c \in {"sms", "im", "mail"}
      PROVE  one(c) \in Seq(All) /\ NoneTwice(one(c)) /\ Range(one(c)) = IF c \in to THEN {W(c)} ELSE {}
  <2>1. W(c) \in All
    OBVIOUS
  <2>2. PICK w, A : w = W(c) /\ A = All
    OBVIOUS
  <2>3. w \in A
    BY <2>1, <2>2
  <2>4. /\ Perhaps(c, to, w) \in Seq(A) /\ NoneTwice(Perhaps(c, to, w))
        /\ Range(Perhaps(c, to, w)) = IF c \in to THEN {w} ELSE {}
    BY <2>3, OneOrNone
  <2> QED
    BY <2>2, <2>4
<1>2. PICK A, a, b, d : A = All /\ a = one("sms") /\ b = one("im") /\ d = one("mail")
  OBVIOUS
<1>3. /\ a \in Seq(A) /\ NoneTwice(a) /\ Range(a) = IF "sms" \in to THEN {W("sms")} ELSE {}
      /\ b \in Seq(A) /\ NoneTwice(b) /\ Range(b) = IF "im" \in to THEN {W("im")} ELSE {}
      /\ d \in Seq(A) /\ NoneTwice(d) /\ Range(d) = IF "mail" \in to THEN {W("mail")} ELSE {}
  BY <1>1, <1>2
<1>4. W("sms") # W("im") /\ W("sms") # W("mail") /\ W("im") # W("mail")
  OBVIOUS
<1>5. Apart(a, b)
  BY <1>3, <1>4 DEF Apart
<1>6. a \o b \in Seq(A) /\ NoneTwice(a \o b) /\ Range(a \o b) = Range(a) \cup Range(b)
  BY <1>3, <1>5, JoinedLists
<1>7. PICK ab : ab = a \o b
  OBVIOUS
<1>8. Apart(ab, d)
  BY <1>3, <1>4, <1>6, <1>7 DEF Apart
<1>9. ab \in Seq(A) /\ NoneTwice(ab)
  BY <1>6, <1>7
<1>10. ab \o d \in Seq(A) /\ NoneTwice(ab \o d) /\ Range(ab \o d) = Range(ab) \cup Range(d)
  BY <1>3, <1>9, <1>8, JoinedLists
<1>11. PICK s : s = ab \o d
  OBVIOUS
<1>12. Writes(kind, dest, to) = s
  BY <1>2, <1>7, <1>11 DEF Writes, Perhaps
<1>13. to \subseteq {"sms", "im", "mail"}
  BY AlarmAssumption
<1>14. Range(s) = {[ch |-> c, kind |-> kind, dest |-> dest] : c \in to}
  <2>1. Range(s) = Range(a) \cup Range(b) \cup Range(d)
    BY <1>6, <1>7, <1>10, <1>11
  <2>2. \A v : v \in Range(s) <=> \E c \in to : v = W(c)
    BY <1>3, <1>13, <2>1
  <2> QED
    BY <2>2
<1>15. s \in Seq(Todo)
  <2>1. Range(s) \subseteq Todo
    BY <1>14 DEF Todo
  <2>2. s \in Seq(A)
    BY <1>10, <1>11
  <2>3. Len(s) \in Nat /\ DOMAIN s = 1 .. Len(s) /\ s \in [1 .. Len(s) -> A]
    BY <2>2, LenProperties
  <2>4. s \in [1 .. Len(s) -> Todo]
    BY <2>1, <2>3 DEF Range
  <2> QED
    BY <2>3, <2>4, SeqDef
<1> QED
  BY <1>10, <1>11, <1>12, <1>14, <1>15

Plan(r, e) == HandleCallback(e) \o consumeEvents(r, e)
EventDest(r) == IF r = "high" THEN "out" ELSE "user"
PartWanted(kind, ch, e) == IF kind = "event" THEN Wanted(ch, e) ELSE Around(kind, ch, e)

\* All writes of an event: one for every channel and kind.
LEMMA PlanOnce ==
    ASSUME NEW r, NEW e
    PROVE  /\ Plan(r, e) \in Seq(Todo) /\ NoneTwice(Plan(r, e))
           /\ Range(Plan(r, e)) = {[ch |-> p[1], kind |-> p[2], dest |-> IF p[2] = "event" THEN EventDest(r) ELSE "out"] :
                                     p \in {q \in Channels \X EventParts : PartWanted(q[2], q[1], e)}}
<1>1. PICK A, B, C : /\ A = {ch \in Channels : Around("before", ch, e)}
                     /\ B = {ch \in Channels : Around("after", ch, e)}
                     /\ C = {ch \in Channels : Wanted(ch, e)}
  OBVIOUS
<1>2. PICK dest \in {"out", "user"} : dest = EventDest(r)
  BY DEF EventDest
<1>3. A \subseteq Channels /\ B \subseteq Channels /\ C \subseteq Channels
  BY <1>1
<1>4. PICK a, b, c : a = Writes("before", "out", A) /\ b = Writes("after", "out", B) /\ c = Writes("event", dest, C)
  OBVIOUS
<1>5. /\ a \in Seq(Todo) /\ NoneTwice(a) /\ Range(a) = {[ch |-> x, kind |-> "before", dest |-> "out"] : x \in A}
      /\ b \in Seq(Todo) /\ NoneTwice(b) /\ Range(b) = {[ch |-> x, kind |-> "after", dest |-> "out"] : x \in B}
      /\ c \in Seq(Todo) /\ NoneTwice(c) /\ Range(c) = {[ch |-> x, kind |-> "event", dest |-> dest] : x \in C}
  BY <1>3, <1>4, WritesOnce DEF EventParts
<1>6. /\ \A v \in Range(a) : v.kind = "before"
      /\ \A v \in Range(b) : v.kind = "after"
      /\ \A v \in Range(c) : v.kind = "event"
  BY <1>5
<1>7. Apart(a, b)
  BY <1>6 DEF Apart
<1>8. PICK ab : ab = a \o b /\ ab \in Seq(Todo) /\ NoneTwice(ab) /\ Range(ab) = Range(a) \cup Range(b)
  BY <1>5, <1>7, JoinedLists
<1>9. Apart(ab, c)
  BY <1>6, <1>8 DEF Apart
<1>10. ab \in Seq(Todo) /\ NoneTwice(ab)
  BY <1>8
<1>11. ab \o c \in Seq(Todo) /\ NoneTwice(ab \o c) /\ Range(ab \o c) = Range(ab) \cup Range(c)
  BY <1>5, <1>10, <1>9, JoinedLists
<1>12. Plan(r, e) = ab \o c
  BY <1>1, <1>2, <1>4, <1>8 DEF Plan, HandleCallback, consumeEvents, EventDest
<1>13. PICK P : P = {[ch |-> p[1], kind |-> p[2], dest |-> IF p[2] = "event" THEN EventDest(r) ELSE "out"] :
                                     p \in {q \in Channels \X EventParts : PartWanted(q[2], q[1], e)}}
  OBVIOUS
<1>14. ASSUME NEW v PROVE v \in Range(a) \cup Range(b) \cup Range(c) <=> v \in P
  <2>1. ASSUME v \in P PROVE v \in Range(a) \cup Range(b) \cup Range(c)
    <3>1. PICK p \in Channels \X EventParts : /\ PartWanted(p[2], p[1], e)
              /\ v = [ch |-> p[1], kind |-> p[2], dest |-> IF p[2] = "event" THEN EventDest(r) ELSE "out"]
      BY <1>13, <2>1
    <3>2. PICK x, k : x = p[1] /\ k = p[2]
      OBVIOUS
    <3>3. x \in Channels /\ (k = "before" \/ k = "after" \/ k = "event")
      BY <3>1, <3>2 DEF EventParts
    <3>4. CASE k = "before"
      BY <1>1, <1>5, <3>1, <3>2, <3>3, <3>4 DEF PartWanted
    <3>5. CASE k = "after"
      BY <1>1, <1>5, <3>1, <3>2, <3>3, <3>5 DEF PartWanted
    <3>6. CASE k = "event"
      BY <1>1, <1>2, <1>5, <3>1, <3>2, <3>3, <3>6 DEF PartWanted
    <3> QED
      BY <3>3, <3>4, <3>5, <3>6
  <2>2. ASSUME NEW x \in Channels, NEW k \in EventParts, PartWanted(k, x, e),
               v = [ch |-> x, kind |-> k, dest |-> IF k = "event" THEN EventDest(r) ELSE "out"]
        PROVE  v \in P
    <3>1. PICK p : p = <<x, k>>
      OBVIOUS
    <3>2. p \in Channels \X EventParts /\ p[1] = x /\ p[2] = k
      BY <3>1
    <3> QED
      BY <1>13, <2>2, <3>2
  <2>3. ASSUME v \in Range(a) PROVE v \in P
    <3>1. PICK x \in A : v = [ch |-> x, kind |-> "before", dest |-> "out"]
      BY <1>5, <2>3
    <3>2. x \in Channels /\ PartWanted("before", x, e) /\ "before" \in EventParts
      BY <1>1 DEF PartWanted, EventParts
    <3> QED
      BY <2>2, <3>1, <3>2
  <2>4. ASSUME v \in Range(b) PROVE v \in P
    <3>1. PICK x \in B : v = [ch |-> x, kind |-> "after", dest |-> "out"]
      BY <1>5, <2>4
    <3>2. x \in Channels /\ PartWanted("after", x, e) /\ "after" \in EventParts
      BY <1>1 DEF PartWanted, EventParts
    <3> QED
      BY <2>2, <3>1, <3>2
  <2>5. ASSUME v \in Range(c) PROVE v \in P
    <3>1. PICK x \in C : v = [ch |-> x, kind |-> "event", dest |-> dest]
      BY <1>5, <2>5
    <3>2. x \in Channels /\ PartWanted("event", x, e) /\ "event" \in EventParts
      BY <1>1 DEF PartWanted, EventParts
    <3> QED
      BY <1>2, <2>2, <3>1, <3>2
  <2> QED
    BY <2>1, <2>3, <2>4, <2>5
<1> QED
  BY <1>8, <1>11, <1>12, <1>13, <1>14

\* What an event has to tell, one by one.
LEMMA OwedIs ==
    ASSUME NEW e, NEW x
    PROVE  x \in Owed(e) <=> \E ch \in Channels, u \in TeamMembers, kind \in EventParts :
                               <<u, ch>> \in HasContact /\ PartWanted(kind, ch, e) /\ x = <<ch, u, Said(e, kind)>>
<1>1. ASSUME NEW ch \in Channels, NEW u \in TeamMembers, NEW kind \in EventParts,
             <<u, ch>> \in HasContact, PartWanted(kind, ch, e), x = <<ch, u, Said(e, kind)>>
      PROVE  x \in Owed(e)
  <2>1. PICK d : d = <<ch, u, kind>>
    OBVIOUS
  <2>2. d \in Channels \X TeamMembers \X {"event", "before", "after"} /\ d[1] = ch /\ d[2] = u /\ d[3] = kind
    BY <2>1 DEF EventParts
  <2> QED
    BY <1>1, <2>2 DEF Owed, PartWanted
<1>2. ASSUME x \in Owed(e)
      PROVE  \E ch \in Channels, u \in TeamMembers, kind \in EventParts :
                <<u, ch>> \in HasContact /\ PartWanted(kind, ch, e) /\ x = <<ch, u, Said(e, kind)>>
  <2>1. PICK d \in Channels \X TeamMembers \X {"event", "before", "after"} :
          /\ <<d[2], d[1]>> \in HasContact /\ x = <<d[1], d[2], Said(e, d[3])>>
          /\ IF d[3] = "event" THEN Wanted(d[1], e) ELSE Around(d[3], d[1], e)
    BY <1>2 DEF Owed
  <2>2. d[1] \in Channels /\ d[2] \in TeamMembers /\ d[3] \in EventParts
    BY <2>1 DEF EventParts
  <2> QED
    BY <2>1, <2>2 DEF PartWanted
<1> QED
  BY <1>1, <1>2

\* What one write tells.
LEMMA TodoTells ==
    ASSUME NEW e, NEW w, NEW x
    PROVE  x \in TodoTold(e, w) <=> \E u \in Reachable(w.ch) : x = <<w.ch, u, Said(e, w.kind)>>
BY DEF TodoTold

\* The writes of an event tell what it owes, no two of them the same.
LEMMA PlanTells ==
    ASSUME NEW r, NEW e, NEW x
    PROVE  /\ x \in Owed(e) <=> \E w \in Range(Plan(r, e)) : x \in TodoTold(e, w)
           /\ \A v, w \in Range(Plan(r, e)) : x \in TodoTold(e, v) /\ x \in TodoTold(e, w) => v = w
<1> DEFINE Dest(k) == IF k = "event" THEN EventDest(r) ELSE "out"
<1>1. ASSUME NEW w
      PROVE  w \in Range(Plan(r, e)) <=> \E c \in Channels, k \in EventParts :
                                          PartWanted(k, c, e) /\ w = [ch |-> c, kind |-> k, dest |-> Dest(k)]
  <2>1. Range(Plan(r, e)) = {[ch |-> p[1], kind |-> p[2], dest |-> IF p[2] = "event" THEN EventDest(r) ELSE "out"] :
                              p \in {q \in Channels \X EventParts : PartWanted(q[2], q[1], e)}}
    BY PlanOnce
  <2>2. ASSUME NEW c \in Channels, NEW k \in EventParts, PartWanted(k, c, e),
               w = [ch |-> c, kind |-> k, dest |-> Dest(k)]
        PROVE  w \in Range(Plan(r, e))
    <3>1. PICK p : p = <<c, k>>
      OBVIOUS
    <3>2. p \in Channels \X EventParts /\ p[1] = c /\ p[2] = k
      BY <3>1
    <3> QED
      BY <2>1, <2>2, <3>2
  <2>3. ASSUME w \in Range(Plan(r, e))
        PROVE  \E c \in Channels, k \in EventParts :
                  PartWanted(k, c, e) /\ w = [ch |-> c, kind |-> k, dest |-> Dest(k)]
    <3>1. PICK p \in Channels \X EventParts : /\ PartWanted(p[2], p[1], e)
              /\ w = [ch |-> p[1], kind |-> p[2], dest |-> IF p[2] = "event" THEN EventDest(r) ELSE "out"]
      BY <2>1, <2>3
    <3>2. p[1] \in Channels /\ p[2] \in EventParts
      BY <3>1
    <3> QED
      BY <3>1, <3>2
  <2> QED
    BY <2>2, <2>3
<1> HIDE DEF Dest
<1>2. ASSUME x \in Owed(e) PROVE \E w \in Range(Plan(r, e)) : x \in TodoTold(e, w)
  <2>1. PICK c \in Channels, u \in TeamMembers, k \in EventParts :
          <<u, c>> \in HasContact /\ PartWanted(k, c, e) /\ x = <<c, u, Said(e, k)>>
    BY <1>2, OwedIs
  <2>2. PICK w : w = [ch |-> c, kind |-> k, dest |-> Dest(k)]
    OBVIOUS
  <2>3. w \in Range(Plan(r, e)) /\ w.ch = c /\ w.kind = k
    BY <1>1, <2>1, <2>2
  <2>4. u \in Reachable(c)
    BY <2>1 DEF Reachable
  <2>5. x \in TodoTold(e, w)
    BY <2>1, <2>3, <2>4, TodoTells
  <2> QED
    BY <2>3, <2>5
<1>3. ASSUME NEW w \in Range(Plan(r, e)), x \in TodoTold(e, w)
      PROVE  x \in Owed(e) /\ w.ch = x[1] /\ w.kind = x[3].kind /\ w = [ch |-> w.ch, kind |-> w.kind, dest |-> Dest(w.kind)]
  <2>1. PICK c \in Channels, k \in EventParts : PartWanted(k, c, e) /\ w = [ch |-> c, kind |-> k, dest |-> Dest(k)]
    BY <1>1, <1>3
  <2>2. w.ch = c /\ w.kind = k
    BY <2>1
  <2>3. PICK u \in Reachable(c) : x = <<c, u, Said(e, k)>>
    BY <1>3, <2>2, TodoTells
  <2>4. u \in TeamMembers /\ <<u, c>> \in HasContact
    BY <2>3 DEF Reachable
  <2>5. x \in Owed(e)
    BY <2>1, <2>3, <2>4, OwedIs
  <2>6. x[1] = c /\ x[3].kind = k
    BY <2>3 DEF Said
  <2> QED
    BY <2>1, <2>2, <2>5, <2>6
<1> QED
  BY <1>2, <1>3

----------------------------------------------------------------------------
(* Where something is.                                                     *)

InQueue(x, Q, m) == \E ch \in Channels : m \in Q[ch] /\ x \in Told(ch, m)

\* With a reader: as part of an event it has not looked at, or of a write to come.
InReader(x, rd, y) ==
    /\ rd # Idle
    /\ \/ rd.at = "action" /\ y = "action" /\ x \in Owed(rd.event)
       \/ rd.at = "write" /\ y \in Range(rd.todo) /\ x \in TodoTold(rd.event, y)

\* x is at y, at stage t.
At(x, t, y) ==
    \/ t = "event" /\ y \in eventQ /\ x \in Owed(y)
    \/ t = "high" /\ InReader(x, reader["high"], y)
    \/ t = "low" /\ InReader(x, reader["low"], y)
    \/ t = "user" /\ InQueue(x, userQ, y)
    \/ t = "combining" /\ InQueue(x, combining, y)
    \/ t = "out" /\ InQueue(x, outQ, y)
    \/ t = "sending" /\ InQueue(x, sending, y)
    \/ t = "working" /\ InQueue(x, working, y)
    \/ t = "delivered" /\ y = "gateway" /\ x \in delivered
    \/ t = "lost" /\ y = "fault" /\ x \in lost

Once == \A x, t, y, a, b : At(x, t, y) /\ At(x, a, b) => t = a /\ y = b
Covers == \A x : (\E t, y : At(x, t, y)) <=> (\E e \in pushed : x \in Owed(e))

ReaderOK(rd) ==
    \/ rd = Idle
    \/ \E n \in Nat \ {0} : \E e, at, s :
         /\ rd = [ev |-> n, event |-> e, at |-> at, todo |-> s]
         /\ \/ at = "action"
            \/ at = "write" /\ s \in Seq(Todo) /\ s # <<>> /\ NoneTwice(s)

AlarmShape ==
    /\ DOMAIN userQ = Channels /\ DOMAIN combining = Channels /\ DOMAIN outQ = Channels
    /\ DOMAIN sending = Channels /\ DOMAIN working = Channels
    /\ DOMAIN reader = AlarmReaders
    /\ \A r \in AlarmReaders : ReaderOK(reader[r])
    /\ eventQ \subseteq pushed /\ IsFiniteSet(pushed)
    /\ \A e \in pushed : e.id \in 1 .. Cardinality(pushed) /\ e.prio \in Nat

AlarmInv == AlarmShape /\ Once /\ Covers

\* The stages, one by one.
LEMMA AtIs ==
    ASSUME NEW x, NEW y
    PROVE  /\ At(x, "event", y) <=> y \in eventQ /\ x \in Owed(y)
           /\ At(x, "high", y) <=> InReader(x, reader["high"], y)
           /\ At(x, "low", y) <=> InReader(x, reader["low"], y)
           /\ At(x, "user", y) <=> InQueue(x, userQ, y)
           /\ At(x, "combining", y) <=> InQueue(x, combining, y)
           /\ At(x, "out", y) <=> InQueue(x, outQ, y)
           /\ At(x, "sending", y) <=> InQueue(x, sending, y)
           /\ At(x, "working", y) <=> InQueue(x, working, y)
           /\ At(x, "delivered", y) <=> y = "gateway" /\ x \in delivered
           /\ At(x, "lost", y) <=> y = "fault" /\ x \in lost
BY DEF At

\* The same after a step.
LEMMA AtIsNext ==
    ASSUME NEW x, NEW y
    PROVE  /\ At(x, "event", y)' <=> y \in eventQ' /\ x \in Owed(y)
           /\ At(x, "high", y)' <=> InReader(x, reader'["high"], y)
           /\ At(x, "low", y)' <=> InReader(x, reader'["low"], y)
           /\ At(x, "user", y)' <=> InQueue(x, userQ', y)
           /\ At(x, "combining", y)' <=> InQueue(x, combining', y)
           /\ At(x, "out", y)' <=> InQueue(x, outQ', y)
           /\ At(x, "sending", y)' <=> InQueue(x, sending', y)
           /\ At(x, "working", y)' <=> InQueue(x, working', y)
           /\ At(x, "delivered", y)' <=> y = "gateway" /\ x \in delivered'
           /\ At(x, "lost", y)' <=> y = "fault" /\ x \in lost'
BY DEF At

\* A queue from which messages are taken, and one to which some are added.
LEMMA QueueLess ==
    ASSUME NEW Q, DOMAIN Q = Channels, NEW ch \in Channels, NEW S, NEW x, NEW m
    PROVE  InQueue(x, [Q EXCEPT ![ch] = Q[ch] \ S], m)
             <=> InQueue(x, Q, m) /\ ~(m \in S /\ x \in Told(ch, m))
<1>1. PICK R : R = [Q EXCEPT ![ch] = Q[ch] \ S]
  OBVIOUS
<1>2. R[ch] = Q[ch] \ S /\ \A c \in Channels : c # ch => R[c] = Q[c]
  BY <1>1
<1>3. \A c \in Channels : x \in Told(c, m) /\ x \in Told(ch, m) => c = ch
  BY DEF Told
<1>4. InQueue(x, R, m) <=> InQueue(x, Q, m) /\ ~(m \in S /\ x \in Told(ch, m))
  BY <1>2, <1>3 DEF InQueue
<1> QED
  BY <1>1, <1>4

\* The same with messages added.
LEMMA QueueMore ==
    ASSUME NEW Q, DOMAIN Q = Channels, NEW ch \in Channels, NEW S, NEW x, NEW m
    PROVE  InQueue(x, [Q EXCEPT ![ch] = Q[ch] \cup S], m)
             <=> InQueue(x, Q, m) \/ (m \in S /\ x \in Told(ch, m))
<1>1. PICK R : R = [Q EXCEPT ![ch] = Q[ch] \cup S]
  OBVIOUS
<1>2. R[ch] = Q[ch] \cup S /\ \A c \in Channels : c # ch => R[c] = Q[c]
  BY <1>1
<1>3. InQueue(x, R, m) <=> InQueue(x, Q, m) \/ (m \in S /\ x \in Told(ch, m))
  BY <1>2 DEF InQueue
<1> QED
  BY <1>1, <1>3

\* What is in a queue or with a reader, at some place of it.
LEMMA QueueTells ==
    ASSUME NEW Q, NEW x
    PROVE  x \in AllTold(Q) <=> \E m : InQueue(x, Q, m)
BY DEF AllTold, InQueue

\* What a reader in each of its states has to tell.
LEMMA ReaderTells ==
    ASSUME NEW n \in Nat \ {0}, NEW e, NEW s, NEW x, NEW y
    PROVE  /\ ~InReader(x, Idle, y)
           /\ InReader(x, [ev |-> n, event |-> e, at |-> "action", todo |-> s], y) <=> y = "action" /\ x \in Owed(e)
           /\ InReader(x, [ev |-> n, event |-> e, at |-> "write", todo |-> s], y)
                 <=> y \in Range(s) /\ x \in TodoTold(e, y)
<1>1. PICK a : a = [ev |-> n, event |-> e, at |-> "action", todo |-> s]
  OBVIOUS
<1>2. PICK b : b = [ev |-> n, event |-> e, at |-> "write", todo |-> s]
  OBVIOUS
<1>3. Idle.ev = 0
  BY DEF Idle
<1>4. a # Idle /\ b # Idle
  BY <1>1, <1>2, <1>3
<1>5. ~InReader(x, Idle, y)
  BY DEF InReader
<1>6. InReader(x, a, y) <=> y = "action" /\ x \in Owed(e)
  BY <1>1, <1>4 DEF InReader
<1>7. InReader(x, b, y) <=> y \in Range(s) /\ x \in TodoTold(e, y)
  BY <1>2, <1>4 DEF InReader
<1> QED
  BY <1>1, <1>2, <1>5, <1>6, <1>7

\* A step that only moves things: those in M have a place before and one after.
LEMMA Rearranged ==
    ASSUME AlarmInv, AlarmShape', pushed' = pushed, NEW M,
           \A x, t, y : x \notin M => (At(x, t, y)' <=> At(x, t, y)),
           \A x \in M : \E t, y : At(x, t, y),
           \A x \in M : \E t, y : At(x, t, y)' /\ \A c, d : At(x, c, d)' => c = t /\ d = y
    PROVE  AlarmInv'
<1>1. Once'
  <2>1. SUFFICES ASSUME NEW x, NEW t, NEW y, NEW a, NEW b, At(x, t, y)', At(x, a, b)' PROVE t = a /\ y = b
    BY DEF Once
  <2>2. CASE x \in M
    BY <2>1, <2>2
  <2>3. CASE x \notin M
    BY <2>1, <2>3 DEF AlarmInv, Once
  <2> QED
    BY <2>2, <2>3
<1>2. Covers'
  <2>1. SUFFICES ASSUME NEW x PROVE (\E t, y : At(x, t, y)') <=> (\E e \in pushed : x \in Owed(e))
    BY DEF Covers
  <2>2. (\E t, y : At(x, t, y)') <=> (\E t, y : At(x, t, y))
    <3>1. CASE x \in M
      BY <3>1
    <3>2. CASE x \notin M
      BY <3>2
    <3> QED
      BY <3>1, <3>2
  <2> QED
    BY <2>2 DEF AlarmInv, Covers
<1> QED
  BY <1>1, <1>2 DEF AlarmInv

\* How a step changes two stages, a and b: the messages S of a channel leave the
\* one and come to the other, as they are or merged into z.
OnlyTouches(a, b) == \A x, t, y : t # a /\ t # b => (At(x, t, y)' <=> At(x, t, y))
Had(a, ch, S) == \A x, y : y \in S /\ x \in Told(ch, y) => At(x, a, y)
Loses(a, ch, S) == \A x, y : At(x, a, y)' <=> At(x, a, y) /\ ~(y \in S /\ x \in Told(ch, y))
Gains(b, ch, S) == \A x, y : At(x, b, y)' <=> At(x, b, y) \/ (y \in S /\ x \in Told(ch, y))
GainsAt(b, ch, S, z) == \A x, y : At(x, b, y)' <=> At(x, b, y) \/ (y = z /\ \E m \in S : x \in Told(ch, m))

\* Messages carried from one stage to the next.
LEMMA Carried ==
    ASSUME AlarmInv, AlarmShape', pushed' = pushed, NEW a, NEW b, a # b, NEW ch, NEW S,
           OnlyTouches(a, b), Loses(a, ch, S), Gains(b, ch, S), Had(a, ch, S)
    PROVE  AlarmInv'
<1>1. PICK M : M = UNION {Told(ch, m) : m \in S}
  OBVIOUS
<1>2. \A x : x \in M <=> \E m \in S : x \in Told(ch, m)
  BY <1>1
<1>3. \A x, t, y : x \notin M => (At(x, t, y)' <=> At(x, t, y))
  BY <1>2 DEF OnlyTouches, Loses, Gains
<1>4. \A x \in M : \E t, y : At(x, t, y)
  BY <1>2 DEF Had
<1>5. ASSUME NEW x \in M PROVE \E t, y : At(x, t, y)' /\ \A c, d : At(x, c, d)' => c = t /\ d = y
  <2>1. PICK m \in S : x \in Told(ch, m)
    BY <1>2
  <2>2. At(x, a, m) /\ At(x, b, m)'
    BY <2>1 DEF Had, Gains
  <2>3. \A c, d : At(x, c, d) => c = a /\ d = m
    BY <2>2 DEF AlarmInv, Once
  <2>4. \A c, d : At(x, c, d)' => c = b /\ d = m
    BY <2>1, <2>2, <2>3 DEF OnlyTouches, Had, Loses, Gains
  <2> QED
    BY <2>2, <2>4
<1> QED
  BY <1>3, <1>4, <1>5, Rearranged

\* Messages merged into one place of another stage.
LEMMA Merged ==
    ASSUME AlarmInv, AlarmShape', pushed' = pushed, NEW a, NEW b, a # b, NEW ch, NEW S, NEW z,
           OnlyTouches(a, b), Loses(a, ch, S), GainsAt(b, ch, S, z), Had(a, ch, S)
    PROVE  AlarmInv'
<1>1. PICK M : M = UNION {Told(ch, m) : m \in S}
  OBVIOUS
<1>2. \A x : x \in M <=> \E m \in S : x \in Told(ch, m)
  BY <1>1
<1>3. \A x, t, y : x \notin M => (At(x, t, y)' <=> At(x, t, y))
  BY <1>2 DEF OnlyTouches, Loses, GainsAt
<1>4. \A x \in M : \E t, y : At(x, t, y)
  BY <1>2 DEF Had
<1>5. ASSUME NEW x \in M PROVE \E t, y : At(x, t, y)' /\ \A c, d : At(x, c, d)' => c = t /\ d = y
  <2>1. PICK m \in S : x \in Told(ch, m)
    BY <1>2
  <2>2. At(x, a, m) /\ At(x, b, z)'
    BY <2>1 DEF Had, GainsAt
  <2>3. \A c, d : At(x, c, d) => c = a /\ d = m
    BY <2>2 DEF AlarmInv, Once
  <2>4. \A c, d : At(x, c, d)' => c = b /\ d = z
    BY <2>1, <2>2, <2>3 DEF OnlyTouches, Had, Loses, GainsAt
  <2> QED
    BY <2>2, <2>4
<1> QED
  BY <1>3, <1>4, <1>5, Rearranged

\* popAllDto: entries from the queue of a channel into the memory of the combiner.
LEMMA PopAllDtoStep == ASSUME AlarmInv, NEW ch \in Channels, popAllDto(ch) PROVE AlarmInv'
<1>1. PICK S \in SUBSET userQ[ch] : /\ userQ' = [userQ EXCEPT ![ch] = userQ[ch] \ S]
                                    /\ combining' = [combining EXCEPT ![ch] = S]
  BY DEF popAllDto
<1>2. UNCHANGED <<eventQ, outQ, reader, sending, working, delivered, lost, pushed>> /\ combining[ch] = {}
  BY DEF popAllDto
<1>3. AlarmShape
  BY DEF AlarmInv
<1>4. combining' = [combining EXCEPT ![ch] = combining[ch] \cup S]
  BY <1>1, <1>2
<1>5. AlarmShape'
  BY <1>1, <1>2, <1>3 DEF AlarmShape
<1>6. OnlyTouches("user", "combining")
  BY <1>2 DEF At, OnlyTouches
<1>7. Loses("user", ch, S)
  <2>1. \A x, y : InQueue(x, userQ', y) <=> InQueue(x, userQ, y) /\ ~(y \in S /\ x \in Told(ch, y))
    BY <1>1, <1>3, QueueLess DEF AlarmShape
  <2> QED
    BY <2>1, AtIs, AtIsNext DEF Loses
<1>8. Gains("combining", ch, S)
  <2>1. \A x, y : InQueue(x, combining', y) <=> InQueue(x, combining, y) \/ (y \in S /\ x \in Told(ch, y))
    BY <1>3, <1>4, QueueMore DEF AlarmShape
  <2> QED
    BY <2>1, AtIs, AtIsNext DEF Gains
<1>9. Had("user", ch, S)
  BY <1>1, AtIs DEF InQueue, Had
<1> QED
  BY <1>2, <1>5, <1>6, <1>7, <1>8, <1>9, Carried

\* combine: a group of entries becomes one message to their receiver.
LEMMA CombineStep == ASSUME AlarmInv, NEW ch \in Channels, combine(ch) PROVE AlarmInv'
<1>1. PICK e \in combining[ch] :
        LET group == {f \in combining[ch] : SameGroup(e, f)} IN
        /\ outQ' = [outQ EXCEPT ![ch] = outQ[ch] \cup {Message(e.tos, UNION {f.said : f \in group})}]
        /\ combining' = [combining EXCEPT ![ch] = combining[ch] \ group]
  BY DEF combine
<1>2. PICK S, z : S = {f \in combining[ch] : SameGroup(e, f)} /\ z = Message(e.tos, UNION {f.said : f \in S})
  OBVIOUS
<1>3. outQ' = [outQ EXCEPT ![ch] = outQ[ch] \cup {z}] /\ combining' = [combining EXCEPT ![ch] = combining[ch] \ S]
  BY <1>1, <1>2
<1>4. UNCHANGED <<eventQ, userQ, reader, sending, working, delivered, lost, pushed>>
  BY DEF combine
<1>5. AlarmShape /\ DOMAIN outQ = Channels /\ DOMAIN combining = Channels
  BY DEF AlarmInv, AlarmShape
<1>6. AlarmShape'
  BY <1>3, <1>4, <1>5 DEF AlarmShape
<1>7. OnlyTouches("combining", "out")
  BY <1>4 DEF At, OnlyTouches
<1>8. Loses("combining", ch, S)
  <2>1. \A x, y : InQueue(x, combining', y) <=> InQueue(x, combining, y) /\ ~(y \in S /\ x \in Told(ch, y))
    BY <1>3, <1>5, QueueLess
  <2> QED
    BY <2>1, AtIs, AtIsNext DEF Loses
<1>9. GainsAt("out", ch, S, z)
  <2>1. PICK Z : Z = {z}
    OBVIOUS
  <2>2. \A x, y : InQueue(x, outQ', y) <=> InQueue(x, outQ, y) \/ (y \in Z /\ x \in Told(ch, y))
    BY <1>3, <1>5, <2>1, QueueMore
  <2>3. ASSUME NEW x PROVE x \in Told(ch, z) <=> \E m \in S : x \in Told(ch, m)
    <3>1. z.tos = e.tos /\ z.said = UNION {f.said : f \in S}
      BY <1>2 DEF Message
    <3>2. \A f \in S : f.tos = e.tos
      BY <1>2 DEF SameGroup
    <3> QED
      BY <3>1, <3>2 DEF Told
  <2> QED
    BY <2>1, <2>2, <2>3, AtIs, AtIsNext DEF GainsAt
<1>10. Had("combining", ch, S)
  BY <1>2, AtIs DEF InQueue, Had
<1> QED
  BY <1>4, <1>6, <1>7, <1>8, <1>9, <1>10, Merged

\* combineUnlinked: a group becomes a message that says nothing, what it tells is lost.
LEMMA CombineUnlinkedStep == ASSUME AlarmInv, NEW ch \in Channels, combineUnlinked(ch) PROVE AlarmInv'
<1>1. PICK e \in combining[ch] :
        LET group == {f \in combining[ch] : SameGroup(e, f)} IN
        /\ outQ' = [outQ EXCEPT ![ch] = outQ[ch] \cup {Message(e.tos, {})}]
        /\ lost' = lost \cup UNION {Told(ch, f) : f \in group}
        /\ combining' = [combining EXCEPT ![ch] = combining[ch] \ group]
  BY DEF combineUnlinked
<1>2. PICK S, Z : S = {f \in combining[ch] : SameGroup(e, f)} /\ Z = {Message(e.tos, {})}
  OBVIOUS
<1>3. /\ outQ' = [outQ EXCEPT ![ch] = outQ[ch] \cup Z]
      /\ lost' = lost \cup UNION {Told(ch, f) : f \in S}
      /\ combining' = [combining EXCEPT ![ch] = combining[ch] \ S]
  BY <1>1, <1>2
<1>4. UNCHANGED <<eventQ, userQ, reader, sending, working, delivered, pushed>>
  BY DEF combineUnlinked
<1>5. AlarmShape /\ DOMAIN outQ = Channels /\ DOMAIN combining = Channels
  BY DEF AlarmInv, AlarmShape
<1>6. AlarmShape'
  BY <1>3, <1>4, <1>5 DEF AlarmShape
<1>7. \A x, y : InQueue(x, outQ', y) <=> InQueue(x, outQ, y)
  <2>1. \A x, y : InQueue(x, outQ', y) <=> InQueue(x, outQ, y) \/ (y \in Z /\ x \in Told(ch, y))
    BY <1>3, <1>5, QueueMore
  <2>2. \A x, y : y \in Z => x \notin Told(ch, y)
    BY <1>2 DEF Told, Message
  <2> QED
    BY <2>1, <2>2
<1>8. OnlyTouches("combining", "lost")
  BY <1>4, <1>7 DEF At, OnlyTouches
<1>9. Loses("combining", ch, S)
  <2>1. \A x, y : InQueue(x, combining', y) <=> InQueue(x, combining, y) /\ ~(y \in S /\ x \in Told(ch, y))
    BY <1>3, <1>5, QueueLess
  <2> QED
    BY <2>1, AtIs, AtIsNext DEF Loses
<1>10. GainsAt("lost", ch, S, "fault")
  BY <1>3, AtIs, AtIsNext DEF GainsAt
<1>11. Had("combining", ch, S)
  BY <1>2, AtIs DEF InQueue, Had
<1> QED
  BY <1>4, <1>6, <1>8, <1>9, <1>10, <1>11, Merged

\* combineFails: a group that cannot be written is lost.
LEMMA CombineFailsStep == ASSUME AlarmInv, NEW ch \in Channels, combineFails(ch) PROVE AlarmInv'
<1>1. PICK e \in combining[ch] :
        LET group == {f \in combining[ch] : SameGroup(e, f)} IN
        /\ lost' = lost \cup UNION {Told(ch, f) : f \in group}
        /\ combining' = [combining EXCEPT ![ch] = combining[ch] \ group]
  BY DEF combineFails
<1>2. PICK S : S = {f \in combining[ch] : SameGroup(e, f)}
  OBVIOUS
<1>3. lost' = lost \cup UNION {Told(ch, f) : f \in S} /\ combining' = [combining EXCEPT ![ch] = combining[ch] \ S]
  BY <1>1, <1>2
<1>4. UNCHANGED <<eventQ, userQ, outQ, reader, sending, working, delivered, pushed>>
  BY DEF combineFails
<1>5. AlarmShape /\ DOMAIN combining = Channels
  BY DEF AlarmInv, AlarmShape
<1>6. AlarmShape'
  BY <1>3, <1>4, <1>5 DEF AlarmShape
<1>7. OnlyTouches("combining", "lost")
  BY <1>4 DEF At, OnlyTouches
<1>8. Loses("combining", ch, S)
  <2>1. \A x, y : InQueue(x, combining', y) <=> InQueue(x, combining, y) /\ ~(y \in S /\ x \in Told(ch, y))
    BY <1>3, <1>5, QueueLess
  <2> QED
    BY <2>1, AtIs, AtIsNext DEF Loses
<1>9. GainsAt("lost", ch, S, "fault")
  BY <1>3, AtIs, AtIsNext DEF GainsAt
<1>10. Had("combining", ch, S)
  BY <1>2, AtIs DEF InQueue, Had
<1> QED
  BY <1>4, <1>6, <1>7, <1>8, <1>9, <1>10, Merged

\* Consume: messages from the queue of a channel into the memory of the sender.
LEMMA ConsumeStep == ASSUME AlarmInv, NEW ch \in Channels, Consume(ch) PROVE AlarmInv'
<1>1. PICK S \in SUBSET outQ[ch] : /\ outQ' = [outQ EXCEPT ![ch] = outQ[ch] \ S]
                                   /\ sending' = [sending EXCEPT ![ch] = S]
  BY DEF Consume
<1>2. UNCHANGED <<eventQ, userQ, reader, combining, working, delivered, lost, pushed>> /\ sending[ch] = {}
  BY DEF Consume
<1>3. AlarmShape
  BY DEF AlarmInv
<1>4. sending' = [sending EXCEPT ![ch] = sending[ch] \cup S]
  BY <1>1, <1>2
<1>5. AlarmShape'
  BY <1>1, <1>2, <1>3 DEF AlarmShape
<1>6. OnlyTouches("out", "sending")
  BY <1>2 DEF At, OnlyTouches
<1>7. Loses("out", ch, S)
  <2>1. \A x, y : InQueue(x, outQ', y) <=> InQueue(x, outQ, y) /\ ~(y \in S /\ x \in Told(ch, y))
    BY <1>1, <1>3, QueueLess DEF AlarmShape
  <2> QED
    BY <2>1, AtIs, AtIsNext DEF Loses
<1>8. Gains("sending", ch, S)
  <2>1. \A x, y : InQueue(x, sending', y) <=> InQueue(x, sending, y) \/ (y \in S /\ x \in Told(ch, y))
    BY <1>3, <1>4, QueueMore DEF AlarmShape
  <2> QED
    BY <2>1, AtIs, AtIsNext DEF Gains
<1>9. Had("out", ch, S)
  BY <1>1, AtIs DEF InQueue, Had
<1> QED
  BY <1>2, <1>5, <1>6, <1>7, <1>8, <1>9, Carried

\* SendList: a message to a worker.
LEMMA SendListStep == ASSUME AlarmInv, NEW ch \in Channels, SendList(ch) PROVE AlarmInv'
<1>1. PICK m \in sending[ch] : /\ sending' = [sending EXCEPT ![ch] = sending[ch] \ {m}]
                               /\ working' = [working EXCEPT ![ch] = working[ch] \cup {m}]
  BY DEF SendList
<1>2. PICK S : S = {m}
  OBVIOUS
<1>3. /\ sending' = [sending EXCEPT ![ch] = sending[ch] \ S]
      /\ working' = [working EXCEPT ![ch] = working[ch] \cup S]
  BY <1>1, <1>2
<1>4. UNCHANGED <<eventQ, userQ, outQ, reader, combining, delivered, lost, pushed>>
  BY DEF SendList
<1>5. AlarmShape /\ DOMAIN sending = Channels /\ DOMAIN working = Channels
  BY DEF AlarmInv, AlarmShape
<1>6. AlarmShape'
  BY <1>3, <1>4, <1>5 DEF AlarmShape
<1>7. OnlyTouches("sending", "working")
  BY <1>4 DEF At, OnlyTouches
<1>8. Loses("sending", ch, S)
  <2>1. \A x, y : InQueue(x, sending', y) <=> InQueue(x, sending, y) /\ ~(y \in S /\ x \in Told(ch, y))
    BY <1>3, <1>5, QueueLess
  <2> QED
    BY <2>1, AtIs, AtIsNext DEF Loses
<1>9. Gains("working", ch, S)
  <2>1. \A x, y : InQueue(x, working', y) <=> InQueue(x, working, y) \/ (y \in S /\ x \in Told(ch, y))
    BY <1>3, <1>5, QueueMore
  <2> QED
    BY <2>1, AtIs, AtIsNext DEF Gains
<1>10. Had("sending", ch, S)
  BY <1>1, <1>2, AtIs DEF InQueue, Had
<1> QED
  BY <1>4, <1>6, <1>7, <1>8, <1>9, <1>10, Carried

\* Send: the message is delivered, or the post fails and it is lost.
LEMMA SendStep == ASSUME AlarmInv, NEW ch \in Channels, Send(ch) PROVE AlarmInv'
<1>1. PICK m \in working[ch] :
        /\ working' = [working EXCEPT ![ch] = working[ch] \ {m}]
        /\ \/ delivered' = delivered \cup Told(ch, m) /\ lost' = lost
           \/ lost' = lost \cup Told(ch, m) /\ delivered' = delivered
  BY DEF Send
<1>2. PICK S : S = {m}
  OBVIOUS
<1>3. working' = [working EXCEPT ![ch] = working[ch] \ S]
  BY <1>1, <1>2
<1>4. UNCHANGED <<eventQ, userQ, outQ, reader, combining, sending, pushed>>
  BY DEF Send
<1>5. AlarmShape /\ DOMAIN working = Channels
  BY DEF AlarmInv, AlarmShape
<1>6. AlarmShape'
  BY <1>3, <1>4, <1>5 DEF AlarmShape
<1>7. Loses("working", ch, S)
  <2>1. \A x, y : InQueue(x, working', y) <=> InQueue(x, working, y) /\ ~(y \in S /\ x \in Told(ch, y))
    BY <1>3, <1>5, QueueLess
  <2> QED
    BY <2>1, AtIs, AtIsNext DEF Loses
<1>8. Had("working", ch, S)
  BY <1>1, <1>2, AtIs DEF InQueue, Had
<1>9. CASE delivered' = delivered \cup Told(ch, m) /\ lost' = lost
  <2>1. OnlyTouches("working", "delivered")
    BY <1>4, <1>9 DEF At, OnlyTouches
  <2>2. GainsAt("delivered", ch, S, "gateway")
    BY <1>2, <1>9, AtIs, AtIsNext DEF GainsAt
  <2> QED
    BY <1>4, <1>6, <1>7, <1>8, <2>1, <2>2, Merged
<1>10. CASE lost' = lost \cup Told(ch, m) /\ delivered' = delivered
  <2>1. OnlyTouches("working", "lost")
    BY <1>4, <1>10 DEF At, OnlyTouches
  <2>2. GainsAt("lost", ch, S, "fault")
    BY <1>2, <1>10, AtIs, AtIsNext DEF GainsAt
  <2> QED
    BY <1>4, <1>6, <1>7, <1>8, <2>1, <2>2, Merged
<1> QED
  BY <1>1, <1>9, <1>10

----------------------------------------------------------------------------
(* The readers.                                                            *)

\* A step that moves the things M away from one place, (a, b), to places of their own.
OnlyMoves(M) == \A x, t, y : x \notin M => (At(x, t, y)' <=> At(x, t, y))
WasAt(M, a, b) == \A x \in M : At(x, a, b)
NowOnce(M) == \A x \in M : \E t, y : At(x, t, y)' /\ \A c, d : At(x, c, d)' => c = t /\ d = y

\* Such a step keeps the invariant.
LEMMA MovedOn ==
    ASSUME AlarmInv, AlarmShape', pushed' = pushed, NEW M, NEW a, NEW b,
           OnlyMoves(M), WasAt(M, a, b), NowOnce(M)
    PROVE  AlarmInv'
<1>1. \A x \in M : \E t, y : At(x, t, y)
  BY DEF WasAt
<1> QED
  BY <1>1, Rearranged DEF OnlyMoves, NowOnce

\* What is at one place is nowhere else.
LEMMA NowhereElse ==
    ASSUME AlarmInv, NEW M, NEW a, NEW b, WasAt(M, a, b)
    PROVE  \A x \in M : \A c, d : At(x, c, d) => c = a /\ d = b
BY DEF AlarmInv, Once, WasAt

\* The stage of a reader.
LEMMA AtReader ==
    ASSUME NEW r \in AlarmReaders, NEW x, NEW y
    PROVE  /\ At(x, r, y) <=> InReader(x, reader[r], y)
           /\ At(x, r, y)' <=> InReader(x, reader'[r], y)
BY AtIs, AtIsNext DEF AlarmReaders

\* One reader moves.
LEMMA ReaderMoves ==
    ASSUME AlarmShape, NEW r \in AlarmReaders, NEW v, ReaderOK(v), reader' = [reader EXCEPT ![r] = v]
    PROVE  /\ DOMAIN reader' = AlarmReaders /\ \A q \in AlarmReaders : ReaderOK(reader'[q])
           /\ reader'[r] = v
           /\ \A q \in AlarmReaders : q # r => reader'[q] = reader[q]
BY DEF AlarmShape

\* A reader at work, in the first half of consume and in the second.
LEMMA AtAction ==
    ASSUME AlarmShape, NEW r \in AlarmReaders, reader[r] # Idle, reader[r].at = "action"
    PROVE  \E n \in Nat \ {0} : \E e, s : reader[r] = [ev |-> n, event |-> e, at |-> "action", todo |-> s]
<1>1. ReaderOK(reader[r])
  BY DEF AlarmShape
<1>2. PICK n \in Nat \ {0} : \E e, at, s : reader[r] = [ev |-> n, event |-> e, at |-> at, todo |-> s]
  BY <1>1 DEF ReaderOK
<1>3. PICK e, at, s : reader[r] = [ev |-> n, event |-> e, at |-> at, todo |-> s]
  BY <1>2
<1>4. at = "action"
  BY <1>3
<1> QED
  BY <1>3, <1>4

\* The same in the second half, with its writes.
LEMMA AtWrite ==
    ASSUME AlarmShape, NEW r \in AlarmReaders, reader[r] # Idle, reader[r].at = "write"
    PROVE  \E n \in Nat \ {0} : \E e, s :
             /\ reader[r] = [ev |-> n, event |-> e, at |-> "write", todo |-> s]
             /\ s \in Seq(Todo) /\ s # <<>> /\ NoneTwice(s)
<1>1. ReaderOK(reader[r])
  BY DEF AlarmShape
<1>2. PICK n \in Nat \ {0} : \E e, at, s :
         /\ reader[r] = [ev |-> n, event |-> e, at |-> at, todo |-> s]
         /\ \/ at = "action"
            \/ at = "write" /\ s \in Seq(Todo) /\ s # <<>> /\ NoneTwice(s)
  BY <1>1 DEF ReaderOK
<1>3. PICK e, at, s : /\ reader[r] = [ev |-> n, event |-> e, at |-> at, todo |-> s]
                      /\ \/ at = "action"
                         \/ at = "write" /\ s \in Seq(Todo) /\ s # <<>> /\ NoneTwice(s)
  BY <1>2
<1>4. at = "write"
  BY <1>3
<1> QED
  BY <1>3, <1>4

\* The event a reader pops is one of its queues.
LEMMA PopsOne ==
    ASSUME NEW T, T # {}, \A e \in T : e.prio \in Nat /\ e.id \in Nat
    PROVE  \E x \in T : \A y \in T : x.prio < y.prio \/ (x.prio = y.prio /\ x.id <= y.id)
<1>1. PICK P : P = {e.prio : e \in T}
  OBVIOUS
<1>2. P \subseteq Nat /\ P # {}
  BY <1>1
<1>3. PICK p \in P : \A q \in P : p <= q
  BY <1>2, LeastOf
<1>4. PICK I : I = {e.id : e \in {f \in T : f.prio = p}}
  OBVIOUS
<1>5. I \subseteq Nat /\ I # {}
  BY <1>1, <1>3, <1>4
<1>6. PICK i \in I : \A j \in I : i <= j
  BY <1>5, LeastOf
<1>7. PICK x \in T : x.prio = p /\ x.id = i
  BY <1>4, <1>6
<1>8. ASSUME NEW y \in T PROVE x.prio < y.prio \/ (x.prio = y.prio /\ x.id <= y.id)
  <2>1. y.prio \in P /\ p <= y.prio
    BY <1>1, <1>3
  <2>2. y.prio = p => y.id \in I
    BY <1>4
  <2> QED
    BY <1>6, <1>7, <2>1, <2>2
<1> QED
  BY <1>8

\* popEvent: an event from redis into the memory of a reader.
LEMMA PopEventStep == ASSUME AlarmInv, NEW r \in AlarmReaders, popEvent(r) PROVE AlarmInv'
<1>1. AlarmShape
  BY DEF AlarmInv
<1>2. PICK e : e = CHOOSE x \in Queues(r) : \A y \in Queues(r) :
                     x.prio < y.prio \/ (x.prio = y.prio /\ x.id <= y.id)
  OBVIOUS
<1>3. /\ reader[r] = Idle /\ eventQ' = eventQ \ {e}
      /\ reader' = [reader EXCEPT ![r] = [ev |-> e.id, event |-> e, at |-> "action", todo |-> <<>>]]
      /\ UNCHANGED <<userQ, outQ, combining, sending, working, delivered, lost, pushed>>
  BY <1>2 DEF popEvent
<1>4. e \in eventQ /\ e.id \in Nat \ {0}
  <2>1. PICK T : T = Queues(r)
    OBVIOUS
  <2>2. T # {} /\ T \subseteq eventQ
    BY <2>1 DEF popEvent, Queues
  <2>3. \A f \in eventQ : f.prio \in Nat /\ f.id \in Nat \ {0}
    <3>1. Cardinality(pushed) \in Nat
      BY <1>1, FS_CardinalityType DEF AlarmShape
    <3> QED
      BY <1>1, <3>1 DEF AlarmShape
  <2>4. \E x \in T : \A y \in T : x.prio < y.prio \/ (x.prio = y.prio /\ x.id <= y.id)
    BY <2>2, <2>3, PopsOne
  <2>5. e \in T
    BY <1>2, <2>1, <2>4
  <2> QED
    BY <2>2, <2>3, <2>5
<1>5. PICK n \in Nat \ {0} : n = e.id
  BY <1>4
<1>6. PICK v : v = [ev |-> n, event |-> e, at |-> "action", todo |-> <<>>]
  OBVIOUS
<1>7. ReaderOK(v)
  BY <1>6 DEF ReaderOK
<1>8. /\ DOMAIN reader' = AlarmReaders /\ \A q \in AlarmReaders : ReaderOK(reader'[q])
      /\ reader'[r] = v /\ \A q \in AlarmReaders : q # r => reader'[q] = reader[q]
  BY <1>1, <1>3, <1>5, <1>6, <1>7, ReaderMoves
<1>9. AlarmShape'
  BY <1>1, <1>3, <1>8 DEF AlarmShape
<1>10. \A x, y : ~At(x, r, y) /\ (At(x, r, y)' <=> y = "action" /\ x \in Owed(e))
  <2>1. \A x, y : ~InReader(x, Idle, y)
    BY DEF InReader
  <2>2. \A x, y : InReader(x, v, y) <=> y = "action" /\ x \in Owed(e)
    BY <1>6, ReaderTells
  <2> QED
    BY <1>3, <1>8, <2>1, <2>2, AtReader
<1>11. \A x, y : At(x, "event", y)' <=> At(x, "event", y) /\ y # e
  BY <1>3, AtIs, AtIsNext
<1>12. \A x, t, y : t # r /\ t # "event" => (At(x, t, y)' <=> At(x, t, y))
  BY <1>3, <1>8 DEF At, AlarmReaders
<1>13. PICK M : M = Owed(e)
  OBVIOUS
<1>14. WasAt(M, "event", e)
  BY <1>4, <1>13, AtIs DEF WasAt
<1>15. \A x \in M : \A c, d : At(x, c, d) => c = "event" /\ d = e
  BY <1>14, NowhereElse
<1>16. OnlyMoves(M)
  <2>1. \A x, y : x \notin M /\ At(x, "event", y) => y # e
    BY <1>13, AtIs
  <2> QED
    BY <1>10, <1>11, <1>12, <1>13, <2>1 DEF OnlyMoves
<1>17. NowOnce(M)
  <2>1. SUFFICES ASSUME NEW x \in M PROVE At(x, r, "action")' /\ \A c, d : At(x, c, d)' => c = r /\ d = "action"
    BY DEF NowOnce
  <2> QED
    BY <1>10, <1>11, <1>12, <1>13, <1>15
<1> QED
  BY <1>3, <1>9, <1>14, <1>16, <1>17, MovedOn

\* consume: what the event has to tell becomes writes to come.
LEMMA ConsumeActionStep == ASSUME AlarmInv, NEW r \in AlarmReaders, consume(r) PROVE AlarmInv'
<1>1. AlarmShape /\ reader[r] # Idle /\ reader[r].at = "action"
  BY DEF AlarmInv, consume
<1>2. PICK n \in Nat \ {0} : \E e, s : reader[r] = [ev |-> n, event |-> e, at |-> "action", todo |-> s]
  BY <1>1, AtAction
<1>3. PICK e, s : reader[r] = [ev |-> n, event |-> e, at |-> "action", todo |-> s]
  BY <1>2
<1>4. PICK todo : todo = Plan(r, e)
  OBVIOUS
<1>5. PICK v : v = IF todo = <<>> THEN Idle ELSE [ev |-> n, event |-> e, at |-> "write", todo |-> todo]
  OBVIOUS
<1>6. reader' = [reader EXCEPT ![r] = v] /\ UNCHANGED <<eventQ, userQ, outQ, combining, sending, working, delivered, lost, pushed>>
  <2>1. reader[r].event = e
    BY <1>3
  <2>2. [reader[r] EXCEPT !.at = "write", !.todo = todo] = [ev |-> n, event |-> e, at |-> "write", todo |-> todo]
    <3>1. PICK rd : rd = [ev |-> n, event |-> e, at |-> "action", todo |-> s]
      OBVIOUS
    <3>2. /\ DOMAIN rd = {"ev", "event", "at", "todo"} /\ rd.ev = n /\ rd.event = e
      BY <3>1
    <3>3. PICK f : f = [rd EXCEPT !.at = "write", !.todo = todo]
      OBVIOUS
    <3>4. /\ DOMAIN f = {"ev", "event", "at", "todo"} /\ f.ev = n /\ f.event = e
          /\ f.at = "write" /\ f.todo = todo /\ f = [k \in DOMAIN f |-> f[k]]
      BY <3>2, <3>3
    <3>5. f = [ev |-> n, event |-> e, at |-> "write", todo |-> todo]
      BY <3>4
    <3> QED
      BY <1>3, <3>1, <3>3, <3>5
  <2> QED
    BY <1>4, <1>5, <2>1, <2>2 DEF consume, Plan
<1>7. todo \in Seq(Todo) /\ NoneTwice(todo)
  BY <1>4, PlanOnce
<1>8. ReaderOK(v)
  BY <1>5, <1>7 DEF ReaderOK
<1>9. /\ DOMAIN reader' = AlarmReaders /\ \A q \in AlarmReaders : ReaderOK(reader'[q])
      /\ reader'[r] = v /\ \A q \in AlarmReaders : q # r => reader'[q] = reader[q]
  BY <1>1, <1>6, <1>8, ReaderMoves
<1>10. AlarmShape'
  BY <1>1, <1>6, <1>9 DEF AlarmShape
<1>11. \A x, y : At(x, r, y) <=> y = "action" /\ x \in Owed(e)
  <2>1. PICK rd : rd = [ev |-> n, event |-> e, at |-> "action", todo |-> s]
    OBVIOUS
  <2>2. \A x, y : InReader(x, rd, y) <=> y = "action" /\ x \in Owed(e)
    BY <2>1, ReaderTells
  <2>3. reader[r] = rd
    BY <1>3, <2>1
  <2> QED
    BY <2>2, <2>3, AtReader
<1>12. \A x, y : At(x, r, y)' <=> y \in Range(todo) /\ x \in TodoTold(e, y)
  <2>1. CASE todo = <<>>
    <3>1. Range(todo) = {}
      BY <2>1 DEF Range
    <3> QED
      BY <1>5, <1>9, <2>1, <3>1, AtReader DEF InReader
  <2>2. CASE todo # <<>>
    <3>1. v = [ev |-> n, event |-> e, at |-> "write", todo |-> todo]
      BY <1>5, <2>2
    <3>2. \A x, y : InReader(x, v, y) <=> y \in Range(todo) /\ x \in TodoTold(e, y)
      BY <3>1, ReaderTells
    <3> QED
      BY <1>9, <3>2, AtReader
  <2> QED
    BY <2>1, <2>2
<1>13. \A x, t, y : t # r => (At(x, t, y)' <=> At(x, t, y))
  BY <1>6, <1>9 DEF At, AlarmReaders
<1>14. PICK M : M = Owed(e)
  OBVIOUS
<1>15. WasAt(M, r, "action")
  BY <1>11, <1>14 DEF WasAt
<1>16. \A x \in M : \A c, d : At(x, c, d) => c = r /\ d = "action"
  BY <1>15, NowhereElse
<1>17. \A x : /\ x \in M <=> \E w \in Range(todo) : x \in TodoTold(e, w)
              /\ \A a, w \in Range(todo) : x \in TodoTold(e, a) /\ x \in TodoTold(e, w) => a = w
  BY <1>4, <1>14, PlanTells
<1>18. OnlyMoves(M)
  BY <1>11, <1>12, <1>13, <1>14, <1>17 DEF OnlyMoves
<1>19. NowOnce(M)
  <2>1. SUFFICES ASSUME NEW x \in M PROVE \E y : At(x, r, y)' /\ \A c, d : At(x, c, d)' => c = r /\ d = y
    BY DEF NowOnce
  <2>2. PICK w \in Range(todo) : x \in TodoTold(e, w)
    BY <1>17
  <2>3. At(x, r, w)' /\ \A c, d : At(x, c, d)' => c = r /\ d = w
    BY <1>12, <1>13, <1>16, <1>17, <2>2
  <2> QED
    BY <2>3
<1> QED
  BY <1>6, <1>10, <1>15, <1>18, <1>19, MovedOn

\* consumeWithoutAction: nothing is known of the action, the event is given up.
LEMMA WithoutActionStep == ASSUME AlarmInv, NEW r \in AlarmReaders, consumeWithoutAction(r) PROVE AlarmInv'
<1>1. AlarmShape /\ reader[r] # Idle /\ reader[r].at = "action"
  BY DEF AlarmInv, consumeWithoutAction
<1>2. PICK n \in Nat \ {0} : \E e, s : reader[r] = [ev |-> n, event |-> e, at |-> "action", todo |-> s]
  BY <1>1, AtAction
<1>3. PICK e, s : reader[r] = [ev |-> n, event |-> e, at |-> "action", todo |-> s]
  BY <1>2
<1>4. /\ reader' = [reader EXCEPT ![r] = Idle] /\ lost' = lost \cup Owed(e)
      /\ UNCHANGED <<eventQ, userQ, outQ, combining, sending, working, delivered, pushed>>
  BY <1>3 DEF consumeWithoutAction
<1>5. ReaderOK(Idle)
  BY DEF ReaderOK
<1>6. /\ DOMAIN reader' = AlarmReaders /\ \A q \in AlarmReaders : ReaderOK(reader'[q])
      /\ reader'[r] = Idle /\ \A q \in AlarmReaders : q # r => reader'[q] = reader[q]
  BY <1>1, <1>4, <1>5, ReaderMoves
<1>7. AlarmShape'
  BY <1>1, <1>4, <1>6 DEF AlarmShape
<1>8. \A x, y : (At(x, r, y) <=> y = "action" /\ x \in Owed(e)) /\ ~At(x, r, y)'
  <2>1. \A x, y : At(x, r, y) <=> y = "action" /\ x \in Owed(e)
    <3>1. PICK rd : rd = [ev |-> n, event |-> e, at |-> "action", todo |-> s]
      OBVIOUS
    <3>2. \A x, y : InReader(x, rd, y) <=> y = "action" /\ x \in Owed(e)
      BY <3>1, ReaderTells
    <3>3. reader[r] = rd
      BY <1>3, <3>1
    <3> QED
      BY <3>2, <3>3, AtReader
  <2>2. \A x, y : ~At(x, r, y)'
    BY <1>6, AtReader DEF InReader
  <2> QED
    BY <2>1, <2>2
<1>9. \A x, t, y : t # r /\ t # "lost" => (At(x, t, y)' <=> At(x, t, y))
  BY <1>4, <1>6 DEF At, AlarmReaders
<1>10. \A x, y : At(x, "lost", y)' <=> At(x, "lost", y) \/ (y = "fault" /\ x \in Owed(e))
  BY <1>4, AtIs, AtIsNext
<1>11. PICK M : M = Owed(e)
  OBVIOUS
<1>12. WasAt(M, r, "action")
  BY <1>8, <1>11 DEF WasAt
<1>13. \A x \in M : \A c, d : At(x, c, d) => c = r /\ d = "action"
  BY <1>12, NowhereElse
<1>14. OnlyMoves(M)
  BY <1>8, <1>9, <1>10, <1>11 DEF OnlyMoves
<1>15. r # "lost"
  BY DEF AlarmReaders
<1>16. NowOnce(M)
  <2>1. SUFFICES ASSUME NEW x \in M PROVE At(x, "lost", "fault")' /\ \A c, d : At(x, c, d)' => c = "lost" /\ d = "fault"
    BY DEF NowOnce
  <2> QED
    BY <1>8, <1>9, <1>10, <1>11, <1>13, <1>15
<1> QED
  BY <1>4, <1>7, <1>12, <1>14, <1>16, MovedOn

\* A reader that has done a write, or failed to, goes on with the next.
LEMMA WriteDone ==
    ASSUME AlarmShape, NEW r \in AlarmReaders, reader[r] # Idle, reader[r].at = "write", ReaderReturns(r),
           NEW e, e = reader[r].event, NEW w, w = Head(reader[r].todo)
    PROVE  /\ w \in Todo
           /\ DOMAIN reader' = AlarmReaders /\ \A q \in AlarmReaders : ReaderOK(reader'[q])
           /\ \A q \in AlarmReaders : q # r => reader'[q] = reader[q]
           /\ \A x : At(x, r, w) <=> x \in TodoTold(e, w)
           /\ \A x, y : At(x, r, y)' <=> At(x, r, y) /\ y # w
<1>1. PICK n \in Nat \ {0} : \E f, s : /\ reader[r] = [ev |-> n, event |-> f, at |-> "write", todo |-> s]
                                        /\ s \in Seq(Todo) /\ s # <<>> /\ NoneTwice(s)
  BY AtWrite
<1>2. PICK f, s : /\ reader[r] = [ev |-> n, event |-> f, at |-> "write", todo |-> s]
                  /\ s \in Seq(Todo) /\ s # <<>> /\ NoneTwice(s)
  BY <1>1
<1>3. f = e /\ w = Head(s) /\ reader[r].todo = s
  BY <1>2
<1>4. /\ w \in Todo /\ w \in Range(s)
      /\ Len(s) = 1 => Range(s) = {w}
      /\ Len(s) # 1 => /\ Tail(s) \in Seq(Todo) /\ Tail(s) # <<>> /\ NoneTwice(Tail(s))
                       /\ Range(Tail(s)) = Range(s) \ {w}
  BY <1>2, <1>3, WithoutHead
<1>5. PICK u : u = Tail(s)
  OBVIOUS
<1>6. PICK v : v = IF Len(s) = 1 THEN Idle ELSE [ev |-> n, event |-> e, at |-> "write", todo |-> u]
  OBVIOUS
<1>7. reader' = [reader EXCEPT ![r] = v]
  <2>1. [reader[r] EXCEPT !.todo = Tail(reader[r].todo)] = [ev |-> n, event |-> e, at |-> "write", todo |-> u]
    <3>1. PICK rd : rd = [ev |-> n, event |-> e, at |-> "write", todo |-> s]
      OBVIOUS
    <3>2. DOMAIN rd = {"ev", "event", "at", "todo"} /\ rd.ev = n /\ rd.event = e /\ rd.at = "write"
      BY <3>1
    <3>3. PICK g : g = [rd EXCEPT !.todo = u]
      OBVIOUS
    <3>4. /\ DOMAIN g = {"ev", "event", "at", "todo"} /\ g.ev = n /\ g.event = e
          /\ g.at = "write" /\ g.todo = u /\ g = [k \in DOMAIN g |-> g[k]]
      BY <3>2, <3>3
    <3>5. g = [ev |-> n, event |-> e, at |-> "write", todo |-> u]
      BY <3>4
    <3>6. reader[r] = rd /\ Tail(reader[r].todo) = u
      BY <1>2, <1>3, <1>5, <3>1
    <3> QED
      BY <3>3, <3>5, <3>6
  <2> QED
    BY <1>3, <1>6, <2>1 DEF ReaderReturns
<1>8. ReaderOK(v)
  BY <1>4, <1>5, <1>6 DEF ReaderOK
<1>9. /\ DOMAIN reader' = AlarmReaders /\ \A q \in AlarmReaders : ReaderOK(reader'[q])
      /\ reader'[r] = v /\ \A q \in AlarmReaders : q # r => reader'[q] = reader[q]
  BY <1>7, <1>8, ReaderMoves
<1>10. \A x, y : At(x, r, y) <=> y \in Range(s) /\ x \in TodoTold(e, y)
  <2>1. PICK rd : rd = [ev |-> n, event |-> e, at |-> "write", todo |-> s]
    OBVIOUS
  <2>2. \A x, y : InReader(x, rd, y) <=> y \in Range(s) /\ x \in TodoTold(e, y)
    BY <2>1, ReaderTells
  <2>3. reader[r] = rd
    BY <1>2, <1>3, <2>1
  <2> QED
    BY <2>2, <2>3, AtReader
<1>11. \A x, y : At(x, r, y)' <=> y \in Range(s) /\ y # w /\ x \in TodoTold(e, y)
  <2>1. CASE Len(s) = 1
    <3>1. v = Idle /\ Range(s) = {w}
      BY <1>4, <1>6, <2>1
    <3> QED
      BY <1>9, <3>1, AtReader DEF InReader
  <2>2. CASE Len(s) # 1
    <3>1. v = [ev |-> n, event |-> e, at |-> "write", todo |-> u] /\ Range(u) = Range(s) \ {w}
      BY <1>4, <1>5, <1>6, <2>2
    <3>2. \A x, y : InReader(x, v, y) <=> y \in Range(u) /\ x \in TodoTold(e, y)
      BY <3>1, ReaderTells
    <3> QED
      BY <1>9, <3>1, <3>2, AtReader
  <2> QED
    BY <2>1, <2>2
<1> QED
  BY <1>4, <1>9, <1>10, <1>11

\* What a write puts into a queue.
LEMMA WrittenTells ==
    ASSUME NEW e, NEW w, NEW x, NEW m
    PROVE  /\ m \in Written(w.ch, Said(e, w.kind)) /\ x \in Told(w.ch, m)
                <=> m = Message(Reachable(w.ch), {Said(e, w.kind)}) /\ x \in TodoTold(e, w)
           /\ m \in Entries(w.ch, Said(e, w.kind)) /\ x \in Told(w.ch, m)
                <=> m = Message({x[2]}, {Said(e, w.kind)}) /\ x \in TodoTold(e, w)
<1>1. PICK c, said : c = w.ch /\ said = Said(e, w.kind)
  OBVIOUS
<1>2. x \in TodoTold(e, w) <=> \E u \in Reachable(c) : x = <<c, u, said>>
  BY <1>1, TodoTells
<1>3. \A tos : Message(tos, {said}).tos = tos /\ Message(tos, {said}).said = {said}
  BY DEF Message
<1>4. \A tos : x \in Told(c, Message(tos, {said})) <=> \E u \in tos : x = <<c, u, said>>
  BY <1>3 DEF Told
<1>5. m \in Written(c, said) /\ x \in Told(c, m) <=> m = Message(Reachable(c), {said}) /\ x \in TodoTold(e, w)
  BY <1>2, <1>4 DEF Written
<1>6. Reachable(c) \subseteq TeamMembers
  BY DEF Reachable
<1>7. m \in Entries(c, said) /\ x \in Told(c, m) => m = Message({x[2]}, {said}) /\ x \in TodoTold(e, w)
  <2>1. SUFFICES ASSUME m \in Entries(c, said), x \in Told(c, m)
                 PROVE  m = Message({x[2]}, {said}) /\ x \in TodoTold(e, w)
    OBVIOUS
  <2>2. PICK u \in TeamMembers : m = Message({u} \cap Reachable(c), {said})
    BY <2>1 DEF Entries
  <2>3. PICK tos : tos = {u} \cap Reachable(c)
    OBVIOUS
  <2>4. PICK z \in tos : x = <<c, z, said>>
    BY <1>4, <2>1, <2>2, <2>3
  <2>5. z = u /\ tos = {u} /\ u \in Reachable(c) /\ x[2] = u
    BY <2>3, <2>4
  <2> QED
    BY <1>2, <2>2, <2>3, <2>4, <2>5
<1>8. m = Message({x[2]}, {said}) /\ x \in TodoTold(e, w) => m \in Entries(c, said) /\ x \in Told(c, m)
  <2>1. SUFFICES ASSUME m = Message({x[2]}, {said}), x \in TodoTold(e, w)
                 PROVE  m \in Entries(c, said) /\ x \in Told(c, m)
    OBVIOUS
  <2>2. PICK u \in Reachable(c) : x = <<c, u, said>>
    BY <1>2, <2>1
  <2>3. x[2] = u /\ u \in TeamMembers /\ {u} \cap Reachable(c) = {u}
    BY <1>6, <2>2
  <2>4. m = Message({u}, {said})
    BY <2>1, <2>3
  <2>5. m \in Entries(c, said)
    BY <2>3, <2>4 DEF Entries
  <2>6. x \in Told(c, m)
    BY <1>4, <2>2, <2>4
  <2> QED
    BY <2>5, <2>6
<1> QED
  BY <1>1, <1>5, <1>7, <1>8

\* WriteNext: a write of the reader becomes messages of a queue.
LEMMA WriteNextStep == ASSUME AlarmInv, NEW r \in AlarmReaders, WriteNext(r) PROVE AlarmInv'
<1>1. AlarmShape /\ reader[r] # Idle /\ reader[r].at = "write" /\ ReaderReturns(r)
  BY DEF AlarmInv, WriteNext
<1>2. PICK e, w : e = reader[r].event /\ w = Head(reader[r].todo)
  OBVIOUS
<1>3. /\ w \in Todo
      /\ DOMAIN reader' = AlarmReaders /\ \A q \in AlarmReaders : ReaderOK(reader'[q])
      /\ \A q \in AlarmReaders : q # r => reader'[q] = reader[q]
      /\ \A x : At(x, r, w) <=> x \in TodoTold(e, w)
      /\ \A x, y : At(x, r, y)' <=> At(x, r, y) /\ y # w
  BY <1>1, <1>2, WriteDone
<1>4. w.ch \in Channels
  BY <1>3 DEF Todo
<1>5. UNCHANGED <<eventQ, combining, sending, working, delivered, lost, pushed>>
  BY DEF WriteNext
<1>6. PICK M : M = TodoTold(e, w)
  OBVIOUS
<1>7. WasAt(M, r, w)
  BY <1>3, <1>6 DEF WasAt
<1>8. \A x \in M : \A c, d : At(x, c, d) => c = r /\ d = w
  BY <1>7, NowhereElse
<1>9. r # "out" /\ r # "user"
  BY DEF AlarmReaders
<1>10. CASE w.dest = "out"
  <2>1. PICK Q : Q = Written(w.ch, Said(e, w.kind))
    OBVIOUS
  <2>2. outQ' = [outQ EXCEPT ![w.ch] = outQ[w.ch] \cup Q] /\ userQ' = userQ
    BY <1>2, <1>10, <2>1 DEF WriteNext
  <2>3. AlarmShape'
    BY <1>1, <1>3, <1>5, <2>2 DEF AlarmShape
  <2>4. PICK z : z = Message(Reachable(w.ch), {Said(e, w.kind)})
    OBVIOUS
  <2>5. \A x, y : At(x, "out", y)' <=> At(x, "out", y) \/ (y = z /\ x \in M)
    <3>1. \A x, y : InQueue(x, outQ', y) <=> InQueue(x, outQ, y) \/ (y \in Q /\ x \in Told(w.ch, y))
      BY <1>1, <1>4, <2>2, QueueMore DEF AlarmShape
    <3>2. \A x, y : y \in Q /\ x \in Told(w.ch, y) <=> y = z /\ x \in M
      BY <1>6, <2>1, <2>4, WrittenTells
    <3> QED
      BY <3>1, <3>2, AtIs, AtIsNext
  <2>6. \A x, t, y : t # r /\ t # "out" => (At(x, t, y)' <=> At(x, t, y))
    BY <1>3, <1>5, <2>2 DEF At, AlarmReaders
  <2>7. OnlyMoves(M)
    BY <1>3, <1>6, <2>5, <2>6 DEF OnlyMoves
  <2>8. NowOnce(M)
    <3>1. SUFFICES ASSUME NEW x \in M PROVE At(x, "out", z)' /\ \A c, d : At(x, c, d)' => c = "out" /\ d = z
      BY DEF NowOnce
    <3> QED
      BY <1>3, <1>8, <1>9, <2>5, <2>6
  <2> QED
    BY <1>5, <1>7, <2>3, <2>7, <2>8, MovedOn
<1>11. CASE w.dest # "out"
  <2>1. PICK Q : Q = Entries(w.ch, Said(e, w.kind))
    OBVIOUS
  <2>2. userQ' = [userQ EXCEPT ![w.ch] = userQ[w.ch] \cup Q] /\ outQ' = outQ
    BY <1>2, <1>11, <2>1 DEF WriteNext
  <2>3. AlarmShape'
    BY <1>1, <1>3, <1>5, <2>2 DEF AlarmShape
  <2>4. \A x, y : At(x, "user", y)' <=> At(x, "user", y) \/ (y = Message({x[2]}, {Said(e, w.kind)}) /\ x \in M)
    <3>1. \A x, y : InQueue(x, userQ', y) <=> InQueue(x, userQ, y) \/ (y \in Q /\ x \in Told(w.ch, y))
      BY <1>1, <1>4, <2>2, QueueMore DEF AlarmShape
    <3>2. \A x, y : y \in Q /\ x \in Told(w.ch, y) <=> y = Message({x[2]}, {Said(e, w.kind)}) /\ x \in M
      BY <1>6, <2>1, WrittenTells
    <3> QED
      BY <3>1, <3>2, AtIs, AtIsNext
  <2>5. \A x, t, y : t # r /\ t # "user" => (At(x, t, y)' <=> At(x, t, y))
    BY <1>3, <1>5, <2>2 DEF At, AlarmReaders
  <2>6. OnlyMoves(M)
    BY <1>3, <1>6, <2>4, <2>5 DEF OnlyMoves
  <2>7. NowOnce(M)
    <3>1. SUFFICES ASSUME NEW x \in M
                   PROVE  \E y : At(x, "user", y)' /\ \A c, d : At(x, c, d)' => c = "user" /\ d = y
      BY DEF NowOnce
    <3>2. PICK z : z = Message({x[2]}, {Said(e, w.kind)})
      OBVIOUS
    <3>3. \A y : At(x, "user", y)' <=> At(x, "user", y) \/ y = z
      BY <2>4, <3>2
    <3>4. At(x, "user", z)' /\ \A c, d : At(x, c, d)' => c = "user" /\ d = z
      BY <1>3, <1>8, <1>9, <2>5, <3>3
    <3> QED
      BY <3>4
  <2> QED
    BY <1>5, <1>7, <2>3, <2>6, <2>7, MovedOn
<1> QED
  BY <1>10, <1>11

\* WriteFails: the write is lost, and the reader goes on.
LEMMA WriteFailsStep == ASSUME AlarmInv, NEW r \in AlarmReaders, WriteFails(r) PROVE AlarmInv'
<1>1. AlarmShape /\ reader[r] # Idle /\ reader[r].at = "write" /\ ReaderReturns(r)
  BY DEF AlarmInv, WriteFails
<1>2. PICK e, w : e = reader[r].event /\ w = Head(reader[r].todo)
  OBVIOUS
<1>3. /\ w \in Todo
      /\ DOMAIN reader' = AlarmReaders /\ \A q \in AlarmReaders : ReaderOK(reader'[q])
      /\ \A q \in AlarmReaders : q # r => reader'[q] = reader[q]
      /\ \A x : At(x, r, w) <=> x \in TodoTold(e, w)
      /\ \A x, y : At(x, r, y)' <=> At(x, r, y) /\ y # w
  BY <1>1, <1>2, WriteDone
<1>4. PICK M : M = TodoTold(e, w)
  OBVIOUS
<1>5. lost' = lost \cup M /\ UNCHANGED <<eventQ, userQ, outQ, combining, sending, working, delivered, pushed>>
  BY <1>2, <1>4 DEF WriteFails
<1>6. AlarmShape'
  BY <1>1, <1>3, <1>5 DEF AlarmShape
<1>7. WasAt(M, r, w)
  BY <1>3, <1>4 DEF WasAt
<1>8. \A x \in M : \A c, d : At(x, c, d) => c = r /\ d = w
  BY <1>7, NowhereElse
<1>9. r # "lost"
  BY DEF AlarmReaders
<1>10. \A x, t, y : t # r /\ t # "lost" => (At(x, t, y)' <=> At(x, t, y))
  BY <1>3, <1>5 DEF At, AlarmReaders
<1>11. \A x, y : At(x, "lost", y)' <=> At(x, "lost", y) \/ (y = "fault" /\ x \in M)
  BY <1>5, AtIs, AtIsNext
<1>12. OnlyMoves(M)
  BY <1>3, <1>4, <1>10, <1>11 DEF OnlyMoves
<1>13. NowOnce(M)
  <2>1. SUFFICES ASSUME NEW x \in M PROVE At(x, "lost", "fault")' /\ \A c, d : At(x, c, d)' => c = "lost" /\ d = "fault"
    BY DEF NowOnce
  <2> QED
    BY <1>3, <1>8, <1>9, <1>10, <1>11
<1> QED
  BY <1>5, <1>6, <1>7, <1>12, <1>13, MovedOn

\* What a reader holds is what is with it.
LEMMA HoldsTells ==
    ASSUME AlarmShape, NEW r \in AlarmReaders, NEW x
    PROVE  x \in Holds(r) <=> \E y : At(x, r, y)
<1>1. ReaderOK(reader[r])
  BY DEF AlarmShape
<1>2. CASE reader[r] = Idle
  <2>1. Holds(r) = {}
    BY <1>2 DEF Holds
  <2>2. \A y : ~InReader(x, reader[r], y)
    BY <1>2 DEF InReader
  <2> QED
    BY <2>1, <2>2, AtReader
<1>3. CASE reader[r] # Idle /\ reader[r].at = "action"
  <2>1. Holds(r) = Owed(reader[r].event)
    BY <1>3 DEF Holds
  <2>2. \A y : InReader(x, reader[r], y) <=> y = "action" /\ x \in Owed(reader[r].event)
    BY <1>3 DEF InReader
  <2> QED
    BY <2>1, <2>2, AtReader
<1>4. CASE reader[r] # Idle /\ reader[r].at = "write"
  <2>1. PICK n \in Nat \ {0} : \E e, s :
             /\ reader[r] = [ev |-> n, event |-> e, at |-> "write", todo |-> s]
             /\ s \in Seq(Todo) /\ s # <<>> /\ NoneTwice(s)
    BY <1>4, AtWrite
  <2>2. PICK e, s : reader[r] = [ev |-> n, event |-> e, at |-> "write", todo |-> s] /\ s \in Seq(Todo)
    BY <2>1
  <2>3. reader[r].event = e /\ reader[r].todo = s
    BY <2>2
  <2>4. DOMAIN s = 1 .. Len(s)
    BY <2>2, LenProperties
  <2>5. Holds(r) = UNION {TodoTold(e, s[i]) : i \in 1 .. Len(s)}
    BY <1>4, <2>3 DEF Holds
  <2>6. \A y : InReader(x, reader[r], y) <=> y \in Range(s) /\ x \in TodoTold(e, y)
    BY <1>4, <2>3 DEF InReader
  <2>7. x \in Holds(r) <=> \E y \in Range(s) : x \in TodoTold(e, y)
    BY <2>4, <2>5 DEF Range
  <2> QED
    BY <2>6, <2>7, AtReader
<1>5. ASSUME reader[r] # Idle PROVE reader[r].at = "action" \/ reader[r].at = "write"
  <2>1. PICK n \in Nat \ {0} : \E e, at, s :
           reader[r] = [ev |-> n, event |-> e, at |-> at, todo |-> s] /\ (at = "action" \/ at = "write")
    BY <1>1, <1>5 DEF ReaderOK
  <2>2. PICK e, at, s : reader[r] = [ev |-> n, event |-> e, at |-> at, todo |-> s] /\ (at = "action" \/ at = "write")
    BY <2>1
  <2>3. reader[r].at = at
    BY <2>2
  <2> QED
    BY <2>2, <2>3
<1> QED
  BY <1>2, <1>3, <1>4, <1>5

----------------------------------------------------------------------------
(* Restarts and new events.                                                *)

\* The stages that are only in memory.
MemoryStages == {"high", "low", "combining", "sending", "working"}

\* What a restart takes is what is at one of them.
LEMMA MemoryTells ==
    ASSUME AlarmShape, NEW x
    PROVE  x \in InMemory <=> \E t \in MemoryStages : \E y : At(x, t, y)
<1>1. /\ x \in Holds("high") <=> \E y : At(x, "high", y)
      /\ x \in Holds("low") <=> \E y : At(x, "low", y)
  BY HoldsTells DEF AlarmReaders
<1>2. /\ x \in AllTold(combining) <=> \E y : At(x, "combining", y)
      /\ x \in AllTold(sending) <=> \E y : At(x, "sending", y)
      /\ x \in AllTold(working) <=> \E y : At(x, "working", y)
  BY QueueTells, AtIs
<1>3. UNION {Holds(r) : r \in AlarmReaders} = Holds("high") \cup Holds("low")
  BY DEF AlarmReaders
<1>4. PICK H, L, C, S, W : /\ H = Holds("high") /\ L = Holds("low") /\ C = AllTold(combining)
                           /\ S = AllTold(sending) /\ W = AllTold(working)
  OBVIOUS
<1>5. InMemory = H \cup L \cup C \cup S \cup W
  BY <1>3, <1>4 DEF InMemory
<1>6. x \in InMemory <=> \/ \E y : At(x, "high", y)
                         \/ \E y : At(x, "low", y)
                         \/ \E y : At(x, "combining", y)
                         \/ \E y : At(x, "sending", y)
                         \/ \E y : At(x, "working", y)
  BY <1>1, <1>2, <1>4, <1>5
<1> QED
  BY <1>6 DEF MemoryStages

\* Restart: what was in memory is lost, all the rest stays where it is.
LEMMA RestartStep == ASSUME AlarmInv, Restart PROVE AlarmInv'
<1>1. AlarmShape
  BY DEF AlarmInv
<1>2. PICK M : M = InMemory
  OBVIOUS
<1>3. /\ lost' = lost \cup M /\ reader' = [r \in AlarmReaders |-> Idle]
      /\ combining' = [ch \in Channels |-> {}] /\ sending' = combining' /\ working' = combining'
      /\ UNCHANGED <<eventQ, userQ, outQ, delivered, pushed>>
  BY <1>2 DEF Restart
<1>4. ReaderOK(Idle)
  BY DEF ReaderOK
<1>5. AlarmShape'
  BY <1>1, <1>3, <1>4 DEF AlarmShape
<1>6. \A x : x \in M <=> \E t \in MemoryStages : \E y : At(x, t, y)
  BY <1>1, <1>2, MemoryTells
<1>7. ASSUME NEW x, NEW y, NEW t \in MemoryStages PROVE ~At(x, t, y)'
  <2>1. ~InReader(x, reader'["high"], y) /\ ~InReader(x, reader'["low"], y)
    BY <1>3 DEF InReader, AlarmReaders
  <2>2. ~InQueue(x, combining', y) /\ ~InQueue(x, sending', y) /\ ~InQueue(x, working', y)
    BY <1>3 DEF InQueue
  <2> QED
    BY <2>1, <2>2, AtIsNext DEF MemoryStages
<1>8. \A x, t, y : t \notin MemoryStages /\ t # "lost" => (At(x, t, y)' <=> At(x, t, y))
  BY <1>3 DEF At, MemoryStages
<1>9. \A x, y : At(x, "lost", y)' <=> At(x, "lost", y) \/ (y = "fault" /\ x \in M)
  BY <1>3, AtIs, AtIsNext
<1>10. \A x, t, y : x \notin M => (At(x, t, y)' <=> At(x, t, y))
  BY <1>6, <1>7, <1>8, <1>9
<1>11. \A x \in M : \E t, y : At(x, t, y)
  BY <1>6
<1>12. ASSUME NEW x \in M PROVE \E t, y : At(x, t, y)' /\ \A c, d : At(x, c, d)' => c = t /\ d = y
  <2>1. At(x, "lost", "fault")'
    BY <1>9
  <2>2. \A c, d : At(x, c, d) => c \in MemoryStages
    BY <1>6 DEF AlarmInv, Once
  <2>3. "lost" \notin MemoryStages
    BY DEF MemoryStages
  <2>4. ASSUME NEW c, NEW d, At(x, c, d)' PROVE c = "lost" /\ d = "fault"
    <3>1. c \notin MemoryStages
      BY <1>7, <2>4
    <3>2. c = "lost"
      BY <1>8, <2>2, <2>4, <3>1
    <3> QED
      BY <2>4, <3>2, AtIsNext
  <2> QED
    BY <2>1, <2>4
<1> QED
  BY <1>3, <1>5, <1>10, <1>11, <1>12, Rearranged

\* PushEvent: a new event tells new things.
LEMMA PushEventStep == ASSUME AlarmInv, NEW k \in Kinds, PushEvent(k) PROVE AlarmInv'
<1>1. AlarmShape /\ Once /\ Covers
  BY DEF AlarmInv
<1>2. PICK n : n = Cardinality(pushed) + 1
  OBVIOUS
<1>3. PICK e : e = [id |-> n, prio |-> k.prio, team |-> k.team, cb |-> k.cb]
  OBVIOUS
<1>4. /\ pushed' = pushed \cup {e} /\ eventQ' = eventQ \cup {e}
      /\ UNCHANGED <<userQ, outQ, reader, combining, sending, working, delivered, lost>>
  BY <1>2, <1>3 DEF PushEvent
<1>5. Cardinality(pushed) \in Nat /\ IsFiniteSet(pushed)
  BY <1>1, FS_CardinalityType DEF AlarmShape
<1>6. n \in Nat /\ e.id = n /\ e.prio \in Nat
  BY <1>2, <1>3, <1>5, AlarmAssumption
<1>7. \A f \in pushed : f.id \in 1 .. Cardinality(pushed) /\ f.id # n
  BY <1>1, <1>2, <1>5 DEF AlarmShape
<1>8. e \notin pushed
  BY <1>6, <1>7
<1>9. IsFiniteSet(pushed') /\ Cardinality(pushed') = n
  BY <1>2, <1>4, <1>5, <1>8, FS_AddElement
<1>10. AlarmShape'
  <2>1. \A f \in pushed' : f.id \in 1 .. n /\ f.prio \in Nat
    BY <1>1, <1>2, <1>4, <1>5, <1>6, <1>7 DEF AlarmShape
  <2>2. eventQ' \subseteq pushed'
    BY <1>1, <1>4 DEF AlarmShape
  <2> QED
    BY <1>1, <1>4, <1>9, <2>1, <2>2 DEF AlarmShape
<1>11. ASSUME NEW x, NEW f, x \in Owed(f) PROVE x[3].ev = f.id
  <2>1. PICK ch \in Channels, u \in TeamMembers, kind \in EventParts : x = <<ch, u, Said(f, kind)>>
    BY <1>11, OwedIs
  <2>2. x[3] = Said(f, kind)
    BY <2>1
  <2> QED
    BY <2>2 DEF Said
<1>12. \A x \in Owed(e) : \A t, y : ~At(x, t, y)
  BY <1>1, <1>6, <1>7, <1>11 DEF Covers
<1>13. \A x, t, y : t # "event" => (At(x, t, y)' <=> At(x, t, y))
  BY <1>4 DEF At
<1>14. \A x, y : At(x, "event", y)' <=> At(x, "event", y) \/ (y = e /\ x \in Owed(e))
  BY <1>4, AtIs, AtIsNext
<1>15. \A x, t, y : At(x, t, y)' <=> At(x, t, y) \/ (t = "event" /\ y = e /\ x \in Owed(e))
  BY <1>13, <1>14
<1>16. Once'
  <2>1. SUFFICES ASSUME NEW x, NEW t, NEW y, NEW a, NEW b, At(x, t, y)', At(x, a, b)' PROVE t = a /\ y = b
    BY DEF Once
  <2>2. CASE x \in Owed(e)
    BY <1>12, <1>15, <2>1, <2>2
  <2>3. CASE x \notin Owed(e)
    BY <1>1, <1>15, <2>1, <2>3 DEF Once
  <2> QED
    BY <2>2, <2>3
<1>17. Covers'
  <2>1. SUFFICES ASSUME NEW x PROVE (\E t, y : At(x, t, y)') <=> (\E f \in pushed' : x \in Owed(f))
    BY DEF Covers
  <2>2. (\E t, y : At(x, t, y)) <=> (\E f \in pushed : x \in Owed(f))
    BY <1>1 DEF Covers
  <2>3. (\E t, y : At(x, t, y)') <=> (\E t, y : At(x, t, y)) \/ x \in Owed(e)
    BY <1>15
  <2> QED
    BY <1>4, <2>2, <2>3
<1> QED
  BY <1>10, <1>16, <1>17 DEF AlarmInv

\* The invariant holds at the start, when there is nothing to tell.
LEMMA AlarmInvInit == AlarmInit => AlarmInv
<1>1. SUFFICES ASSUME AlarmInit PROVE AlarmInv
  OBVIOUS
<1>2. ReaderOK(Idle)
  BY DEF ReaderOK
<1>3. IsFiniteSet({})
  BY FS_EmptySet
<1>4. AlarmShape
  BY <1>1, <1>2, <1>3 DEF AlarmInit, AlarmShape
<1>5. ASSUME NEW x, NEW t, NEW y PROVE ~At(x, t, y)
  <2>1. ~InReader(x, reader["high"], y) /\ ~InReader(x, reader["low"], y)
    BY <1>1 DEF AlarmInit, InReader, AlarmReaders
  <2>2. /\ ~InQueue(x, userQ, y) /\ ~InQueue(x, outQ, y)
        /\ ~InQueue(x, combining, y) /\ ~InQueue(x, sending, y) /\ ~InQueue(x, working, y)
    BY <1>1 DEF AlarmInit, InQueue
  <2>3. eventQ = {} /\ delivered = {} /\ lost = {}
    BY <1>1 DEF AlarmInit
  <2> QED
    BY <2>1, <2>2, <2>3 DEF At
<1>6. pushed = {}
  BY <1>1 DEF AlarmInit
<1> QED
  BY <1>4, <1>5, <1>6 DEF AlarmInv, Once, Covers

\* Every step keeps it.
LEMMA AlarmInvNext == AlarmInv /\ [AlarmNextStep]_alarmVars => AlarmInv'
<1>1. SUFFICES ASSUME AlarmInv, [AlarmNextStep]_alarmVars PROVE AlarmInv'
  OBVIOUS
<1>2. CASE UNCHANGED alarmVars
  <2>1. /\ UNCHANGED <<eventQ, userQ, outQ, reader, combining, sending, working>>
        /\ UNCHANGED <<delivered, lost, pushed>>
    BY <1>2 DEF alarmVars
  <2>2. AlarmShape'
    BY <1>1, <2>1 DEF AlarmInv, AlarmShape
  <2>3. \A x, t, y : At(x, t, y)' <=> At(x, t, y)
    BY <2>1 DEF At
  <2> QED
    BY <1>1, <2>1, <2>2, <2>3 DEF AlarmInv, Once, Covers
<1>3. CASE \E k \in Kinds : PushEvent(k)
  BY <1>1, <1>3, PushEventStep
<1>4. ASSUME NEW r \in AlarmReaders,
             popEvent(r) \/ consume(r) \/ consumeWithoutAction(r) \/ WriteNext(r) \/ WriteFails(r)
      PROVE  AlarmInv'
  BY <1>1, <1>4, PopEventStep, ConsumeActionStep, WithoutActionStep, WriteNextStep, WriteFailsStep
<1>5. ASSUME NEW ch \in Channels,
             popAllDto(ch) \/ combine(ch) \/ combineUnlinked(ch) \/ combineFails(ch)
             \/ Consume(ch) \/ SendList(ch) \/ Send(ch)
      PROVE  AlarmInv'
  BY <1>1, <1>5, PopAllDtoStep, CombineStep, CombineUnlinkedStep, CombineFailsStep, ConsumeStep, SendListStep, SendStep
<1>6. CASE Restart
  BY <1>1, <1>6, RestartStep
<1> QED
  BY <1>1, <1>2, <1>3, <1>4, <1>5, <1>6 DEF AlarmNextStep

\* The stages in the order of Places.
Stages == <<"event", "high", "low", "user", "combining", "out", "sending", "working", "delivered", "lost">>

\* No stage is named twice.
LEMMA StagesDiffer == \A i, j \in 1 .. 10 : Stages[i] = Stages[j] => i = j
BY DEF Stages

\* A place holds what is at its stage.
LEMMA PlacesTell ==
    ASSUME AlarmShape
    PROVE  /\ DOMAIN Places = 1 .. 10
           /\ \A i \in 1 .. 10 : \A x : x \in Places[i] <=> \E y : At(x, Stages[i], y)
<1>1. DOMAIN Places = 1 .. 10
  BY DEF Places
<1>2. ASSUME NEW x
      PROVE  /\ x \in UNION {Owed(e) : e \in eventQ} <=> \E y : At(x, "event", y)
             /\ x \in Holds("high") <=> \E y : At(x, "high", y)
             /\ x \in Holds("low") <=> \E y : At(x, "low", y)
             /\ x \in AllTold(userQ) <=> \E y : At(x, "user", y)
             /\ x \in AllTold(combining) <=> \E y : At(x, "combining", y)
             /\ x \in AllTold(outQ) <=> \E y : At(x, "out", y)
             /\ x \in AllTold(sending) <=> \E y : At(x, "sending", y)
             /\ x \in AllTold(working) <=> \E y : At(x, "working", y)
             /\ x \in delivered <=> \E y : At(x, "delivered", y)
             /\ x \in lost <=> \E y : At(x, "lost", y)
  <2>1. /\ x \in Holds("high") <=> \E y : At(x, "high", y)
        /\ x \in Holds("low") <=> \E y : At(x, "low", y)
    BY HoldsTells DEF AlarmReaders
  <2>2. /\ x \in AllTold(userQ) <=> \E y : At(x, "user", y)
        /\ x \in AllTold(combining) <=> \E y : At(x, "combining", y)
        /\ x \in AllTold(outQ) <=> \E y : At(x, "out", y)
        /\ x \in AllTold(sending) <=> \E y : At(x, "sending", y)
        /\ x \in AllTold(working) <=> \E y : At(x, "working", y)
    BY QueueTells, AtIs
  <2>3. x \in UNION {Owed(e) : e \in eventQ} <=> \E y : At(x, "event", y)
    BY AtIs
  <2>4. /\ x \in delivered <=> \E y : At(x, "delivered", y)
        /\ x \in lost <=> \E y : At(x, "lost", y)
    BY AtIs
  <2> QED
    BY <2>1, <2>2, <2>3, <2>4
<1>3. PICK E, H, L, U, C, O, S, W, D, F :
        /\ E = UNION {Owed(e) : e \in eventQ} /\ H = Holds("high") /\ L = Holds("low")
        /\ U = AllTold(userQ) /\ C = AllTold(combining) /\ O = AllTold(outQ)
        /\ S = AllTold(sending) /\ W = AllTold(working) /\ D = delivered /\ F = lost
  OBVIOUS
<1>4. Places = <<E, H, L, U, C, O, S, W, D, F>>
  BY <1>3 DEF Places
<1>5. ASSUME NEW i \in 1 .. 10, NEW x PROVE x \in Places[i] <=> \E y : At(x, Stages[i], y)
  <2>1. \/ i = 1 \/ i = 2 \/ i = 3 \/ i = 4 \/ i = 5 \/ i = 6 \/ i = 7 \/ i = 8 \/ i = 9 \/ i = 10
    OBVIOUS
  <2>2. /\ x \in E <=> \E y : At(x, "event", y)
        /\ x \in H <=> \E y : At(x, "high", y)
        /\ x \in L <=> \E y : At(x, "low", y)
        /\ x \in U <=> \E y : At(x, "user", y)
        /\ x \in C <=> \E y : At(x, "combining", y)
        /\ x \in O <=> \E y : At(x, "out", y)
        /\ x \in S <=> \E y : At(x, "sending", y)
        /\ x \in W <=> \E y : At(x, "working", y)
        /\ x \in D <=> \E y : At(x, "delivered", y)
        /\ x \in F <=> \E y : At(x, "lost", y)
    BY <1>2, <1>3
  <2> QED
    BY <1>4, <2>1, <2>2 DEF Stages
<1> QED
  BY <1>1, <1>5

\* At one place of one stage, and what an event had to tell: ToldOnce.
LEMMA AlarmInvImplies == AlarmInv => ToldOnce
<1>1. SUFFICES ASSUME AlarmInv PROVE ToldOnce
  OBVIOUS
<1>2. PICK P : P = Places
  OBVIOUS
<1>3. DOMAIN P = 1 .. 10 /\ \A i \in 1 .. 10 : \A x : x \in P[i] <=> \E y : At(x, Stages[i], y)
  BY <1>1, <1>2, PlacesTell DEF AlarmInv
<1>4. \A x : (\E i \in 1 .. 10 : x \in P[i]) <=> (\E t, y : At(x, t, y))
  <2>1. ASSUME NEW x, NEW t, NEW y, At(x, t, y) PROVE \E i \in 1 .. 10 : x \in P[i]
    <3>1. \E i \in 1 .. 10 : t = Stages[i]
      BY <2>1 DEF At, Stages
    <3> QED
      BY <1>3, <2>1, <3>1
  <2> QED
    BY <1>3, <2>1
<1>5. \A x : (\E i \in 1 .. 10 : x \in P[i]) <=> (\E e \in pushed : x \in Owed(e))
  BY <1>1, <1>4 DEF AlarmInv, Covers
<1>6. UNION {P[i] : i \in DOMAIN P} = UNION {Owed(e) : e \in pushed}
  BY <1>3, <1>5
<1>7. ASSUME NEW i \in DOMAIN P, NEW j \in DOMAIN P, i # j PROVE P[i] \cap P[j] = {}
  <2>1. SUFFICES ASSUME NEW x, x \in P[i], x \in P[j] PROVE FALSE
    OBVIOUS
  <2>2. PICK y, b : At(x, Stages[i], y) /\ At(x, Stages[j], b)
    BY <1>3, <2>1
  <2>3. Stages[i] = Stages[j]
    BY <1>1, <2>2 DEF AlarmInv, Once
  <2> QED
    BY <1>3, <1>7, <2>3, StagesDiffer
<1> QED
  BY <1>2, <1>6, <1>7 DEF ToldOnce

(* For any team, contacts, priorities, number of workers and order in which the  *)
(* goroutines, failing calls and restarts of alarm fall: what an event has to     *)
(* tell a member on a channel (consume, HandleCallback) is in exactly one place,  *)
(* and nothing else is anywhere: nobody is told twice, combining forgets nobody,  *)
(* and what is missing was taken by a fault.                                      *)
THEOREM EveryoneToldOnce == AlarmSpec => []ToldOnce
<1>1. AlarmInit => AlarmInv
  BY AlarmInvInit
<1>2. AlarmInv /\ [AlarmNextStep]_alarmVars => AlarmInv'
  BY AlarmInvNext
<1>3. AlarmInv => ToldOnce
  BY AlarmInvImplies
<1> QED
  BY <1>1, <1>2, <1>3, PTL DEF AlarmSpec

----------------------------------------------------------------------------
(* Sessions (api: uic).                                                    *)

USE UicAssumption

Logins == {q \in uicPend : q.op = "login" /\ q.sig # 0}

\* What is said anywhere about whose signature it is.
Claimed == {<<s.sig, s.uid>> : s \in sessions}
             \cup {<<t.sig, t.uid>> : t \in handed}
             \cup {<<q.sig, q.row.id>> : q \in Logins}

SigsAgree == \A x, y \in Claimed : x[1] = y[1] => x[2] = y[2]

SessionInv ==
    /\ uicNext.sig \in Nat \ {0}
    /\ \A x \in Claimed : x[1] \in 1 .. uicNext.sig - 1
    /\ SigsAgree
    /\ loggedOut \subseteq 1 .. uicNext.sig - 1
    /\ \A s \in sessions : s = [sig |-> s.sig, uid |-> s.uid] /\ s.sig \notin loggedOut

\* The counters are a record.
NextRecord == uicNext \in [user : Nat, sig : Nat \ {0}, team : Nat \ {0}]

\* A request that makes no signature changes nothing about them.
LEMMA SameSigs ==
    ASSUME SessionInv, Claimed' \subseteq Claimed, sessions' \subseteq sessions,
           uicNext'.sig = uicNext.sig, loggedOut' = loggedOut
    PROVE  SessionInv'
BY DEF SessionInv, SigsAgree

\* A new signature is one nobody has used.
LEMMA FreshSig ==
    ASSUME SessionInv, NEW u, Claimed' \subseteq Claimed \cup {<<uicNext.sig, u>>},
           sessions' \subseteq sessions \cup {[sig |-> uicNext.sig, uid |-> u]},
           uicNext'.sig = uicNext.sig + 1, loggedOut' = loggedOut
    PROVE  SessionInv'
<1>1. uicNext.sig \in Nat \ {0} /\ uicNext'.sig \in Nat \ {0}
  BY DEF SessionInv
<1>2. \A x \in Claimed : x[1] \in 1 .. uicNext.sig - 1 /\ x[1] # uicNext.sig
  BY <1>1 DEF SessionInv
<1>3. \A k \in 1 .. uicNext.sig - 1 : k \in 1 .. uicNext'.sig - 1 /\ k # uicNext.sig
  BY <1>1
<1>4. uicNext.sig \in 1 .. uicNext'.sig - 1
  BY <1>1
<1>5. \A x \in Claimed' : x[1] \in 1 .. uicNext'.sig - 1
  BY <1>2, <1>3, <1>4
<1>6. SigsAgree'
  BY <1>2 DEF SessionInv, SigsAgree
<1>7. loggedOut' \subseteq 1 .. uicNext'.sig - 1 /\ uicNext.sig \notin loggedOut
  BY <1>3 DEF SessionInv
<1>8. \A s \in sessions' : s = [sig |-> s.sig, uid |-> s.uid] /\ s.sig \notin loggedOut'
  BY <1>7 DEF SessionInv
<1> QED
  BY <1>1, <1>5, <1>6, <1>7, <1>8 DEF SessionInv

\* The statement that makes a session answers it, stored or not.
LEMMA NewSessionClaims ==
    ASSUME NEW u, NewSession(u), Logins' \subseteq Logins
    PROVE  /\ Claimed' \subseteq Claimed \cup {<<uicNext.sig, u.id>>}
           /\ sessions' \subseteq sessions \cup {[sig |-> uicNext.sig, uid |-> u.id]}
<1>1. sessions' \subseteq sessions \cup {[sig |-> uicNext.sig, uid |-> u.id]}
  BY DEF NewSession
<1>2. handed' = handed \cup {[name |-> u.name, sig |-> uicNext.sig, uid |-> u.id]}
  BY DEF NewSession
<1> QED
  BY <1>1, <1>2 DEF Claimed

\* A step that touches neither sessions, answers nor logins in progress.
LEMMA NoSigs ==
    ASSUME SessionInv, sessions' = sessions, handed' = handed, loggedOut' = loggedOut,
           uicNext'.sig = uicNext.sig, Logins' \subseteq Logins
    PROVE  SessionInv'
<1>1. Claimed' \subseteq Claimed
  BY DEF Claimed
<1> QED
  BY <1>1, SameSigs

\* Handlers that save a user row later are not logins.
LEMMA SavesAreNoLogins ==
    ASSUME NEW column \in {"passwd", "role"}, NEW read, NEW row, ReadToSave(column, read, row)
    PROVE  /\ Logins' = Logins
           /\ UNCHANGED <<sessions, handed, loggedOut, uicNext>>
BY DEF ReadToSave, Logins

\* Every request preserves the agreement about signatures.
LEMMA SessionInvStep ==
    SessionInv /\ NextRecord /\ [UicNextStep]_uicVars => SessionInv'
<1> SUFFICES ASSUME SessionInv, NextRecord, [UicNextStep]_uicVars PROVE SessionInv'
  OBVIOUS
<1>n. uicNext \in [user : Nat, sig : Nat \ {0}, team : Nat \ {0}]
  BY DEF NextRecord
<1>1. CASE UNCHANGED uicVars
  BY <1>1, NoSigs DEF uicVars, Logins
<1>2. ASSUME NEW n \in Names, NEW p \in Passwords, CreateUser(n, p) PROVE SessionInv'
  <2> DEFINE u == [id |-> uicNext.user, name |-> n, passwd |-> p,
                   role |-> IF n = "root" THEN 2 ELSE 0, edited |-> FALSE]
  <2>1. NewSession(u) /\ uicNext'.sig = uicNext.sig + 1 /\ loggedOut' = loggedOut
    BY <1>2, <1>n DEF CreateUser
  <2>2. Logins' = Logins
    BY <1>2 DEF CreateUser, Logins
  <2> HIDE DEF u
  <2> QED
    BY <2>1, <2>2, NewSessionClaims, FreshSig
<1>3. ASSUME NEW n \in Names, NEW p \in Passwords, LoginRead(n, p) PROVE SessionInv'
  <2> DEFINE u == UserNamed(n)
             own == {s \in sessions : s.uid = u.id}
  <2>1. PICK sig \in IF own = {} THEN {0} ELSE {s.sig : s \in own} :
          uicPend' = uicPend \cup {[op |-> "login", row |-> u, read |-> u, sig |-> sig]}
    BY <1>3 DEF LoginRead
  <2>2. UNCHANGED <<sessions, handed, loggedOut, uicNext>>
    BY <1>3 DEF LoginRead
  <2>3. ASSUME NEW q \in Logins' PROVE q \in Logins \/ <<q.sig, q.row.id>> \in Claimed
    <3>1. CASE q \in uicPend
      BY <2>3, <3>1 DEF Logins
    <3>2. CASE q = [op |-> "login", row |-> u, read |-> u, sig |-> sig] /\ sig # 0
      <4>1. PICK s \in sessions : s.uid = u.id /\ sig = s.sig
        BY <2>1, <3>2
      <4>2. q.sig = s.sig /\ q.row.id = s.uid
        BY <3>2, <4>1
      <4> QED
        BY <4>2 DEF Claimed
    <3> QED
      BY <2>1, <2>3, <3>1, <3>2 DEF Logins
  <2>4. Claimed' \subseteq Claimed
    BY <2>2, <2>3 DEF Claimed
  <2> QED
    BY <2>2, <2>4, SameSigs
<1>4. ASSUME NEW q \in uicPend, LoginReply(q) PROVE SessionInv'
  <2>1. Logins' \subseteq Logins /\ loggedOut' = loggedOut /\ q.op = "login"
    BY <1>4 DEF LoginReply, Logins
  <2>2. CASE q.sig = 0
    <3>1. NewSession(q.row) /\ uicNext'.sig = uicNext.sig + 1
      BY <1>4, <1>n, <2>2 DEF LoginReply
    <3> QED
      BY <2>1, <3>1, NewSessionClaims, FreshSig
  <2>3. CASE q.sig # 0
    <3>1. /\ handed' = handed \cup {[name |-> q.row.name, sig |-> q.sig, uid |-> q.row.id]}
          /\ UNCHANGED <<sessions, uicNext>>
      BY <1>4, <2>3 DEF LoginReply
    <3>2. <<q.sig, q.row.id>> \in Claimed
      BY <2>1, <2>3 DEF Claimed, Logins
    <3>3. Claimed' \subseteq Claimed
      BY <2>1, <3>1, <3>2 DEF Claimed
    <3> QED
      BY <2>1, <3>1, <3>3, SameSigs
  <2> QED
    BY <2>2, <2>3
<1>5. ASSUME NEW q \in uicPend, SaveRow(q) PROVE SessionInv'
  BY <1>5, NoSigs DEF SaveRow, Logins
<1>6. ASSUME NEW t \in handed, Logout(t) PROVE SessionInv'
  <2> DEFINE row == [sig |-> t.sig, uid |-> CurrentUser(t).id]
  <2>1. row \in sessions /\ UNCHANGED <<uicPend, handed, uicNext>>
    BY <1>6 DEF Logout
  <2>2. CASE UNCHANGED <<sessions, loggedOut>>
    BY <2>1, <2>2, NoSigs DEF Logins
  <2>3. CASE sessions' = sessions \ {row} /\ loggedOut' = loggedOut \cup {t.sig}
    <3>1. Claimed' \subseteq Claimed /\ <<t.sig, t.uid>> \in Claimed
      BY <2>1, <2>3 DEF Claimed, Logins
    <3>2. ASSUME NEW s \in sessions' PROVE s.sig # t.sig
      <4>1. s \in sessions /\ s # row /\ s = [sig |-> s.sig, uid |-> s.uid]
        BY <2>3 DEF SessionInv
      <4>2. <<s.sig, s.uid>> \in Claimed /\ <<t.sig, row.uid>> \in Claimed
        BY <2>1, <4>1 DEF Claimed
      <4> QED
        BY <4>1, <4>2 DEF SessionInv, SigsAgree
    <3>3. t.sig \in 1 .. uicNext.sig - 1
      BY <3>1 DEF SessionInv
    <3>4. SigsAgree' /\ \A x \in Claimed' : x[1] \in 1 .. uicNext'.sig - 1
      BY <2>1, <3>1 DEF SessionInv, SigsAgree
    <3>5. \A s \in sessions' : s = [sig |-> s.sig, uid |-> s.uid] /\ s.sig \notin loggedOut'
      BY <2>3, <3>2 DEF SessionInv
    <3> QED
      BY <2>1, <2>3, <3>3, <3>4, <3>5 DEF SessionInv
  <2> QED
    BY <1>6, <2>2, <2>3 DEF Logout
<1>7. ASSUME NEW t \in Tokens, NEW p \in Passwords, NEW q \in Passwords,
             ChangePassword(t, p, q)
      PROVE  SessionInv'
  BY <1>7, SavesAreNoLogins, NoSigs DEF ChangePassword
<1>8. ASSUME NEW t \in Tokens, NEW i \in 1 .. MaxUsers, NEW p \in Passwords,
             AdminChangePassword(t, i, p)
      PROVE  SessionInv'
  BY <1>8, SavesAreNoLogins, NoSigs DEF AdminChangePassword
<1>9. ASSUME NEW t \in Tokens, NEW i \in 1 .. MaxUsers, NEW r \in {0, 1},
             ChangeRoleOfUser(t, i, r)
      PROVE  SessionInv'
  <2>1. CASE i \in Ids(users)
    BY <1>9, <2>1, SavesAreNoLogins, NoSigs DEF ChangeRoleOfUser
  <2>2. CASE i \notin Ids(users)
    <3>1. /\ UNCHANGED <<sessions, uicPend, handed, loggedOut>>
          /\ uicNext'.sig = uicNext.sig
      BY <1>9, <1>n, <2>2 DEF ChangeRoleOfUser
    <3> QED
      BY <3>1, NoSigs DEF Logins
  <2> QED
    BY <2>1, <2>2
<1>10. ASSUME NEW t \in Tokens,
              \/ UpdateCurrentUser(t)
              \/ \E i \in 1 .. MaxUsers : AdminUserDelete(t, i) \/ AdminChangeUserProfile(t, i)
       PROVE  SessionInv'
  BY <1>10, NoSigs DEF UpdateCurrentUser, AdminUserDelete, AdminChangeUserProfile,
     EditProfile, Logins
<1>11. ASSUME NEW t \in Tokens, NEW uids, CreateTeam(t, uids) PROVE SessionInv'
  <2>1. /\ UNCHANGED <<sessions, uicPend, handed, loggedOut>>
        /\ uicNext'.sig = uicNext.sig
    BY <1>11, <1>n DEF CreateTeam
  <2> QED
    BY <2>1, NoSigs DEF Logins
<1>12. ASSUME NEW t \in Tokens, NEW tid \in 1 .. MaxTeams, NEW uids,
              UpdateTeam(t, tid, uids) \/ DeleteTeam(t, tid)
       PROVE  SessionInv'
  BY <1>12, NoSigs DEF UpdateTeam, DeleteTeam, Logins
<1> QED
  BY <1>1, <1>2, <1>3, <1>4, <1>5, <1>6, <1>7, <1>8, <1>9, <1>10, <1>11, <1>12
     DEF UicNextStep

\* Nobody has a signature before the first login.
LEMMA SessionInvInit == UicInit => SessionInv /\ NextRecord
<1> SUFFICES ASSUME UicInit PROVE SessionInv /\ NextRecord
  OBVIOUS
<1>1. uicNext = [user |-> IF users = {} THEN 1 ELSE 2, sig |-> 1, team |-> 1]
  BY DEF UicInit
<1>2. Claimed = {} /\ loggedOut = {} /\ sessions = {}
  BY DEF UicInit, Claimed, Logins
<1> QED
  BY <1>1, <1>2 DEF SessionInv, SigsAgree, NextRecord

\* The counters stay a record of numbers.
LEMMA NextRecordStep == NextRecord /\ [UicNextStep]_uicVars => NextRecord'
<1> SUFFICES ASSUME NextRecord, [UicNextStep]_uicVars PROVE NextRecord'
  OBVIOUS
<1>1. PICK Pos : Pos = Nat \ {0}
  OBVIOUS
<1>2. uicNext \in [user : Nat, sig : Pos, team : Pos]
  BY <1>1 DEF NextRecord
<1>3. uicNext.user + 1 \in Nat /\ uicNext.sig + 1 \in Pos /\ uicNext.team + 1 \in Pos
  BY <1>1, <1>2
<1>4. /\ [uicNext EXCEPT !.user = @ + 1] \in [user : Nat, sig : Pos, team : Pos]
      /\ [uicNext EXCEPT !.sig = @ + 1] \in [user : Nat, sig : Pos, team : Pos]
      /\ [uicNext EXCEPT !.team = @ + 1] \in [user : Nat, sig : Pos, team : Pos]
      /\ [uicNext EXCEPT !.user = @ + 1, !.sig = @ + 1] \in [user : Nat, sig : Pos, team : Pos]
  BY <1>2, <1>3
<1>5. \/ uicNext' = uicNext
      \/ uicNext' = [uicNext EXCEPT !.user = @ + 1]
      \/ uicNext' = [uicNext EXCEPT !.sig = @ + 1]
      \/ uicNext' = [uicNext EXCEPT !.team = @ + 1]
      \/ uicNext' = [uicNext EXCEPT !.user = @ + 1, !.sig = @ + 1]
  BY DEF UicNextStep, uicVars, CreateUser, LoginRead, LoginReply, SaveRow, Logout, UpdateCurrentUser,
     ChangePassword, AdminChangePassword, ChangeRoleOfUser, AdminUserDelete, AdminChangeUserProfile,
     EditProfile, ReadToSave, CreateTeam, UpdateTeam, DeleteTeam
<1> QED
  BY <1>1, <1>2, <1>4, <1>5 DEF NextRecord

----------------------------------------------------------------------------
\* The invariant of signatures.
LEMMA SigsInvAlways == UicSpec => [](NextRecord /\ SessionInv)
<1>1. UicInit => NextRecord /\ SessionInv
  BY SessionInvInit
<1>2. NextRecord /\ SessionInv /\ [UicNextStep]_uicVars => (NextRecord /\ SessionInv)'
  BY SessionInvStep, NextRecordStep
<1> QED
  BY <1>1, <1>2, PTL DEF UicSpec

\* With the session check on, AuthSessionMidd never lets a token act for a user
\* other than the one it was made for, nor after its logout was answered: whatever
\* logins race, whatever user rows are deleted, made again or saved back. Only the
\* configured default token acts under every name.
THEOREM TokensStayPersonal == UicSpec => []OnlyLiveTokens
<1>1. NextRecord /\ SessionInv => OnlyLiveTokens
  <2> SUFFICES ASSUME SessionInv, NEW t \in Tokens, AuthSessionMidd(t), ~uicConf.skip_auth,
                      ~(t.sig = DefaultSig /\ uicConf.default_token)
               PROVE  t \in handed /\ t.sig \notin loggedOut /\ UserNamed(t.name).id = t.uid
    BY DEF OnlyLiveTokens
  <2>1. PICK s \in sessions : s.sig = t.sig /\ s.uid = UserNamed(t.name).id
    BY DEF AuthSessionMidd, SessionChecking
  <2>2. <<s.sig, s.uid>> \in Claimed
    BY DEF Claimed
  <2>3. s.sig \in 1 .. uicNext.sig - 1 /\ uicNext.sig \in Nat
    BY <2>2 DEF SessionInv
  <2>4. s.sig # DefaultSig
    BY <2>3 DEF DefaultSig
  <2>5. t \in handed
    BY <2>1, <2>4 DEF Tokens
  <2>6. <<t.sig, t.uid>> \in Claimed
    BY <2>5 DEF Claimed
  <2>7. s.uid = t.uid
    BY <2>1, <2>2, <2>6 DEF SessionInv, SigsAgree
  <2>8. s.sig \notin loggedOut
    BY DEF SessionInv
  <2> QED
    BY <2>1, <2>5, <2>7, <2>8
<1> QED
  BY <1>1, SigsInvAlways, PTL

----------------------------------------------------------------------------
(* Changes of user rows (api: uic). Somebody is a row of the table and of the  *)
(* history alike, unless a save crossed another change of it.                  *)

IsUser(u) == u = [id |-> u.id, name |-> u.name, passwd |-> u.passwd, role |-> u.role, edited |-> u.edited]
Known(T) == \A u \in T : IsUser(u) /\ u.id \in Nat /\ u.id < uicNext.user

\* What is to be saved is what was read with the one column the request is for.
Saves == {q \in uicPend : q.op \in {"passwd", "role"}}
SaveOK(q) == IsUser(q.read) /\ q.read.id \in Nat /\ q.read.id < uicNext.user /\ q.row = Asked(q, q.read)

\* The table and the history hold the same rows with the id i.
SameRows(i) == \A u : u.id = i => (u \in users <=> u \in meant)

UserInv ==
    /\ Known(users) /\ Known(meant)
    /\ \A u, v \in users : u.id = v.id => u = v
    /\ \A q \in Saves : SaveOK(q)
    /\ \A i \in Nat \ crossed : SameRows(i)

\* A request that leaves the user rows and the saves to come.
LEMMA UsersStay ==
    ASSUME UserInv, NextRecord, users' = users, meant' = meant, crossed' = crossed, Saves' \subseteq Saves,
           uicNext'.user = uicNext.user
    PROVE  UserInv'
<1>1. \A i : SameRows(i)' <=> SameRows(i)
  BY DEF SameRows
<1>2. Known(users)' /\ Known(meant)'
  BY DEF UserInv, Known
<1>3. \A q \in Saves' : SaveOK(q)'
  BY DEF UserInv, SaveOK
<1> QED
  BY <1>1, <1>2, <1>3 DEF UserInv

\* A handler reads a row, to save it with one column changed.
LEMMA ReadStep ==
    ASSUME UserInv, NextRecord, NEW column \in {"passwd", "role"}, NEW read \in users, NEW row,
           \/ column = "passwd" /\ \E p : row = [read EXCEPT !.passwd = p]
           \/ column = "role" /\ \E p : row = [read EXCEPT !.role = p],
           ReadToSave(column, read, row)
    PROVE  UserInv'
<1> DEFINE q == [op |-> column, row |-> row, read |-> read, sig |-> 0]
<1>1. /\ uicPend' = uicPend \cup {q}
      /\ UNCHANGED <<users, meant, crossed, uicNext>>
  BY DEF ReadToSave
<1>2. q.op = column /\ q.row = row /\ q.read = read
  OBVIOUS
<1>3. IsUser(read) /\ read.id \in Nat /\ read.id < uicNext.user
  BY DEF UserInv, Known
<1> HIDE DEF q
<1>4. row = Asked(q, read)
  <2>1. CASE column = "passwd"
    <3>1. PICK p : row = [read EXCEPT !.passwd = p]
      BY <2>1
    <3>2. row.passwd = p
      BY <1>3, <3>1 DEF IsUser
    <3> QED
      BY <1>2, <2>1, <3>1, <3>2 DEF Asked
  <2>2. CASE column = "role"
    <3>1. PICK p : row = [read EXCEPT !.role = p]
      BY <2>2
    <3>2. row.role = p
      BY <1>3, <3>1 DEF IsUser
    <3> QED
      BY <1>2, <2>2, <3>1, <3>2 DEF Asked
  <2> QED
    BY <2>1, <2>2
<1>5. SaveOK(q)'
  BY <1>1, <1>2, <1>3, <1>4 DEF SaveOK
<1>6. \A x \in Saves' : SaveOK(x)'
  <2>1. \A x \in Saves : SaveOK(x)'
    BY <1>1 DEF UserInv, SaveOK
  <2>2. \A x \in Saves' : x \in Saves \/ x = q
    BY <1>1 DEF Saves
  <2> QED
    BY <1>5, <2>1, <2>2
<1>7. \A i : SameRows(i)' <=> SameRows(i)
  BY <1>1 DEF SameRows
<1>8. Known(users)' /\ Known(meant)'
  BY <1>1 DEF UserInv, Known
<1> QED
  BY <1>1, <1>6, <1>7, <1>8 DEF UserInv

\* A row with a new id is in the table and in the history.
LEMMA InsertStep ==
    ASSUME UserInv, NextRecord, NEW u, IsUser(u), u.id = uicNext.user,
           users' = users \cup {u}, meant' = meant \cup {u}, crossed' = crossed, uicPend' = uicPend,
           uicNext'.user = uicNext.user + 1
    PROVE  UserInv'
<1>1. uicNext.user \in Nat /\ u.id \in Nat /\ u.id < uicNext'.user
  BY DEF NextRecord
<1>2. \A k \in Nat : k < uicNext.user => k < uicNext'.user /\ k # u.id
  BY <1>1
<1>3. Known(users)' /\ Known(meant)'
  BY <1>1, <1>2 DEF UserInv, Known
<1>4. \A x, y \in users' : x.id = y.id => x = y
  BY <1>2 DEF UserInv, Known
<1>5. \A q \in Saves' : SaveOK(q)'
  BY <1>2 DEF UserInv, SaveOK, Saves
<1>6. \A i \in Nat \ crossed' : SameRows(i)'
  BY DEF UserInv, SameRows
<1> QED
  BY <1>3, <1>4, <1>5, <1>6 DEF UserInv

\* An update of the profile columns by one statement.
LEMMA EditStep ==
    ASSUME UserInv, NextRecord, NEW i, EditProfile(i)
    PROVE  UserInv'
<1>1. users' = Edited(users, i) /\ meant' = Edited(meant, i) /\ UNCHANGED <<uicPend, crossed, uicNext>>
  BY DEF EditProfile
<1> DEFINE E(u) == [u EXCEPT !.edited = TRUE]
<1>2. ASSUME NEW u, IsUser(u) PROVE IsUser(E(u)) /\ E(u).id = u.id
  <2>1. u = [id |-> u.id, name |-> u.name, passwd |-> u.passwd, role |-> u.role, edited |-> u.edited]
    BY <1>2 DEF IsUser
  <2>2. PICK b : b = TRUE
    OBVIOUS
  <2>3. PICK v : v = [u EXCEPT !.edited = b]
    OBVIOUS
  <2>4. v = [id |-> u.id, name |-> u.name, passwd |-> u.passwd, role |-> u.role, edited |-> b]
    BY <2>1, <2>3
  <2>5. IsUser(v) /\ v.id = u.id
    BY <2>4 DEF IsUser
  <2>6. E(u) = v
    BY <2>2, <2>3
  <2> QED
    BY <2>5, <2>6
<1> HIDE DEF E
<1>3. \A T, x : x \in Edited(T, i) <=> \E u \in T : x = IF u.id = i THEN E(u) ELSE u
  BY DEF Edited, E
<1>4. \A u \in users \cup meant : IsUser(u) /\ u.id \in Nat /\ u.id < uicNext.user
  BY DEF UserInv, Known
<1>5. Known(users)' /\ Known(meant)'
  BY <1>1, <1>2, <1>3, <1>4 DEF Known
<1>6. \A x, y \in users' : x.id = y.id => x = y
  <2>1. SUFFICES ASSUME NEW x \in users', NEW y \in users', x.id = y.id PROVE x = y
    OBVIOUS
  <2>2. PICK u \in users : x = IF u.id = i THEN E(u) ELSE u
    BY <1>1, <1>3
  <2>3. PICK v \in users : y = IF v.id = i THEN E(v) ELSE v
    BY <1>1, <1>3
  <2>4. x.id = u.id /\ y.id = v.id
    BY <2>2, <2>3, <1>2, <1>4
  <2>5. u = v
    BY <2>1, <2>4 DEF UserInv
  <2> QED
    BY <2>2, <2>3, <2>5
<1>7. \A q \in Saves' : SaveOK(q)'
  BY <1>1 DEF UserInv, SaveOK, Saves
<1>8. ASSUME NEW j \in Nat \ crossed PROVE SameRows(j)'
  <2>1. SUFFICES ASSUME NEW x, x.id = j PROVE x \in users' <=> x \in meant'
    BY DEF SameRows
  <2>2. SameRows(j)
    BY DEF UserInv
  <2>3. ASSUME NEW u \in users \cup meant, x = IF u.id = i THEN E(u) ELSE u PROVE u \in users <=> u \in meant
    <3>1. u.id = j
      BY <2>1, <2>3, <1>2, <1>4
    <3> QED
      BY <2>2, <3>1 DEF SameRows
  <2> QED
    BY <1>1, <1>3, <2>3
<1> QED
  BY <1>1, <1>5, <1>6, <1>7, <1>8 DEF UserInv

\* A save: it writes what was asked for, unless the row has changed since it was read.
LEMMA SaveStep ==
    ASSUME UserInv, NextRecord, NEW q \in uicPend, SaveRow(q)
    PROVE  UserInv'
<1>1. q \in Saves /\ Saves' \subseteq Saves /\ uicNext' = uicNext
  BY DEF SaveRow, Saves
<1>2. CASE UNCHANGED <<users, meant, crossed>>
  BY <1>1, <1>2, UsersStay
<1>3. CASE /\ users' = Save(users, q.row)
           /\ meant' = {IF u.id = q.row.id THEN Asked(q, u) ELSE u : u \in meant}
           /\ crossed' = IF q.read \in users THEN crossed ELSE crossed \cup {q.row.id}
  <2>1. IsUser(q.read) /\ q.read.id \in Nat /\ q.read.id < uicNext.user /\ q.row = Asked(q, q.read)
    BY <1>1 DEF UserInv, SaveOK
  <2>2. ASSUME NEW u, IsUser(u) PROVE IsUser(Asked(q, u)) /\ Asked(q, u).id = u.id
    BY <2>2 DEF IsUser, Asked
  <2>3. IsUser(q.row) /\ q.row.id = q.read.id
    BY <2>1, <2>2
  <2>4. \A u \in users \cup meant : IsUser(u) /\ u.id \in Nat /\ u.id < uicNext.user
    BY DEF UserInv, Known
  <2>5. \A x : x \in users' <=> x = q.row \/ (x \in users /\ x.id # q.row.id)
    BY <1>3 DEF Save, Without
  <2>6. \A x : x \in meant' <=> \E u \in meant : x = IF u.id = q.row.id THEN Asked(q, u) ELSE u
    BY <1>3
  <2>7. Known(users)' /\ Known(meant)'
    BY <1>1, <2>1, <2>2, <2>3, <2>4, <2>5, <2>6 DEF Known
  <2>8. \A x, y \in users' : x.id = y.id => x = y
    BY <2>5 DEF UserInv
  <2>9. \A x \in Saves' : SaveOK(x)'
    BY <1>1 DEF UserInv, SaveOK
  <2>10. ASSUME NEW j \in Nat \ crossed' PROVE SameRows(j)'
    <3>1. j \notin crossed /\ SameRows(j)
      BY <1>3 DEF UserInv
    <3>2. CASE j # q.row.id
      <4>1. SUFFICES ASSUME NEW x, x.id = j PROVE x \in users' <=> x \in meant'
        BY DEF SameRows
      <4>2. x \in users' <=> x \in users
        BY <2>5, <3>2, <4>1
      <4>3. x \in meant' <=> x \in meant
        BY <2>2, <2>4, <2>6, <3>2, <4>1
      <4> QED
        BY <3>1, <4>1, <4>2, <4>3 DEF SameRows
    <3>3. CASE j = q.row.id
      <4>1. q.read \in users
        BY <1>3, <3>3
      <4>2. q.read \in meant
        BY <2>3, <3>1, <3>3, <4>1 DEF SameRows
      <4>3. \A u \in meant : u.id = j => u = q.read
        BY <2>3, <3>1, <3>3, <4>1 DEF SameRows, UserInv
      <4>4. \A x : x.id = j => (x \in users' <=> x = q.row)
        BY <2>5, <3>3
      <4>5. \A x : x.id = j => (x \in meant' <=> x = q.row)
        BY <2>1, <2>2, <2>3, <2>4, <2>6, <3>3, <4>2, <4>3
      <4> QED
        BY <4>4, <4>5 DEF SameRows
    <3> QED
      BY <3>2, <3>3
  <2> QED
    BY <2>7, <2>8, <2>9, <2>10 DEF UserInv
<1> QED
  BY <1>2, <1>3 DEF SaveRow

\* A row deleted from both.
LEMMA DeleteStep ==
    ASSUME UserInv, NextRecord, NEW i, users' = Without(users, i), meant' = Without(meant, i),
           UNCHANGED <<uicPend, crossed, uicNext>>
    PROVE  UserInv'
<1>1. \A x : (x \in users' <=> x \in users /\ x.id # i) /\ (x \in meant' <=> x \in meant /\ x.id # i)
  BY DEF Without
<1>2. Known(users)' /\ Known(meant)'
  BY <1>1 DEF UserInv, Known
<1>3. \A q \in Saves' : SaveOK(q)'
  BY DEF UserInv, SaveOK, Saves
<1>4. \A j \in Nat \ crossed' : SameRows(j)'
  BY <1>1 DEF UserInv, SameRows
<1> QED
  BY <1>1, <1>2, <1>3, <1>4 DEF UserInv

\* Who is asking is in the table.
LEMMA AskerIsRow == \A t : Authorised(t) => CurrentUser(t) \in users
BY DEF Authorised, CurrentUser, NameTaken, UserNamed

\* A row that is looked up by its id is the one.
LEMMA RowIsThere == \A i : i \in Ids(users) => Row(users, i) \in users
BY DEF Ids, Row

\* Every request keeps it.
LEMMA UserInvStep ==
    UserInv /\ NextRecord /\ [UicNextStep]_uicVars => UserInv'
<1> SUFFICES ASSUME UserInv, NextRecord, [UicNextStep]_uicVars PROVE UserInv'
  OBVIOUS
<1>n. uicNext \in [user : Nat, sig : Nat \ {0}, team : Nat \ {0}]
  BY DEF NextRecord
<1>1. CASE UNCHANGED uicVars
  BY <1>1, UsersStay DEF uicVars, Saves
<1>2. ASSUME NEW n \in Names, NEW p \in Passwords, CreateUser(n, p) PROVE UserInv'
  <2>1. PICK role : role = IF n = "root" THEN 2 ELSE 0
    OBVIOUS
  <2>2. PICK u : u = [id |-> uicNext.user, name |-> n, passwd |-> p, role |-> role, edited |-> FALSE]
    OBVIOUS
  <2>3. IsUser(u) /\ u.id = uicNext.user
    BY <2>2 DEF IsUser
  <2>4. users' = users \cup {u} /\ meant' = meant \cup {u} /\ crossed' = crossed /\ uicPend' = uicPend
    BY <1>2, <2>1, <2>2 DEF CreateUser
  <2>5. uicNext'.user = uicNext.user + 1
    BY <1>2, <1>n DEF CreateUser
  <2> QED
    BY <2>3, <2>4, <2>5, InsertStep
<1>3. ASSUME NEW n \in Names, NEW p \in Passwords, LoginRead(n, p) PROVE UserInv'
  <2>1. PICK u, sig : uicPend' = uicPend \cup {[op |-> "login", row |-> u, read |-> u, sig |-> sig]}
    BY <1>3 DEF LoginRead
  <2>2. Saves' \subseteq Saves
    BY <2>1 DEF Saves
  <2> QED
    BY <1>3, <2>2, UsersStay DEF LoginRead
<1>4. ASSUME NEW q \in uicPend, LoginReply(q) PROVE UserInv'
  <2>1. Saves' \subseteq Saves /\ uicNext'.user = uicNext.user
    BY <1>4, <1>n DEF LoginReply, Saves
  <2> QED
    BY <1>4, <2>1, UsersStay DEF LoginReply
<1>5. ASSUME NEW q \in uicPend, SaveRow(q) PROVE UserInv'
  BY <1>5, SaveStep
<1>6. ASSUME NEW t \in handed, Logout(t) PROVE UserInv'
  BY <1>6, UsersStay DEF Logout, Saves
<1>7. ASSUME NEW t \in Tokens, NEW p \in Passwords, NEW q \in Passwords, ChangePassword(t, p, q)
      PROVE  UserInv'
  <2>1. PICK u \in users : ReadToSave("passwd", u, [u EXCEPT !.passwd = q])
    BY <1>7, AskerIsRow DEF ChangePassword
  <2> QED
    BY <2>1, ReadStep
<1>8. ASSUME NEW t \in Tokens, NEW i \in 1 .. MaxUsers, NEW p \in Passwords, AdminChangePassword(t, i, p)
      PROVE  UserInv'
  <2>1. PICK u \in users : ReadToSave("passwd", u, [u EXCEPT !.passwd = p])
    BY <1>8, RowIsThere DEF AdminChangePassword
  <2> QED
    BY <2>1, ReadStep
<1>9. ASSUME NEW t \in Tokens, NEW i \in 1 .. MaxUsers, NEW r \in {0, 1}, ChangeRoleOfUser(t, i, r)
      PROVE  UserInv'
  <2>1. CASE i \in Ids(users)
    <3>1. PICK u \in users : ReadToSave("role", u, [u EXCEPT !.role = r])
      BY <1>9, <2>1, RowIsThere DEF ChangeRoleOfUser
    <3> QED
      BY <3>1, ReadStep
  <2>2. CASE i \notin Ids(users)
    <3>1. PICK u : u = [id |-> uicNext.user, name |-> "", passwd |-> "", role |-> r, edited |-> FALSE]
      OBVIOUS
    <3>2. IsUser(u) /\ u.id = uicNext.user
      BY <3>1 DEF IsUser
    <3>3. users' = users \cup {u} /\ meant' = meant \cup {u} /\ crossed' = crossed /\ uicPend' = uicPend
      BY <1>9, <2>2, <3>1 DEF ChangeRoleOfUser
    <3>4. uicNext'.user = uicNext.user + 1
      BY <1>9, <2>2, <1>n DEF ChangeRoleOfUser
    <3> QED
      BY <3>2, <3>3, <3>4, InsertStep
  <2> QED
    BY <2>1, <2>2
<1>10. ASSUME NEW t \in Tokens,
              UpdateCurrentUser(t) \/ \E i \in 1 .. MaxUsers : AdminChangeUserProfile(t, i)
       PROVE  UserInv'
  BY <1>10, EditStep DEF UpdateCurrentUser, AdminChangeUserProfile
<1>11. ASSUME NEW t \in Tokens, NEW i \in 1 .. MaxUsers, AdminUserDelete(t, i) PROVE UserInv'
  BY <1>11, DeleteStep DEF AdminUserDelete
<1>12. ASSUME NEW t \in Tokens, NEW uids, CreateTeam(t, uids) PROVE UserInv'
  <2>1. UNCHANGED <<users, uicPend, meant, crossed>> /\ uicNext'.user = uicNext.user
    BY <1>12, <1>n DEF CreateTeam
  <2> QED
    BY <2>1, UsersStay DEF Saves
<1>13. ASSUME NEW t \in Tokens, NEW tid \in 1 .. MaxTeams, NEW uids,
              UpdateTeam(t, tid, uids) \/ DeleteTeam(t, tid)
       PROVE  UserInv'
  BY <1>13, UsersStay DEF UpdateTeam, DeleteTeam, Saves
<1> QED
  BY <1>1, <1>2, <1>3, <1>4, <1>5, <1>6, <1>7, <1>8, <1>9, <1>10, <1>11, <1>12, <1>13
     DEF UicNextStep

\* Before the first request the history is the table.
LEMMA UserInvInit == UicInit => UserInv
<1> SUFFICES ASSUME UicInit PROVE UserInv
  OBVIOUS
<1>1. meant = users /\ uicPend = {} /\ uicNext.user = IF users = {} THEN 1 ELSE 2
  BY DEF UicInit
<1>2. CASE users = {}
  BY <1>1, <1>2 DEF UserInv, Known, Saves, SameRows
<1>3. CASE \E p \in Passwords : users = {RootRow(p)}
  <2>1. PICK p \in Passwords : users = {RootRow(p)}
    BY <1>3
  <2>2. PICK u : u = RootRow(p)
    OBVIOUS
  <2>3. IsUser(u) /\ u.id = 1
    BY <2>2 DEF IsUser, RootRow
  <2>4. users = {u} /\ uicNext.user = 2
    BY <1>1, <2>1, <2>2
  <2> QED
    BY <1>1, <2>3, <2>4 DEF UserInv, Known, Saves, SameRows
<1> QED
  BY <1>2, <1>3 DEF UicInit

\* What a request changed about a user stays, whatever rows are read, saved, edited,
\* deleted and made in between: only a save of a row that was changed or deleted
\* after it was read (ChangePassword, AdminChangePassword, ChangeRoleOfUser) takes
\* a change back.
THEOREM UserChangesKept == UicSpec => []ChangesKept
<1>1. UicInit => NextRecord /\ UserInv
  BY SessionInvInit, UserInvInit
<1>2. NextRecord /\ UserInv /\ [UicNextStep]_uicVars => (NextRecord /\ UserInv)'
  BY UserInvStep, NextRecordStep
<1>3. NextRecord /\ UserInv => ChangesKept
  <2> SUFFICES ASSUME UserInv, NEW i \in 1 .. MaxUsers \ crossed
               PROVE  {u \in users : u.id = i} = {u \in meant : u.id = i}
    BY DEF ChangesKept
  <2>1. SameRows(i)
    BY DEF UserInv
  <2> QED
    BY <2>1 DEF SameRows
<1> QED
  BY <1>1, <1>2, <1>3, PTL DEF UicSpec

============================================================================
