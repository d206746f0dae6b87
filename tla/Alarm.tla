------------------------------- MODULE Alarm -------------------------------
(* alarm: events from redis become messages to the members of a team. High        *)
(* priorities go straight to the queues of the senders, low ones wait in a queue  *)
(* per channel, are combined once a minute and then written to the same queues.   *)
(* Everything between a pop and a push is only in memory. Redis lists are sets:   *)
(* messages are combined and sent by their contents, not by their order.          *)
EXTENDS Naturals, FiniteSets, Sequences, FiniteSetsExt, SequencesExt

CONSTANTS Channels,         \* subset of {"sms", "im", "mail"}
          TeamMembers,      \* the users of the team of the action
          HasContact,       \* pairs of a member and a channel with an address
          HighPriorities,   \* priorities whose queues ReadHighEvent reads
          Kinds,            \* what judge sends: [prio, team, cb]
          MaxEvents,        \* events of one behaviour
          Workers,          \* capacity of SmsWorkerChan and the like
          MaxFaults         \* failing calls and restarts of one behaviour

ASSUME AlarmAssumption ==
    /\ Channels \subseteq {"sms", "im", "mail"} /\ HasContact \subseteq TeamMembers \X Channels
    /\ \A k \in Kinds : k.prio \in Nat

VARIABLES eventQ,       \* redis: the event queues
          userQ,        \* redis: /queue/user/sms and so on
          outQ,         \* redis: /sms, /im, /mail
          reader,       \* per reader: the event in consume and what is left to write
          combining,    \* per channel: messages of one combine that are not yet written
          sending,      \* per channel: messages popped and not yet given to a worker
          working,      \* per channel: messages a worker posts
          delivered,    \* what the gateways took
          lost,         \* what a fault took
          known,        \* what the caches of actions and users hold
          pushed,       \* every event judge sent
          faults

alarmVars == <<eventQ, userQ, outQ, reader, combining, sending, working, delivered, lost, known,
               pushed, faults>>

AlarmReaders == {"high", "low"}
Priorities == {k.prio : k \in Kinds}
Idle == [ev |-> 0]

(* The action of an event: whether it names a team, and what it wants told before *)
(* and after its callback (BeforeCallbackSms is about sms and im).                *)
Flag(ch) == IF ch = "mail" THEN "mail" ELSE "sms"
Callbacks == {"before", "after"} \X {"sms", "mail"}

(* A message: who gets it and what it tells. An entry of the queues to combine    *)
(* tells one thing to one member, whose address may be empty.                     *)
Said(e, kind) == [ev |-> e.id, kind |-> kind]
Message(tos, said) == [tos |-> tos, said |-> said]
Told(ch, m) == {<<ch, u, s>> : u \in m.tos, s \in m.said}
AllTold(Q) == UNION {UNION {Told(ch, m) : m \in Q[ch]} : ch \in Channels}

AlarmInit ==
    /\ eventQ = {} /\ delivered = {} /\ lost = {} /\ known = {}
    /\ userQ = [ch \in Channels |-> {}] /\ outQ = userQ
    /\ combining = userQ /\ sending = userQ /\ working = userQ
    /\ reader = [r \in AlarmReaders |-> Idle]
    /\ pushed = {} /\ faults = 0

Fault == faults < MaxFaults /\ faults' = faults + 1

----------------------------------------------------------------------------
(* Reading events.                                                                *)

(* judge pushes an event (sendEvent). *)
PushEvent(k) ==
    /\ Cardinality(pushed) < MaxEvents
    /\ LET e == [id |-> Cardinality(pushed) + 1, prio |-> k.prio, team |-> k.team, cb |-> k.cb]
       IN pushed' = pushed \cup {e} /\ eventQ' = eventQ \cup {e}
    /\ UNCHANGED <<userQ, outQ, reader, combining, sending, working, delivered, lost, known, faults>>

(* BRPOP takes from the first queue that is not empty, the oldest event first. *)
Queues(r) == {e \in eventQ : (e.prio \in HighPriorities) = (r = "high")}
popEvent(r) ==
    /\ reader[r] = Idle /\ Queues(r) # {}
    /\ LET e == CHOOSE x \in Queues(r) : \A y \in Queues(r) :
                  x.prio < y.prio \/ (x.prio = y.prio /\ x.id <= y.id)
       IN /\ eventQ' = eventQ \ {e}
          /\ reader' = [reader EXCEPT ![r] = [ev |-> e.id, event |-> e, at |-> "action", todo |-> <<>>]]
    /\ UNCHANGED <<userQ, outQ, combining, sending, working, delivered, lost, known, pushed, faults>>

(* The members with an address (ParseTeams), and what they are to be told of an   *)
(* event: no short message below priority 2.                                      *)
Reachable(ch) == {u \in TeamMembers : <<u, ch>> \in HasContact}
Wanted(ch, e) == e.team /\ (ch = "sms" => e.prio < 3)
Around(when, ch, e) == e.team /\ <<when, Flag(ch)>> \in e.cb
Owed(e) ==
    {<<d[1], d[2], Said(e, d[3])>> :
       d \in {x \in Channels \X TeamMembers \X {"event", "before", "after"} :
               /\ <<x[2], x[1]>> \in HasContact
               /\ IF x[3] = "event" THEN Wanted(x[1], e) ELSE Around(x[3], x[1], e)}}

(* The writes of consume in the order of the code: those around the callback, sms *)
(* and im before mail, then those of the event itself; a high one is a message to *)
(* all, a low one an entry per member.                                            *)
Writes(kind, dest, to) ==
    LET one(ch) == IF ch \in to THEN <<[ch |-> ch, kind |-> kind, dest |-> dest]>> ELSE <<>>
    IN one("sms") \o one("im") \o one("mail")
HandleCallback(e) ==
    Writes("before", "out", {ch \in Channels : Around("before", ch, e)})
    \o Writes("after", "out", {ch \in Channels : Around("after", ch, e)})
consumeEvents(r, e) ==
    Writes("event", IF r = "high" THEN "out" ELSE "user", {ch \in Channels : Wanted(ch, e)})

(* GetAction and GetUsers ask the api and fall back on what they got before; with *)
(* nothing to fall back on consume gives up.                                      *)
Lookup(what) == \/ known' = known \cup {what} /\ UNCHANGED faults
                \/ what \in known /\ Fault /\ UNCHANGED known

consume(r) ==
    /\ reader[r] # Idle /\ reader[r].at = "action"
    /\ Lookup("action")
    /\ LET todo == HandleCallback(reader[r].event) \o consumeEvents(r, reader[r].event)
       IN reader' = [reader EXCEPT ![r] = IF todo = <<>> THEN Idle
                                          ELSE [reader[r] EXCEPT !.at = "write", !.todo = todo]]
    /\ UNCHANGED <<eventQ, userQ, outQ, combining, sending, working, delivered, lost, pushed>>

consumeWithoutAction(r) ==
    /\ reader[r] # Idle /\ reader[r].at = "action"
    /\ "action" \notin known /\ Fault
    /\ lost' = lost \cup Owed(reader[r].event)
    /\ reader' = [reader EXCEPT ![r] = Idle]
    /\ UNCHANGED <<eventQ, userQ, outQ, combining, sending, working, delivered, known, pushed>>

(* What the reader still has to write. *)
TodoTold(e, w) ==
    {<<w.ch, u, Said(e, w.kind)>> : u \in Reachable(w.ch)}
Holds(r) ==
    IF reader[r] = Idle THEN {}
    ELSE IF reader[r].at = "action" THEN Owed(reader[r].event)
    ELSE UNION {TodoTold(reader[r].event, reader[r].todo[i]) : i \in 1..Len(reader[r].todo)}

(* An entry for every member; without an address it is for nobody. *)
Entries(ch, s) == {Message({u} \cap Reachable(ch), {s}) : u \in TeamMembers}

(* WriteSms, WriteIM, WriteMail: nothing is written for nobody. *)
Written(ch, s) == IF Reachable(ch) = {} THEN {} ELSE {Message(Reachable(ch), {s})}

ReaderReturns(r) ==
    reader' = [reader EXCEPT ![r] = IF Len(reader[r].todo) = 1 THEN Idle
                                    ELSE [reader[r] EXCEPT !.todo = Tail(reader[r].todo)]]

WriteNext(r) ==
    /\ reader[r] # Idle /\ reader[r].at = "write"
    /\ LET w == Head(reader[r].todo)
           s == Said(reader[r].event, w.kind)
       IN /\ Lookup("users")
          /\ IF w.dest = "out"
             THEN outQ' = [outQ EXCEPT ![w.ch] = @ \cup Written(w.ch, s)] /\ UNCHANGED userQ
             ELSE userQ' = [userQ EXCEPT ![w.ch] = @ \cup Entries(w.ch, s)] /\ UNCHANGED outQ
    /\ ReaderReturns(r)
    /\ UNCHANGED <<eventQ, combining, sending, working, delivered, lost, pushed>>

(* Redis or the api fails: the error is logged and consume goes on. *)
WriteFails(r) ==
    /\ reader[r] # Idle /\ reader[r].at = "write"
    /\ Fault
    /\ lost' = lost \cup TodoTold(reader[r].event, Head(reader[r].todo))
    /\ ReaderReturns(r)
    /\ UNCHANGED <<eventQ, userQ, outQ, combining, sending, working, delivered, known, pushed>>

----------------------------------------------------------------------------
(* Combining, once a minute. A loop of RPOPs takes what is there, or less when    *)
(* redis fails in between; it writes one message per group.                       *)

(* Slip: the receiver is not part of the key. *)
SameGroupForAll(e, f) == {s.kind : s \in e.said} = {s.kind : s \in f.said}
(* Entries with the same receiver, priority, status and metric belong together. *)
SameGroup(e, f) == e.tos = f.tos /\ {s.kind : s \in e.said} = {s.kind : s \in f.said}

popAllDto(ch) ==
    /\ combining[ch] = {}
    /\ \E S \in (SUBSET userQ[ch]) \ {{}} :
         /\ S = userQ[ch] \/ faults < MaxFaults
         /\ faults' = IF S = userQ[ch] THEN faults ELSE faults + 1
         /\ userQ' = [userQ EXCEPT ![ch] = @ \ S]
         /\ combining' = [combining EXCEPT ![ch] = S]
    /\ UNCHANGED <<eventQ, outQ, reader, sending, working, delivered, lost, known, pushed>>

(* The receiver of the first entry gets all of them. *)
combine(ch) ==
    /\ \E e \in combining[ch] :
         LET group == {f \in combining[ch] : SameGroup(e, f)} IN
         /\ outQ' = [outQ EXCEPT ![ch] = @ \cup {Message(e.tos, UNION {f.said : f \in group})}]
         /\ combining' = [combining EXCEPT ![ch] = @ \ group]
    /\ UNCHANGED <<eventQ, userQ, reader, sending, working, delivered, lost, known, pushed, faults>>

(* Several short messages share a link to their contents. When api cannot make it *)
(* the message only says how many there are: what they tell is lost.              *)
combineUnlinked(ch) ==
    /\ ch # "mail" /\ Fault
    /\ \E e \in combining[ch] :
         LET group == {f \in combining[ch] : SameGroup(e, f)} IN
         /\ Cardinality(group) > 1
         /\ outQ' = [outQ EXCEPT ![ch] = @ \cup {Message(e.tos, {})}]
         /\ lost' = lost \cup UNION {Told(ch, f) : f \in group}
         /\ combining' = [combining EXCEPT ![ch] = @ \ group]
    /\ UNCHANGED <<eventQ, userQ, reader, sending, working, delivered, known, pushed>>

combineFails(ch) ==
    /\ Fault
    /\ \E e \in combining[ch] :
         LET group == {f \in combining[ch] : SameGroup(e, f)} IN
         /\ lost' = lost \cup UNION {Told(ch, f) : f \in group}
         /\ combining' = [combining EXCEPT ![ch] = @ \ group]
    /\ UNCHANGED <<eventQ, userQ, outQ, reader, sending, working, delivered, known, pushed>>

----------------------------------------------------------------------------
(* Sending. A message is posted once, by one of a bounded number of workers.      *)

Consume(ch) ==
    /\ sending[ch] = {}
    /\ \E S \in (SUBSET outQ[ch]) \ {{}} :
         /\ S = outQ[ch] \/ faults < MaxFaults
         /\ faults' = IF S = outQ[ch] THEN faults ELSE faults + 1
         /\ outQ' = [outQ EXCEPT ![ch] = @ \ S]
         /\ sending' = [sending EXCEPT ![ch] = S]
    /\ UNCHANGED <<eventQ, userQ, reader, combining, working, delivered, lost, known, pushed>>

SendList(ch) ==
    /\ Cardinality(working[ch]) < Workers
    /\ \E m \in sending[ch] :
         /\ sending' = [sending EXCEPT ![ch] = @ \ {m}]
         /\ working' = [working EXCEPT ![ch] = @ \cup {m}]
    /\ UNCHANGED <<eventQ, userQ, outQ, reader, combining, delivered, lost, known, pushed, faults>>

Send(ch) ==
    /\ \E m \in working[ch] :
         /\ working' = [working EXCEPT ![ch] = @ \ {m}]
         /\ \/ delivered' = delivered \cup Told(ch, m) /\ UNCHANGED <<lost, faults>>
            \/ Fault /\ lost' = lost \cup Told(ch, m) /\ UNCHANGED delivered
    /\ UNCHANGED <<eventQ, userQ, outQ, reader, combining, sending, known, pushed>>

(* A restart takes what is only in memory. *)
InMemory ==
    (UNION {Holds(r) : r \in AlarmReaders}) \cup AllTold(combining) \cup AllTold(sending) \cup AllTold(working)

Restart ==
    /\ Fault /\ InMemory # {}
    /\ lost' = lost \cup InMemory
    /\ reader' = [r \in AlarmReaders |-> Idle]
    /\ combining' = [ch \in Channels |-> {}]
    /\ sending' = combining' /\ working' = combining'
    /\ known' = {}
    /\ UNCHANGED <<eventQ, userQ, outQ, delivered, pushed>>

----------------------------------------------------------------------------
AlarmNextStep ==
    \/ \E k \in Kinds : PushEvent(k)
    \/ \E r \in AlarmReaders :
         popEvent(r) \/ consume(r) \/ consumeWithoutAction(r) \/ WriteNext(r) \/ WriteFails(r)
    \/ \E ch \in Channels :
         popAllDto(ch) \/ combine(ch) \/ combineUnlinked(ch) \/ combineFails(ch)
         \/ Consume(ch) \/ SendList(ch) \/ Send(ch)
    \/ Restart

AlarmSpec == AlarmInit /\ [][AlarmNextStep]_alarmVars

AlarmTypeOK ==
    /\ \A ch \in Channels : Cardinality(working[ch]) <= Workers
    /\ known \subseteq {"action", "users"}
    /\ faults \in 0..MaxFaults /\ Cardinality(pushed) <= MaxEvents

(* Where something an event has to tell can be. *)
Places ==
    <<UNION {Owed(e) : e \in eventQ}, Holds("high"), Holds("low"), AllTold(userQ), AllTold(combining),
      AllTold(outQ), AllTold(sending), AllTold(working), delivered, lost>>

(* Every member is told everything once: at any moment each thing an event has to *)
(* tell a member on a channel is in exactly one place: waiting in redis, in the   *)
(* memory of one goroutine, delivered, or taken by a fault; and nobody is told    *)
(* what is not for them.                                                          *)
ToldOnce ==
    LET places == Places IN
    /\ UNION {places[i] : i \in DOMAIN places} = UNION {Owed(e) : e \in pushed}
    /\ \A i, j \in DOMAIN places : i # j => places[i] \cap places[j] = {}

============================================================================
