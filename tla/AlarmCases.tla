----------------------------- MODULE AlarmCases -----------------------------
(* The alarm cases in MySQL: alarm records every event it reads (InsertEvent, in  *)
(* three statements without a transaction, from two readers), users decide about  *)
(* the case in the api (AddNotesToAlarm, one transaction), and the two share the  *)
(* row of the case.                                                               *)
EXTENDS Db, FiniteSetsExt

CONSTANTS CaseIds,      \* ids of event cases: one per strategy and counter
          CaseUsers,    \* users who write notes
          MaxClock,     \* events and notes in one behaviour
          PageLimit     \* rows of one page

ASSUME CaseAssumption == MaxClock \in Nat /\ PageLimit \in Nat \ {0} /\ "any" \notin CaseIds

VARIABLES cases,        \* table event_cases
          events,       \* table events
          notes,        \* table event_note
          inserting,    \* per reader: the event in InsertEvent, or None
          clock

caseVars == <<cases, events, notes, inserting, clock>>

Readers == {"high", "low"}      \* ReadHighEvent and ReadLowEvent
Decisions == {"in progress", "unresolved", "resolved", "ignored"}
Statuses == Decisions \cup {"comment"}
None == [at |-> "none"]

EventCases == [id : CaseIds, status : {"PROBLEM", "OK"}, current_step : 1..2, timestamp : 1..MaxClock,
               process_note : 0..MaxClock, process_status : Decisions]
Events == [id : 1..MaxClock, event_caseId : CaseIds, status : {0, 1}, timestamp : 1..MaxClock]
EventNote == [id : 1..MaxClock, event_caseId : CaseIds, status : Statuses, user : CaseUsers]

CaseTypeOK ==
    /\ cases \subseteq EventCases
    /\ events \subseteq Events
    /\ notes \subseteq EventNote
    /\ clock \in 0..MaxClock
    /\ \A r \in Readers : inserting[r].at \in {"none", "found", "new", "written"}

CaseInit ==
    /\ cases = {} /\ events = {} /\ notes = {} /\ clock = 0
    /\ inserting = [r \in Readers |-> None]

Tick == clock < MaxClock /\ clock' = clock + 1

----------------------------------------------------------------------------
(* InsertEvent of alarm.                                                          *)

(* The case of the event is read. *)
ReadCase(r, c, status, step) ==
    /\ inserting[r] = None /\ Tick
    /\ inserting' = [inserting EXCEPT ![r] =
         [at |-> IF c \in Ids(cases) THEN "found" ELSE "new", case |-> c, status |-> status,
          step |-> step, time |-> clock',
          reopen |-> c \in Ids(cases) /\ Row(cases, c).process_status \in {"resolved", "ignored"}]]
    /\ UNCHANGED <<cases, events, notes>>

(* A case that was not there is inserted; if the other reader was faster the      *)
(* statement fails and the error is only logged.                                  *)
InsertCase(r) ==
    LET e == inserting[r] IN
    /\ e.at = "new"
    /\ cases' = IF e.case \in Ids(cases) THEN cases
                ELSE cases \cup {[id |-> e.case, status |-> e.status, current_step |-> e.step,
                                  timestamp |-> e.time, process_note |-> 0,
                                  process_status |-> "unresolved"]}
    /\ inserting' = [inserting EXCEPT ![r].at = "written"]
    /\ UNCHANGED <<events, notes, clock>>

(* Slip: reopening forgets the note. *)
ReopenKeepsNote(c) == [c EXCEPT !.process_status = "unresolved"]
(* A case that was closed when it was read is opened again. *)
Reopen(c) == [c EXCEPT !.process_status = "unresolved", !.process_note = 0]

(* Otherwise it is updated: its start is the time of a first alarm, or the        *)
(* current time that MySQL puts into the column on every update.                  *)
UpdateCase(r) ==
    LET e == inserting[r]
        c == Row(cases, e.case)
        d == [(IF e.reopen THEN Reopen(c) ELSE c) EXCEPT
                !.status = e.status, !.current_step = e.step,
                !.timestamp = IF e.step = 1 THEN e.time ELSE clock]
    IN
    /\ e.at = "found"
    /\ cases' = Save(cases, d)
    /\ inserting' = [inserting EXCEPT ![r].at = "written"]
    /\ UNCHANGED <<events, notes, clock>>

insertEvent(r) ==
    LET e == inserting[r] IN
    /\ e.at = "written"
    /\ events' = events \cup {[id |-> e.time, event_caseId |-> e.case, timestamp |-> e.time,
                               status |-> IF e.status = "OK" THEN 1 ELSE 0]}
    /\ inserting' = [inserting EXCEPT ![r] = None]
    /\ UNCHANGED <<cases, notes, clock>>

(* Events, not cases, are deleted when they are old. *)
DeleteEventOlder(before, limit) ==
    LET old == {e \in events : e.timestamp < before} IN
    /\ \E S \in SUBSET old :
         /\ Cardinality(S) = Min({limit, Cardinality(old)})
         /\ events' = events \ S
    /\ UNCHANGED <<cases, notes, inserting, clock>>

----------------------------------------------------------------------------
(* The api.                                                                       *)

CheckingFormating(status) == status \in Statuses

(* A note needs its case (foreign key); one that is not a comment decides.        *)
AddNotesToAlarm(u, c, status) ==
    /\ Tick
    /\ CheckingFormating(status)
    /\ c \in Ids(cases)
    /\ notes' = notes \cup {[id |-> clock', event_caseId |-> c, status |-> status, user |-> u]}
    /\ cases' = IF status = "comment" THEN cases
                ELSE Save(cases, [Row(cases, c) EXCEPT !.process_note = clock',
                                                       !.process_status = status,
                                                       !.timestamp = clock'])
    /\ UNCHANGED <<events, inserting>>

(* The notes of a user go with the user (ON DELETE CASCADE). *)
UserDeleted(u) ==
    /\ notes' = {n \in notes : n.user # u}
    /\ UNCHANGED <<cases, events, inserting, clock>>

(* Lists need a time or an id, and give the newest rows of a page.                *)
checkInputsContain(start, id) == start # 0 \/ id # "any"
Limited(rows, limit) == {r \in rows : Cardinality({s \in rows : s.timestamp > r.timestamp}) < limit}
Since(rows, start) == {r \in rows : start = 0 \/ r.timestamp >= start}

AlarmLists(start, id, ps) ==
    IF ~checkInputsContain(start, id) THEN {}
    ELSE Limited({c \in Since(cases, start) :
                    (id = "any" \/ c.id = id) /\ (ps = {} \/ c.process_status \in ps)}, PageLimit)

EventsGet(start, id) == Limited({e \in Since(events, start) : id = "any" \/ e.event_caseId = id}, PageLimit)

GetNotesOfAlarm(id) == {n \in notes : n.event_caseId = id}

----------------------------------------------------------------------------
CaseNextStep ==
    \/ \E r \in Readers :
         \/ \E c \in CaseIds, status \in {"PROBLEM", "OK"}, step \in 1..2 : ReadCase(r, c, status, step)
         \/ InsertCase(r) \/ UpdateCase(r) \/ insertEvent(r)
    \/ \E u \in CaseUsers :
         UserDeleted(u) \/ \E c \in CaseIds, status \in Statuses : AddNotesToAlarm(u, c, status)
    \/ \E before \in 1..MaxClock : DeleteEventOlder(before, 1)

CaseSpec == CaseInit /\ [][CaseNextStep]_caseVars

(* A case shows the newest decision about it or none at all: its process_note is  *)
(* the newest deciding note, or 0 after it was reopened, and its process_status   *)
(* says what that note says, whatever alarm writes in between. The page of the    *)
(* case finds it under that status, and every event kept belongs to a case.       *)
CaseShowsDecision ==
    /\ \A c \in cases :
         /\ c.process_note = 0 => c.process_status = "unresolved"
         /\ c.process_note # 0 =>
              \A n \in GetNotesOfAlarm(c.id) :
                n.status # "comment" =>
                  /\ n.id <= c.process_note
                  /\ n.id = c.process_note => n.status = c.process_status
         /\ c \in AlarmLists(0, c.id, {c.process_status})
    /\ \A e \in events : e.event_caseId \in Ids(cases) /\ EventsGet(0, e.event_caseId) # {}

============================================================================
