---------------------------- MODULE AgentPlugins ----------------------------
(* What an agent does on the word of hbs: it runs the plugins it is told to run,  *)
(* each under a scheduler of its own, watches the urls, ports, paths and processes*)
(* it is told to watch, and trusts the addresses of a white list.                 *)
EXTENDS Integers, FiniteSets

CONSTANTS Paths,            \* plugin files
          Dirs,             \* plugin directories: sets of Paths
          Watch,            \* what may be watched: rows of table strategy
          MaxMTime,         \* versions of a file
          MaxAnswers,       \* answers of hbs, calls without an answer included
          MaxWatchEdits     \* changes of what hbs wants watched

ASSUME AgentAssumption ==
    /\ Dirs \subseteq SUBSET Paths
    /\ MaxMTime \in Nat \ {0} /\ MaxAnswers \in Nat /\ MaxWatchEdits \in Nat

VARIABLES disk,         \* the plugin repository: modification time of each file, 0 if absent
          plugins,      \* Plugins: path and modification time
          schedulers,   \* the goroutines of PluginScheduler.Schedule
          applied,      \* history: what was listed for the answer applied last
          timestamp,    \* of that answer
          answers,      \* number of calls so far
          trusted,      \* the white list of addresses
          wanted,       \* what hbs wants watched
          watched,      \* reportUrls, reportPorts, reportProcs and duPaths together
          checksum,     \* of the last answer about them, "nil" at first
          watchStamp,   \* its timestamp
          watchEdits

filesVars == <<disk, plugins, schedulers, applied, timestamp, trusted>>
watchVars == <<wanted, watched, checksum, watchStamp, watchEdits>>
agentPluginVars == <<filesVars, watchVars, answers>>

Plugin == [path : Paths, mtime : 1..MaxMTime]

(* DigestBuiltinMetrics tells two sets apart; there is none for the empty set, as *)
(* in an answer that never came.                                                  *)
Digest(w) == <<w>>
NoDigest == <<{}>>
NilDigest == <<>>

AgentTypeOK ==
    /\ disk \in [Paths -> 0..MaxMTime]
    /\ plugins \subseteq Plugin /\ applied \subseteq Plugin
    /\ \A s \in schedulers :
         s.plugin \in Plugin /\ s.quit \in BOOLEAN /\ s.running \in BOOLEAN /\ s.late \in 0..1
    /\ watched \subseteq Watch /\ wanted \subseteq Watch

AgentPluginInit ==
    /\ disk \in [Paths -> 0..1]
    /\ plugins = {} /\ schedulers = {} /\ applied = {} /\ trusted = "none"
    /\ timestamp = -1 /\ answers = 0
    /\ wanted \in SUBSET Watch
    /\ watched = {} /\ checksum = NilDigest /\ watchStamp = -1 /\ watchEdits = 0

AnswerCounted == answers < MaxAnswers /\ answers' = answers + 1

----------------------------------------------------------------------------
(* Plugins.                                                                       *)

(* git pull, or a reset, changes a file, adds it or removes it. *)
UpdateFile(p) ==
    /\ disk[p] < MaxMTime
    /\ \/ disk' = [disk EXCEPT ![p] = MaxMTime]
       \/ disk[p] > 0 /\ disk' = [disk EXCEPT ![p] = 0]
    /\ UNCHANGED <<plugins, schedulers, applied, timestamp, trusted, watchVars, answers>>

ListPlugins(d) == {[path |-> p, mtime |-> disk[p]] : p \in {q \in d : disk[q] > 0}}

(* Slip: only files that are gone are dropped, not those that changed. *)
DelNoUsePluginsGone(desired) == {p \in plugins : \E q \in desired : q.path = p.path}
DelNoUsePlugins(desired) == plugins \cap desired
AddNewPlugins(desired) == {q \in desired : ~\E p \in DelNoUsePlugins(desired) : p = q}
ClearAllPlugins == DelNoUsePlugins({})

NewPluginScheduler(p) == [plugin |-> p, quit |-> FALSE, running |-> FALSE, late |-> 0]
Stop(s) == [s EXCEPT !.quit = TRUE]

(* An answer of hbs names directories; one that is not newer is ignored. A call   *)
(* that timed out returns no error and leaves the empty answer of time 0.         *)
syncMinePlugins(dirs, ts) ==
    /\ AnswerCounted
    /\ IF ts <= timestamp THEN UNCHANGED <<timestamp, plugins, schedulers, applied>>
       ELSE LET desired == UNION {ListPlugins(d) : d \in dirs}
                kept == IF dirs = {} THEN ClearAllPlugins ELSE DelNoUsePlugins(desired)
                new == AddNewPlugins(desired)
            IN /\ timestamp' = ts /\ applied' = desired
               /\ plugins' = {p \in kept : ~\E q \in new : q.path = p.path} \cup new
               /\ schedulers' = {IF s.plugin \in kept THEN s ELSE Stop(s) : s \in schedulers}
                                 \cup {NewPluginScheduler(p) : p \in new}
    /\ UNCHANGED <<disk, trusted, watchVars>>

(* The white list is what the call left in the string: nothing after a timeout. *)
syncTrustableIps ==
    /\ AnswerCounted
    /\ trusted' \in {"list", "none"}
    /\ UNCHANGED <<disk, plugins, schedulers, applied, timestamp, watchVars>>

(* The ticker wins the select: the plugin runs, and is killed before the next     *)
(* tick. With the channel closed as well the select may still pick the ticker,    *)
(* once: there is no second tick before the loop sees the channel.                *)
PluginRun(s) ==
    /\ ~s.running /\ s.late = 0
    /\ schedulers' = (schedulers \ {s}) \cup
         {[s EXCEPT !.running = TRUE, !.late = IF s.quit THEN 1 ELSE 0]}
    /\ UNCHANGED <<disk, plugins, applied, timestamp, trusted, watchVars, answers>>

PluginDone(s) ==
    /\ s.running
    /\ schedulers' = (schedulers \ {s}) \cup {[s EXCEPT !.running = FALSE]}
    /\ UNCHANGED <<disk, plugins, applied, timestamp, trusted, watchVars, answers>>

Schedule(s) ==
    /\ s.quit /\ ~s.running
    /\ schedulers' = schedulers \ {s}
    /\ UNCHANGED <<disk, plugins, applied, timestamp, trusted, watchVars, answers>>

----------------------------------------------------------------------------
(* What is watched.                                                               *)

WantedChanges ==
    /\ watchEdits < MaxWatchEdits /\ watchEdits' = watchEdits + 1
    /\ wanted' \in (SUBSET Watch) \ {wanted}
    /\ UNCHANGED <<filesVars, watched, checksum, watchStamp, answers>>

(* hbs leaves the rows out when the agent already has their checksum. *)
BuiltinMetrics(sum) ==
    [metrics |-> IF sum = Digest(wanted) THEN {} ELSE wanted, checksum |-> Digest(wanted)]
NoAnswer == [metrics |-> {}, checksum |-> NoDigest]

(* Slip: an answer with the checksum the agent has is applied as well. *)
UnchangedAlways(resp, ts) == ts <= watchStamp
Unchanged(resp, ts) == ts <= watchStamp \/ resp.checksum = checksum

syncBuiltinMetrics(resp, ts) ==
    /\ AnswerCounted
    /\ IF Unchanged(resp, ts) THEN UNCHANGED <<watched, checksum, watchStamp>>
       ELSE watched' = resp.metrics /\ checksum' = resp.checksum /\ watchStamp' = ts
    /\ UNCHANGED <<filesVars, wanted, watchEdits>>

----------------------------------------------------------------------------
AgentPluginStep ==
    \/ \E p \in Paths : UpdateFile(p)
    \/ \E dirs \in SUBSET Dirs, ts \in 1..MaxAnswers : syncMinePlugins(dirs, ts)
    \/ syncMinePlugins({}, 0)
    \/ syncTrustableIps
    \/ \E s \in schedulers : PluginRun(s) \/ PluginDone(s) \/ Schedule(s)

AgentWatchStep ==
    \/ WantedChanges
    \/ \E ts \in 1..MaxAnswers : syncBuiltinMetrics(BuiltinMetrics(checksum), ts)
    \/ syncBuiltinMetrics(NoAnswer, 0)

AgentSpec == AgentPluginInit /\ [][AgentPluginStep \/ AgentWatchStep]_agentPluginVars

(* Whatever the calls return and however the files change in between: the plugins *)
(* are those the last answer asked for, in the version on disk then, each under   *)
(* exactly one scheduler that was not told to quit.                               *)
PluginsAsTold ==
    /\ plugins = applied
    /\ {s.plugin : s \in {x \in schedulers : ~x.quit}} = plugins
    /\ \A s, t \in schedulers : (~s.quit /\ ~t.quit /\ s.plugin.path = t.plugin.path) => s = t

(* Answers without rows, answers that are lost and rows that change in between    *)
(* never leave an agent with lists that are not those of the checksum it sends:   *)
(* hbs would take it for up to date and never send the rows again.                *)
ChecksumHonest == checksum = NilDigest \/ checksum = Digest(watched)

============================================================================
