----------------------------- MODULE HostGroups -----------------------------
(* Hosts, host groups, plugins, aggregators and template bindings of the api      *)
(* (modules/api/app/controller/host). The checks of a handler are made before it  *)
(* writes and outside of its transaction, so a request is two steps: the checks   *)
(* pass and the request is pending, then its statements run.                      *)
EXTENDS Db

CONSTANTS Hostnames,    \* host names a client may bind
          Owners,       \* names of users who are not administrators
          MaxGrps, MaxRows, MaxTpls, MaxGrpReqs, MaxGrpPend

ASSUME GrpAssumption ==
    /\ MaxGrps \in Nat /\ MaxRows \in Nat /\ MaxTpls \in Nat
    /\ MaxGrpReqs \in Nat /\ MaxGrpPend \in Nat

VARIABLES grp,          \* table grp
          host,         \* table host: the names with a row, and whether in maintenance
          grpHost,      \* table grp_host, as pairs <<grp_id, hostname>>
          pluginDir,    \* table plugin_dir
          cluster,      \* table cluster (aggregators)
          grpTpl,       \* table grp_tpl, the templates bound to a group
          grpPend,      \* requests whose checks have passed; late once their group
                        \* was deleted after that
          lateHosts,    \* history: rows of grp_host that a late request wrote
          lateRows,     \* history: ids of the other rows a late request wrote, or an
                        \* administrator for a group that was not there
          grpNext, grpReqs

grpVars == <<grp, host, grpHost, pluginDir, cluster, grpTpl, grpPend, lateHosts, lateRows,
             grpNext, grpReqs>>

Admin == "root"
GrpCallers == Owners \cup {Admin}

(* Rows of the tables; the columns nothing depends on are one flag, edited. *)
HostGroup == [id : 1..MaxGrps, owner : GrpCallers, edited : BOOLEAN]
Host == [name : Hostnames, maintain : BOOLEAN]
GrpHost == (1..MaxGrps) \X Hostnames
Plugin == [id : 1..MaxRows, grp : 1..MaxGrps, by : GrpCallers]
Cluster == [id : 1..MaxRows, grp : 1..MaxGrps, by : GrpCallers, edited : BOOLEAN]
GrpTpl == [grp : 1..MaxGrps, tpl : 1..MaxTpls, by : GrpCallers]

GrpTypeOK ==
    /\ grp \subseteq HostGroup
    /\ host \subseteq Host
    /\ grpHost \subseteq GrpHost
    /\ pluginDir \subseteq Plugin
    /\ cluster \subseteq Cluster
    /\ grpTpl \subseteq GrpTpl
    /\ lateHosts \subseteq GrpHost /\ lateRows \subseteq 1..MaxRows
    /\ grpReqs \in 0..MaxGrpReqs

GrpInit ==
    /\ grp = {} /\ host = {} /\ grpHost = {} /\ pluginDir = {} /\ cluster = {}
    /\ grpTpl = {} /\ grpPend = {} /\ lateHosts = {} /\ lateRows = {} /\ grpReqs = 0
    /\ grpNext = [grp |-> 1, row |-> 1]

----------------------------------------------------------------------------
HasHost(n) == \E x \in host : x.name = n

(* A group that a caller who is not an administrator may change. *)
OwnsGrp(c, g) == g \in Ids(grp) /\ Row(grp, g).owner = c

(* The checks that the handlers share: an administrator is not asked whether the  *)
(* group exists, anybody else must have created it.                               *)
MayChangeGrp(c, g) == c = Admin \/ OwnsGrp(c, g)

(* A request arrives; one whose checks have passed is pending. *)
GrpAsked == grpReqs < MaxGrpReqs /\ grpReqs' = grpReqs + 1

GrpRequest(op, c, g, names, i) ==
    /\ GrpAsked /\ Cardinality(grpPend) < MaxGrpPend
    /\ grpPend' = grpPend \cup {[op |-> op, by |-> c, grp |-> g, names |-> names, id |-> i, late |-> FALSE]}
    /\ UNCHANGED <<grp, host, grpHost, pluginDir, cluster, grpTpl, lateHosts, lateRows, grpNext>>

(* Its statements run. *)
Answer(q) == q \in grpPend /\ grpPend' = grpPend \ {q} /\ UNCHANGED grpReqs

----------------------------------------------------------------------------
(* Groups and their hosts.                                                        *)

CrateHostGroup(c) ==
    /\ GrpAsked /\ grpNext.grp <= MaxGrps
    /\ grp' = grp \cup {[id |-> grpNext.grp, owner |-> c, edited |-> FALSE]}
    /\ grpNext' = [grpNext EXCEPT !.grp = @ + 1]
    /\ UNCHANGED <<host, grpHost, pluginDir, cluster, grpTpl, grpPend, lateHosts, lateRows>>

(* PutHostGroup asks for no permission; the owner is written back as it was read. *)
PutHostGroup(g) ==
    /\ GrpAsked /\ g \in Ids(grp)
    /\ grp' = Save(grp, [Row(grp, g) EXCEPT !.edited = TRUE])
    /\ UNCHANGED <<host, grpHost, pluginDir, cluster, grpTpl, grpPend, lateHosts, lateRows, grpNext>>

(* The group must exist, for administrators too. *)
BindHostToHostGroup(c, g, names) ==
    /\ g \in Ids(grp) /\ MayChangeGrp(c, g)
    /\ GrpRequest("bind", c, g, names, 0)

(* One transaction: the hosts of the group are replaced and missing host rows     *)
(* created. Any failing statement rolls all of it back.                           *)
BindHosts(q) ==
    /\ q.op = "bind" /\ Answer(q)
    /\ \/ /\ grpHost' = {r \in grpHost : r[1] # q.grp} \cup {<<q.grp, n>> : n \in q.names}
          /\ host' = host \cup {[name |-> n, maintain |-> FALSE] : n \in {x \in q.names : ~HasHost(x)}}
          /\ lateHosts' = IF q.late THEN lateHosts \cup {<<q.grp, n>> : n \in q.names} ELSE lateHosts
       \/ UNCHANGED <<grpHost, host, lateHosts>>
    /\ UNCHANGED <<grp, pluginDir, cluster, grpTpl, lateRows, grpNext>>

UnBindAHostToHostGroup(c, g, n) ==
    /\ MayChangeGrp(c, g)
    /\ GrpRequest("unbind", c, g, {n}, 0)

UnBindHost(q) ==
    /\ q.op = "unbind" /\ Answer(q)
    /\ grpHost' = {r \in grpHost : r # <<q.grp, CHOOSE n \in q.names : TRUE>>}
    /\ UNCHANGED <<grp, host, pluginDir, cluster, grpTpl, lateHosts, lateRows, grpNext>>

DeleteHostGroup(c, g) ==
    /\ MayChangeGrp(c, g)
    /\ GrpRequest("delete", c, g, {}, 0)

(* The group of every other pending request for it is gone. *)
Overtake(q) ==
    /\ q \in grpPend
    /\ grpPend' = {IF r.grp = q.grp THEN [r EXCEPT !.late = TRUE] ELSE r : r \in grpPend \ {q}}
    /\ UNCHANGED grpReqs

(* Slip: the hosts of the group are forgotten. *)
DeleteGroupKeepsHosts(q) ==
    /\ q.op = "delete" /\ Overtake(q)
    /\ pluginDir' = {r \in pluginDir : r.grp # q.grp}
    /\ cluster' = {r \in cluster : r.grp # q.grp}
    /\ grp' = Without(grp, q.grp)
    /\ UNCHANGED <<grpHost, host, grpTpl, lateHosts, lateRows, grpNext>>

(* One transaction over four tables, or nothing. The bindings of templates to the *)
(* group stay.                                                                    *)
DeleteGroup(q) ==
    /\ q.op = "delete"
    /\ \/ /\ Overtake(q)
          /\ grpHost' = {r \in grpHost : r[1] # q.grp}
          /\ pluginDir' = {r \in pluginDir : r.grp # q.grp}
          /\ cluster' = {r \in cluster : r.grp # q.grp}
          /\ grp' = Without(grp, q.grp)
       \/ Answer(q) /\ UNCHANGED <<grpHost, pluginDir, cluster, grp>>
    /\ UNCHANGED <<host, grpTpl, lateHosts, lateRows, grpNext>>

(* A binding is looked for and made; neither the group nor the template is.       *)
BindTemplateToGroup(c, g, t) ==
    /\ ~\E b \in grpTpl : b.grp = g /\ b.tpl = t
    /\ grpTpl' = grpTpl \cup {[grp |-> g, tpl |-> t, by |-> c]}

(* An administrator, or who made the binding, removes it. *)
UnBindTemplateToGroup(c, g, t) ==
    /\ c = Admin \/ [grp |-> g, tpl |-> t, by |-> c] \in grpTpl
    /\ grpTpl' = {b \in grpTpl : ~(b.grp = g /\ b.tpl = t)}

----------------------------------------------------------------------------
(* Plugins and aggregators, rows that belong to a group.                          *)

NewRow(q) ==
    /\ grpNext.row <= MaxRows
    /\ grpNext' = [grpNext EXCEPT !.row = @ + 1]
    /\ lateRows' = IF q.late \/ (q.by = Admin /\ q.grp \notin Ids(grp))
                   THEN lateRows \cup {grpNext.row} ELSE lateRows

CreatePlugin(c, g) ==
    /\ MayChangeGrp(c, g)
    /\ GrpRequest("plugin", c, g, {}, 0)

InsertPlugin(q) ==
    /\ q.op = "plugin" /\ Answer(q) /\ NewRow(q)
    /\ pluginDir' = pluginDir \cup {[id |-> grpNext.row, grp |-> q.grp, by |-> q.by]}
    /\ UNCHANGED <<grp, host, grpHost, cluster, grpTpl, lateHosts>>

(* The creator of the plugin may delete it too, as long as the group exists. *)
DeletePlugin(c, p) ==
    /\ p \in pluginDir
    /\ c = Admin \/ (p.grp \in Ids(grp) /\ (Row(grp, p.grp).owner = c \/ p.by = c))
    /\ GrpRequest("unplug", c, p.grp, {}, p.id)

RemovePlugin(q) ==
    /\ q.op = "unplug" /\ Answer(q)
    /\ pluginDir' = Without(pluginDir, q.id)
    /\ UNCHANGED <<grp, host, grpHost, cluster, grpTpl, lateHosts, lateRows, grpNext>>

CreateAggregator(c, g) ==
    /\ MayChangeGrp(c, g)
    /\ GrpRequest("aggregate", c, g, {}, 0)

InsertAggregator(q) ==
    /\ q.op = "aggregate" /\ Answer(q) /\ NewRow(q)
    /\ cluster' = cluster \cup {[id |-> grpNext.row, grp |-> q.grp, by |-> q.by, edited |-> FALSE]}
    /\ UNCHANGED <<grp, host, grpHost, pluginDir, grpTpl, lateHosts>>

(* An update of a row that is gone changes nothing. *)
UpdateAggregator(c, a) ==
    /\ a \in cluster
    /\ c = Admin \/ (a.grp \in Ids(grp) /\ (Row(grp, a.grp).owner = c \/ a.by = c))
    /\ GrpRequest("reaggregate", c, a.grp, {}, a.id)

EditAggregator(q) ==
    /\ q.op = "reaggregate" /\ Answer(q)
    /\ cluster' = {IF a.id = q.id THEN [a EXCEPT !.edited = TRUE] ELSE a : a \in cluster}
    /\ UNCHANGED <<grp, host, grpHost, pluginDir, grpTpl, lateHosts, lateRows, grpNext>>

(* Unlike a plugin, an aggregator is deleted by the owner of the group only. *)
DeleteAggregator(c, a) ==
    /\ a \in cluster
    /\ MayChangeGrp(c, a.grp)
    /\ GrpRequest("disaggregate", c, a.grp, {}, a.id)

RemoveAggregator(q) ==
    /\ q.op = "disaggregate" /\ Answer(q)
    /\ cluster' = Without(cluster, q.id)
    /\ UNCHANGED <<grp, host, grpHost, pluginDir, grpTpl, lateHosts, lateRows, grpNext>>

(* Maintenance windows are set and cleared on rows that exist, by anybody. *)
SetMaintain(names, on) ==
    /\ GrpAsked /\ names # {}
    /\ host' = {IF x.name \in names THEN [x EXCEPT !.maintain = on] ELSE x : x \in host}
    /\ UNCHANGED <<grp, grpHost, pluginDir, cluster, grpTpl, grpPend, lateHosts, lateRows, grpNext>>

----------------------------------------------------------------------------
(* What is read of the tables.                                                    *)

(* Host.RelatedGrp: the groups of a host on its page, those with a row. *)
RelatedGrp(n) == {g \in Ids(grp) : <<g, n>> \in grpHost}

(* hbs joins grp_host with grp_tpl and plugin_dir and does not read grp: the      *)
(* bindings and the plugin rows whose group has the host.                         *)
HbsTemplates(n) == {b \in grpTpl : <<b.grp, n>> \in grpHost}
HbsPlugins(n) == {p \in pluginDir : <<p.grp, n>> \in grpHost}

----------------------------------------------------------------------------
GrpNextStep ==
    \/ \E c \in GrpCallers :
         \/ CrateHostGroup(c)
         \/ \E g \in 1..MaxGrps :
              \/ \E names \in (SUBSET Hostnames) \ {{}} : BindHostToHostGroup(c, g, names)
              \/ \E n \in Hostnames : UnBindAHostToHostGroup(c, g, n)
              \/ DeleteHostGroup(c, g) \/ CreatePlugin(c, g) \/ CreateAggregator(c, g)
              \/ \E t \in 1..MaxTpls :
                   /\ GrpAsked
                   /\ BindTemplateToGroup(c, g, t) \/ UnBindTemplateToGroup(c, g, t)
                   /\ UNCHANGED <<grp, host, grpHost, pluginDir, cluster, grpPend, lateHosts,
                                  lateRows, grpNext>>
         \/ \E p \in pluginDir : DeletePlugin(c, p)
         \/ \E a \in cluster : UpdateAggregator(c, a) \/ DeleteAggregator(c, a)
    \/ \E q \in grpPend :
         \/ BindHosts(q) \/ UnBindHost(q) \/ DeleteGroup(q)
         \/ InsertPlugin(q) \/ RemovePlugin(q) \/ InsertAggregator(q)
         \/ EditAggregator(q) \/ RemoveAggregator(q)
    \/ \E g \in 1..MaxGrps : PutHostGroup(g)
    \/ \E n \in Hostnames, on \in BOOLEAN : SetMaintain({n}, on)

GrpSpec == GrpInit /\ [][GrpNextStep]_grpVars

----------------------------------------------------------------------------
(* Deleting a group takes effect on the hosts although hbs never reads grp and    *)
(* DeleteHostGroup leaves the rows of grp_tpl: hbs gives a host the templates and *)
(* plugins of the groups on the page of the host and of no other, except through  *)
(* a host row that BindHostToHostGroup wrote after the deletion, its checks made  *)
(* before. Plugins and aggregators of a group that is gone were written in the    *)
(* same way, or by an administrator who is not asked for the group. Every host    *)
(* of a group has its own row, whichever statement of a transaction fails.        *)
DeletedGroupsSilent ==
    /\ \A n \in Hostnames :
         /\ \A b \in HbsTemplates(n) : b.grp \in RelatedGrp(n) \/ <<b.grp, n>> \in lateHosts
         /\ \A p \in HbsPlugins(n) : p.grp \in RelatedGrp(n) \/ <<p.grp, n>> \in lateHosts
    /\ \A r \in pluginDir \cup cluster : r.grp \in Ids(grp) \/ r.id \in lateRows
    /\ \A r \in grpHost : HasHost(r[2])

============================================================================
