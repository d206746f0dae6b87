----------------------------- MODULE MCServices -----------------------------
(* Model-checking the services around the path of the data: the configuration on  *)
(* its way from the portal database through hbs to judges and agents, metrics on  *)
(* their way through a gateway, and a series on its way to its new graph node.    *)
(* The parts share no variable (an answer of hbs is any answer to AgentPlugins),  *)
(* so each is explored by itself: focus says which.                               *)
EXTENDS Hbs, AgentPlugins, Migration, Gateway

VARIABLE focus

serviceVars == <<focus, hbsVars, agentPluginVars, migrationVars, gatewayVars>>

(* A rule of the parent that the child replaces by day, one for the agent. *)
Rules == {[id |-> 1, tpl |-> 1, uuid |-> "cpu", hours |-> "always", builtin |-> FALSE],
          [id |-> 2, tpl |-> 2, uuid |-> "cpu", hours |-> "day", builtin |-> FALSE],
          [id |-> 3, tpl |-> 1, uuid |-> "port", hours |-> "day", builtin |-> TRUE]}
PluginDirs == {{"p"}, {"q"}}

(* The workers of the migration are alike. *)
MigrateSymmetry == Permutations(MigrateWorkers)

TwoTransfers == <<"s", "t">>

(* Changes of field f are combined with those of the fields that matter with it:  *)
(* what is answered about expressions and plugins depends on nothing else.        *)
OnlyWith(f, others) ==
    db'[f] # DbInit[f] => \A o \in DOMAIN db \ ({f} \cup others) : db'[o] = DbInit[o]

ServicesInit ==
    /\ focus \in {"hbs", "plugins", "watch", "migrate", "gateway"}
    /\ HbsInit /\ AgentPluginInit /\ MigrationInit /\ GatewayInit
    /\ focus = "plugins" \/ disk = [p \in Paths |-> 0]
    /\ focus = "watch" \/ wanted = {}
    /\ focus = "migrate" \/ oldNode.made

ServicesNext ==
    /\ UNCHANGED focus
    /\ \/ focus = "hbs" /\ HbsNextStep
          /\ OnlyWith("expressions", {}) /\ OnlyWith("plugins", {"grps", "known"})
          /\ UNCHANGED <<agentPluginVars, migrationVars, gatewayVars>>
       \/ focus = "plugins" /\ AgentPluginStep
          /\ UNCHANGED <<hbsVars, migrationVars, gatewayVars>>
       \/ focus = "watch" /\ AgentWatchStep
          /\ UNCHANGED <<hbsVars, migrationVars, gatewayVars>>
       \/ focus = "migrate" /\ MigrationStep
          /\ UNCHANGED <<hbsVars, agentPluginVars, gatewayVars>>
       \/ focus = "gateway" /\ GatewayStep
          /\ UNCHANGED <<hbsVars, agentPluginVars, migrationVars>>

ServicesSpec == ServicesInit /\ [][ServicesNext]_serviceVars

============================================================================
