------------------------------- MODULE MCApi -------------------------------
(* Model-checking the parts of the api, and two services that live on its tables: *)
(* the aggregator follows the cluster table, alarm asks for actions and teams.    *)
(* They share no variable, so the behaviours of all of them together are the      *)
(* interleavings of their own; the run explores each part by itself: focus says   *)
(* which, and the others stay at their start.                                     *)
EXTENDS Uic, HostGroups, Templates, Dashboard, AlarmCases, Aggregator, Alarm

VARIABLE focus

apiVars == <<focus, uicVars, grpVars, tplVars, boardVars, caseVars, aggregatorVars, alarmVars>>

(* cfg.example.json, and other settings: no default token; sign up only by an     *)
(* administrator, with root installed; nobody checked, everybody an administrator.*)
ShippedConf == [access_control |-> TRUE, signup_disable |-> FALSE, skip_auth |-> FALSE,
                default_token |-> TRUE]
OwnSessions == [ShippedConf EXCEPT !.default_token = FALSE]
Confs == {ShippedConf, OwnSessions, [OwnSessions EXCEPT !.signup_disable = TRUE],
          [OwnSessions EXCEPT !.skip_auth = TRUE, !.access_control = FALSE]}

(* A mean, a share of the hosts, and a row whose step is no step. *)
Clusters == {[step |-> 1, num |-> Expr(<<"m">>, <<>>, {}), den |-> CountOfHosts],
             [step |-> 1, num |-> Expr(<<"m", "n">>, <<"-">>, {[op |-> ">=", val |-> 2]}), den |-> CountOfHosts],
             [step |-> 0, num |-> Expr(<<"m">>, <<>>, {}), den |-> Expr(<<"n">>, <<>>, {})]}

(* One of the two users has no phone; one event has a callback, the other is low.  *)
Contacts == {<<"amy", "sms">>, <<"amy", "im">>, <<"bob", "im">>}
EventKinds == {[prio |-> 2, team |-> TRUE, cb |-> {<<"before", "sms">>}],
               [prio |-> 3, team |-> TRUE, cb |-> {}]}

(* Strings: a, b, c, a:b, b:c and a|b. The lists a, b and b, a and the string a|b *)
(* are one column; a with b:c and a:b with c are one key.                         *)
A == <<97>>
B == <<98>>
C == <<99>>
EsLists == {<<A>>, <<A \o <<Colon>> \o B>>, <<A, B>>, <<B, A>>, <<A \o <<Bar>> \o B>>}
CsLists == {<<C>>, <<B \o <<Colon>> \o C>>}

(* A page shows the list that was asked for, sorted, when no string has a bar.    *)
ASSUME PagesShowLists ==
    \A n \in 1..3 : \A l \in [1..n -> {<<>>, A, B, A \o B, A \o <<Colon>> \o B}] :
        /\ Split(Column(l)) = Sorted(l)
        /\ \A i, j \in 1..n : i < j => Sorted(l)[i] = Sorted(l)[j] \/ Less(Sorted(l)[i], Sorted(l)[j])

ApiInit ==
    /\ focus \in {"uic", "groups", "templates", "dashboard", "cases", "aggregator", "alarm"}
    /\ UicInit /\ GrpInit /\ TplInit /\ BoardInit /\ CaseInit /\ AggregatorInit /\ AlarmInit
    /\ uicConf \in Confs /\ (focus = "uic" \/ uicConf = ShippedConf)
    /\ users \in {{}, {RootRow("p")}} /\ (focus = "uic" \/ users = {})

ApiNext ==
    /\ UNCHANGED focus
    /\ \/ focus = "uic" /\ UicNextStep
          /\ UNCHANGED <<grpVars, tplVars, boardVars, caseVars, aggregatorVars, alarmVars>>
       \/ focus = "groups" /\ GrpNextStep
          \* One template, which does not exist here, is enough to be bound.
          /\ (\A x \in grpTpl' : x.tpl = 1)
          /\ absent' = absent \cup {b.tpl : b \in grpTpl'}
          /\ UNCHANGED <<tpl, act, strategy, expression, mockcfg, named, tplNext, tplReqs>>
          /\ UNCHANGED <<uicVars, boardVars, caseVars, aggregatorVars, alarmVars>>
       \/ focus = "templates" /\ TplNextStep
          /\ UNCHANGED <<uicVars, boardVars, caseVars, aggregatorVars, alarmVars>>
       \/ focus = "dashboard" /\ BoardNextStep
          /\ UNCHANGED <<uicVars, grpVars, tplVars, caseVars, aggregatorVars, alarmVars>>
       \/ focus = "cases" /\ CaseNextStep
          /\ UNCHANGED <<uicVars, grpVars, tplVars, boardVars, aggregatorVars, alarmVars>>
       \/ focus = "aggregator" /\ AggregatorStep
          /\ UNCHANGED <<uicVars, grpVars, tplVars, boardVars, caseVars, alarmVars>>
       \/ focus = "alarm" /\ AlarmNextStep
          /\ UNCHANGED <<uicVars, grpVars, tplVars, boardVars, caseVars, aggregatorVars>>

ApiSpec == ApiInit /\ [][ApiNext]_apiVars

============================================================================
