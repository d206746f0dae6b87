----------------------------- MODULE Templates -----------------------------
(* Templates, strategies, actions, expressions and nodata settings of the api     *)
(* (controllers template, strategy, expression and mockcfg). Bindings to groups   *)
(* are HostGroups' table, from which deleting a template removes rows. A          *)
(* transaction is one step that happens or does not.                              *)
EXTENDS HostGroups

CONSTANTS MaxActs, MaxRules, MaxTplReqs

ASSUME TplAssumption ==
    MaxActs \in Nat /\ MaxRules \in Nat /\ MaxTplReqs \in Nat

VARIABLES tpl,          \* table tpl
          act,          \* table action
          strategy,     \* table strategy
          expression,   \* table expression
          mockcfg,      \* table mockcfg
          named,        \* action ids a client passed to CreateTemplate
          absent,       \* template ids a client passed although no such row existed
          tplNext, tplReqs

tplVars == <<tpl, act, strategy, expression, mockcfg, named, absent, tplNext, tplReqs>>

(* No template handler touches the other tables of the groups. *)
grpRest == <<grp, host, grpHost, pluginDir, cluster, grpPend, lateHosts, lateRows, grpNext, grpReqs>>

(* What a client sends as right_value: a number without sign and fraction, one    *)
(* with, or no number.                                                            *)
Rights == {"digits", "signed", "text"}

(* Rows of the tables. *)
Template == [id : 1..MaxTpls, parent : 0..MaxTpls, action : 0..MaxActs, owner : GrpCallers]
Action == [id : 1..MaxActs, edited : BOOLEAN]
Strategy == [id : 1..MaxRules, tpl : 1..MaxTpls, right : {"digits", "signed"}]
Expression == [id : 1..MaxRules, action : 1..MaxActs, right : {"digits"}, owner : GrpCallers]
Mockcfg == [id : 1..MaxRules, obj_type : {"group", "host", "other"}]

TplTypeOK ==
    /\ tpl \subseteq Template
    /\ act \subseteq Action
    /\ strategy \subseteq Strategy
    /\ expression \subseteq Expression
    /\ mockcfg \subseteq Mockcfg
    /\ named \subseteq 1..MaxActs /\ absent \subseteq 1..MaxTpls

TplInit ==
    /\ tpl = {} /\ act = {} /\ strategy = {} /\ expression = {} /\ mockcfg = {}
    /\ named = {} /\ absent = {} /\ tplReqs = 0
    /\ tplNext = [tpl |-> 1, act |-> 1, rule |-> 1]

TplRequest == tplReqs < MaxTplReqs /\ tplReqs' = tplReqs + 1 /\ UNCHANGED grpRest

(* A client passes the id of a template. *)
Mentions(t) == absent' = IF t \in Ids(tpl) THEN absent ELSE absent \cup {t}

----------------------------------------------------------------------------
(* Templates. Parent and action are taken as the client sends them.               *)

CreateTemplate(c, parent, a) ==
    /\ TplRequest /\ tplNext.tpl <= MaxTpls
    /\ tpl' = tpl \cup {[id |-> tplNext.tpl, parent |-> parent, action |-> a, owner |-> c]}
    /\ named' = named \cup ({a} \ {0})
    /\ tplNext' = [tplNext EXCEPT !.tpl = @ + 1]
    /\ UNCHANGED <<act, strategy, expression, grpTpl, mockcfg, absent>>

UpdateTemplate(c, t, parent) ==
    /\ TplRequest /\ t \in Ids(tpl)
    /\ c = Admin \/ Row(tpl, t).owner = c
    /\ tpl' = Save(tpl, [Row(tpl, t) EXCEPT !.parent = parent])
    /\ UNCHANGED <<act, strategy, expression, grpTpl, mockcfg, named, absent, tplNext>>

(* Slip: the id of the template is used for the action. *)
DeleteTemplateWrongAction(t) ==
    /\ TplRequest /\ t \in Ids(tpl)
    /\ tpl' = Without(tpl, t)
    /\ act' = Without(act, t)
    /\ strategy' = {s \in strategy : s.tpl # t}
    /\ grpTpl' = {b \in grpTpl : b.tpl # t}
    /\ UNCHANGED <<expression, mockcfg, named, absent, tplNext>>

(* Everybody may delete a template; its action, strategies and bindings go with   *)
(* it, the templates that have it as parent keep its id.                          *)
DeleteTemplate(t) ==
    /\ TplRequest /\ t \in Ids(tpl)
    /\ tpl' = Without(tpl, t)
    /\ act' = Without(act, Row(tpl, t).action)
    /\ strategy' = {s \in strategy : s.tpl # t}
    /\ grpTpl' = {b \in grpTpl : b.tpl # t}
    /\ UNCHANGED <<expression, mockcfg, named, absent, tplNext>>

(* A new action replaces the one the template had, whose row stays. *)
CreateActionToTmplate(t) ==
    /\ TplRequest /\ tplNext.act <= MaxActs
    /\ t \in Ids(tpl)
    /\ act' = act \cup {[id |-> tplNext.act, edited |-> FALSE]}
    /\ tpl' = Save(tpl, [Row(tpl, t) EXCEPT !.action = tplNext.act])
    /\ tplNext' = [tplNext EXCEPT !.act = @ + 1]
    /\ UNCHANGED <<strategy, expression, grpTpl, mockcfg, named, absent>>

UpdateActionToTmplate(a) ==
    /\ TplRequest /\ a \in Ids(act)
    /\ act' = Save(act, [id |-> a, edited |-> TRUE])
    /\ UNCHANGED <<tpl, strategy, expression, grpTpl, mockcfg, named, absent, tplNext>>

----------------------------------------------------------------------------
(* Strategies. A value that may be created need not be one that may be updated.   *)

CheckFormatCreate(right) == right \in {"digits", "signed"}
CheckFormatUpdate(right) == right = "digits"

CreateStrategy(t, right) ==
    /\ TplRequest /\ CheckFormatCreate(right) /\ tplNext.rule <= MaxRules
    /\ strategy' = strategy \cup {[id |-> tplNext.rule, tpl |-> t, right |-> right]}
    /\ tplNext' = [tplNext EXCEPT !.rule = @ + 1]
    /\ Mentions(t)
    /\ UNCHANGED <<tpl, act, expression, grpTpl, mockcfg, named>>

UpdateStrategy(s, right) ==
    /\ TplRequest /\ CheckFormatUpdate(right) /\ s \in Ids(strategy)
    /\ strategy' = Save(strategy, [Row(strategy, s) EXCEPT !.right = right])
    /\ UNCHANGED <<tpl, act, expression, grpTpl, mockcfg, named, absent, tplNext>>

DeleteStrategy(s) ==
    /\ TplRequest /\ s \in Ids(strategy)
    /\ strategy' = Without(strategy, s)
    /\ UNCHANGED <<tpl, act, expression, grpTpl, mockcfg, named, absent, tplNext>>

----------------------------------------------------------------------------
(* Expressions own an action.                                                     *)

CreateExrpession(c, right) ==
    /\ TplRequest /\ CheckFormatUpdate(right)
    /\ tplNext.rule <= MaxRules /\ tplNext.act <= MaxActs
    /\ act' = act \cup {[id |-> tplNext.act, edited |-> FALSE]}
    /\ expression' = expression \cup
         {[id |-> tplNext.rule, action |-> tplNext.act, right |-> right, owner |-> c]}
    /\ tplNext' = [tplNext EXCEPT !.rule = @ + 1, !.act = @ + 1]
    /\ UNCHANGED <<tpl, strategy, grpTpl, mockcfg, named, absent>>

(* Without its action the update is rolled back. *)
UpdateExrpession(c, e, right) ==
    /\ TplRequest /\ CheckFormatUpdate(right) /\ e \in Ids(expression)
    /\ c = Admin \/ Row(expression, e).owner = c
    /\ Row(expression, e).action \in Ids(act)
    /\ expression' = Save(expression, [Row(expression, e) EXCEPT !.right = right])
    /\ act' = Save(act, [id |-> Row(expression, e).action, edited |-> TRUE])
    /\ UNCHANGED <<tpl, strategy, grpTpl, mockcfg, named, absent, tplNext>>

(* The row is read only to check the permission of a caller who is not an         *)
(* administrator; an administrator's delete knows no action and leaves its row.   *)
DeleteExpression(c, e) ==
    /\ TplRequest /\ e \in Ids(expression)
    /\ c = Admin \/ Row(expression, e).owner = c
    /\ act' = IF c = Admin THEN act ELSE Without(act, Row(expression, e).action)
    /\ expression' = Without(expression, e)
    /\ UNCHANGED <<tpl, strategy, grpTpl, mockcfg, named, absent, tplNext>>

----------------------------------------------------------------------------
(* Bindings of templates to host groups.                                          *)

Bind(c, g, t) ==
    /\ TplRequest /\ BindTemplateToGroup(c, g, t) /\ Mentions(t)
    /\ UNCHANGED <<tpl, act, strategy, expression, mockcfg, named, tplNext>>

UnBind(c, g, t) ==
    /\ TplRequest /\ UnBindTemplateToGroup(c, g, t)
    /\ UNCHANGED <<tpl, act, strategy, expression, mockcfg, named, absent, tplNext>>

(* Nodata settings. *)
CreateNoData(ty) ==
    /\ TplRequest /\ tplNext.rule <= MaxRules
    /\ mockcfg' = mockcfg \cup {[id |-> tplNext.rule, obj_type |-> ty]}
    /\ tplNext' = [tplNext EXCEPT !.rule = @ + 1]
    /\ UNCHANGED <<tpl, act, strategy, expression, grpTpl, named, absent>>

UpdateNoData(m, ty) ==
    /\ TplRequest /\ m \in Ids(mockcfg)
    /\ mockcfg' = Save(mockcfg, [id |-> m, obj_type |-> ty])
    /\ UNCHANGED <<tpl, act, strategy, expression, grpTpl, named, absent, tplNext>>

DeleteNoData(m) ==
    /\ TplRequest /\ m \in Ids(mockcfg)
    /\ mockcfg' = Without(mockcfg, m)
    /\ UNCHANGED <<tpl, act, strategy, expression, grpTpl, named, absent, tplNext>>

----------------------------------------------------------------------------
(* What the reading handlers answer: whether the page of a template, or of an     *)
(* expression, can be shown.                                                      *)
GetATemplate(t) == Row(tpl, t).action = 0 \/ Row(tpl, t).action \in Ids(act)
GetExpression(e) == Row(expression, e).action \in Ids(act)

----------------------------------------------------------------------------
TplNextStep ==
    \/ \E c \in GrpCallers :
         \/ \E p \in 0..MaxTpls, a \in 0..MaxActs : CreateTemplate(c, p, a)
         \/ \E t \in 1..MaxTpls, p \in 0..MaxTpls : UpdateTemplate(c, t, p)
         \/ \E g \in 1..MaxGrps, t \in 1..MaxTpls : Bind(c, g, t) \/ UnBind(c, g, t)
         \/ \E right \in Rights : CreateExrpession(c, right)
         \/ \E e \in Ids(expression) :
              DeleteExpression(c, e) \/ \E right \in Rights : UpdateExrpession(c, e, right)
    \/ \E t \in 1..MaxTpls :
         \/ DeleteTemplate(t) \/ CreateActionToTmplate(t)
         \/ \E right \in Rights : CreateStrategy(t, right)
    \/ \E a \in Ids(act) : UpdateActionToTmplate(a)
    \/ \E s \in Ids(strategy) : DeleteStrategy(s) \/ \E right \in Rights : UpdateStrategy(s, right)
    \/ \E ty \in {"group", "host", "other"} :
         CreateNoData(ty) \/ \E m \in Ids(mockcfg) : UpdateNoData(m, ty)
    \/ \E m \in Ids(mockcfg) : DeleteNoData(m)

TplSpec == GrpInit /\ TplInit /\ [][TplNextStep]_<<grpVars, tplVars>>

----------------------------------------------------------------------------
(* The owner of an action always finds it: the pages of templates and expressions *)
(* can be shown, and alarm learns whom to tell, unless a client made a template   *)
(* share an action by naming its id; strategies of a template that is gone, and   *)
(* its bindings, exist only when a client named one that was not there.           *)
OwnedRowsLive ==
    /\ \A t \in tpl : GetATemplate(t.id) \/ t.action \in named
    /\ \A e \in expression : GetExpression(e.id) \/ e.action \in named
    /\ \A s \in strategy : s.tpl \in Ids(tpl) \cup absent
    /\ \A b \in grpTpl : b.tpl \in Ids(tpl) \cup absent

============================================================================
