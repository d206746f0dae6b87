-------------------------------- MODULE Uic --------------------------------
(* Users, sessions and teams of the api (modules/api/app/controller/uic). Every   *)
(* handler that writes is an action; a handler that reads a whole row, or the     *)
(* absence of one, and writes later is split into the read and the write, because *)
(* gin serves requests concurrently and no transaction is opened.                 *)
EXTENDS Db

CONSTANTS Names,        \* user names a client asks for; "root" is one of them
          Passwords,    \* passwords (HashIt is taken to be injective)
          MaxUsers, MaxSigs, MaxTeams, MaxReqs, MaxPend

ASSUME UicAssumption ==
    /\ "root" \in Names
    /\ MaxUsers \in Nat \ {0} /\ MaxSigs \in Nat /\ MaxTeams \in Nat
    /\ MaxReqs \in Nat /\ MaxPend \in Nat

VARIABLES uicConf,      \* viper: access_control, signup_disable, skip_auth, and whether
                        \* a default_token is set
          users,        \* table user
          sessions,     \* table session
          teams,        \* table team
          rel,          \* table rel_team_user, as pairs <<tid, uid>>
          uicPend,      \* handlers between their read and their write
          handed,       \* tokens put into an answer, with the user they were made for
          loggedOut,    \* signatures whose logout was answered with success
          meant,        \* history: the rows of user had every request that changes
                        \* one been served by itself
          crossed,      \* history: users of whom a row was saved that had been
                        \* changed, or deleted, after it was read
          uicNext,      \* the AUTO_INCREMENT counters, and the uuids used
          uicReqs

uicVars == <<uicConf, users, sessions, teams, rel, uicPend, handed, loggedOut, meant, crossed,
             uicNext, uicReqs>>

UserRow == [id : 1..MaxUsers, name : Names \cup {""}, passwd : Passwords \cup {""}, role : 0..2,
            edited : BOOLEAN]   \* the profile columns are not the ones of the sign up
SessionRow == [sig : 1..MaxSigs, uid : 1..MaxUsers]
TeamRow == [id : 1..MaxTeams, creator : 1..MaxUsers]
RelTeamUser == (1..MaxTeams) \X (1..MaxUsers)
Token == [name : Names, sig : 1..MaxSigs, uid : 1..MaxUsers]
Conf == [access_control : BOOLEAN, signup_disable : BOOLEAN, skip_auth : BOOLEAN,
         default_token : BOOLEAN]

UicTypeOK ==
    /\ uicConf \in Conf
    /\ users \subseteq UserRow /\ meant \subseteq UserRow
    /\ sessions \subseteq SessionRow
    /\ teams \subseteq TeamRow
    /\ rel \subseteq RelTeamUser
    /\ handed \subseteq Token
    /\ loggedOut \subseteq 1..MaxSigs /\ crossed \subseteq 1..MaxUsers
    /\ uicReqs \in 0..MaxReqs

(* The first user may be installed with the schema. *)
RootRow(p) == [id |-> 1, name |-> "root", passwd |-> p, role |-> 2, edited |-> FALSE]

UicInit ==
    /\ uicConf \in Conf
    /\ users \in {{}} \cup {{RootRow(p)} : p \in Passwords} /\ meant = users
    /\ sessions = {} /\ teams = {} /\ rel = {} /\ uicPend = {}
    /\ handed = {} /\ loggedOut = {} /\ crossed = {}
    /\ uicNext = [user |-> IF users = {} THEN 1 ELSE 2, sig |-> 1, team |-> 1]
    /\ uicReqs = 0

----------------------------------------------------------------------------
(* Who is asking. A request carries a token that an answer contained, or one that *)
(* no answer did: any name, with the signature the configuration may accept.      *)

DefaultSig == 0
Tokens == handed \cup {[name |-> n, sig |-> DefaultSig, uid |-> 0] : n \in Names}

NameTaken(n) == \E u \in users : u.name = n
UserNamed(n) == CHOOSE u \in users : u.name = n

(* helper.GetUser: only the name of the token is looked at. *)
CurrentUser(t) == UserNamed(t.name)

(* Slip: the owner of the session is not compared. *)
SessionCheckingBySig(t) ==
    \/ uicConf.default_token /\ t.sig = DefaultSig
    \/ NameTaken(t.name) /\ \E s \in sessions : s.sig = t.sig

(* helper.SessionChecking: the default token is good for any name; any other      *)
(* session must belong to the user the name denotes.                              *)
SessionChecking(t) ==
    \/ uicConf.default_token /\ t.sig = DefaultSig
    \/ /\ NameTaken(t.name)
       /\ \E s \in sessions : s.sig = t.sig /\ s.uid = UserNamed(t.name).id

IsAdmin(u) == ~uicConf.access_control \/ u.role \in {1, 2}

(* AuthSessionMidd lets the request pass. *)
AuthSessionMidd(t) == uicConf.skip_auth \/ SessionChecking(t)

(* ... and the handler finds the user the token names. *)
Authorised(t) == t \in Tokens /\ AuthSessionMidd(t) /\ NameTaken(t.name)

Request == uicReqs < MaxReqs /\ uicReqs' = uicReqs + 1

----------------------------------------------------------------------------
(* Sign up, log in, log out.                                                      *)

(* The session table had no row for the user: a new signature is stored (an error *)
(* of that insert is not looked at) and answered.                                 *)
NewSession(u) ==
    /\ uicNext.sig <= MaxSigs
    /\ \E stored \in BOOLEAN :
         sessions' = IF stored THEN sessions \cup {[sig |-> uicNext.sig, uid |-> u.id]} ELSE sessions
    /\ handed' = handed \cup {[name |-> u.name, sig |-> uicNext.sig, uid |-> u.id]}

(* While sign up is disabled an administrator has to ask; the session is not      *)
(* checked on this route, the name in the token is.                               *)
MaySignUp ==
    \/ ~uicConf.signup_disable
    \/ \E t \in Tokens : NameTaken(t.name) /\ IsAdmin(CurrentUser(t))

CreateUser(n, p) ==
    LET u == [id |-> uicNext.user, name |-> n, passwd |-> p,
              role |-> IF n = "root" THEN 2 ELSE 0, edited |-> FALSE]
    IN  /\ Request /\ MaySignUp
        /\ ~NameTaken(n)
        /\ uicNext.user <= MaxUsers
        /\ users' = users \cup {u} /\ meant' = meant \cup {u}
        /\ NewSession(u)
        /\ uicNext' = [uicNext EXCEPT !.user = @ + 1, !.sig = @ + 1]
        /\ UNCHANGED <<uicConf, teams, rel, uicPend, loggedOut, crossed>>

(* Login reads the user, compares the password and looks for a session. *)
LoginRead(n, p) ==
    /\ Request
    /\ NameTaken(n) /\ UserNamed(n).passwd = p
    /\ Cardinality(uicPend) < MaxPend
    /\ LET u == UserNamed(n)
           own == {s \in sessions : s.uid = u.id}
       IN  \E sig \in IF own = {} THEN {0} ELSE {s.sig : s \in own} :
             uicPend' = uicPend \cup {[op |-> "login", row |-> u, read |-> u, sig |-> sig]}
    /\ UNCHANGED <<uicConf, users, sessions, teams, rel, handed, loggedOut, meant, crossed, uicNext>>

(* ... and answers that session, or makes one. *)
LoginReply(q) ==
    /\ q \in uicPend /\ q.op = "login"
    /\ uicPend' = uicPend \ {q}
    /\ IF q.sig = 0
       THEN NewSession(q.row) /\ uicNext' = [uicNext EXCEPT !.sig = @ + 1]
       ELSE /\ handed' = handed \cup {[name |-> q.row.name, sig |-> q.sig, uid |-> q.row.id]}
            /\ UNCHANGED <<sessions, uicNext>>
    /\ UNCHANGED <<uicConf, users, teams, rel, loggedOut, meant, crossed, uicReqs>>

(* The session is found and deleted. A delete that fails is answered with its     *)
(* error (and, in the same answer, with "logout successful").                     *)
Logout(t) ==
    /\ Request
    /\ t \in handed /\ NameTaken(t.name)
    /\ [sig |-> t.sig, uid |-> CurrentUser(t).id] \in sessions
    /\ \/ /\ sessions' = sessions \ {[sig |-> t.sig, uid |-> CurrentUser(t).id]}
          /\ loggedOut' = loggedOut \cup {t.sig}
       \/ UNCHANGED <<sessions, loggedOut>>
    /\ UNCHANGED <<uicConf, users, teams, rel, uicPend, handed, meant, crossed, uicNext>>

----------------------------------------------------------------------------
(* Changes of a user row. Three handlers read the row, change one column and save *)
(* all of them; what they save is decided here and written by SaveRow.            *)

(* The row that is going to be saved is kept until SaveRow; the request asked for *)
(* one column.                                                                    *)
ReadToSave(column, read, row) ==
    /\ Cardinality(uicPend) < MaxPend
    /\ uicPend' = uicPend \cup {[op |-> column, row |-> row, read |-> read, sig |-> 0]}
    /\ UNCHANGED <<uicConf, users, sessions, teams, rel, handed, loggedOut, meant, crossed, uicNext>>

ChangePassword(t, old, new) ==
    /\ Request /\ Authorised(t)
    /\ CurrentUser(t).passwd = old
    /\ ReadToSave("passwd", CurrentUser(t), [CurrentUser(t) EXCEPT !.passwd = new])

(* Slip: the row is not read first, so the other columns are saved empty. *)
AdminChangePasswordBlind(t, i, p) ==
    /\ Request /\ Authorised(t) /\ IsAdmin(CurrentUser(t))
    /\ i \in Ids(users)
    /\ ReadToSave("passwd", Row(users, i), [Row(users, i) EXCEPT !.passwd = p, !.role = 0])

AdminChangePassword(t, i, p) ==
    /\ Request /\ Authorised(t) /\ IsAdmin(CurrentUser(t))
    /\ i \in Ids(users)
    /\ ReadToSave("passwd", Row(users, i), [Row(users, i) EXCEPT !.passwd = p])

(* The result of the Find is not checked: without the row an empty user is saved, *)
(* which inserts one.                                                             *)
ChangeRoleOfUser(t, i, role) ==
    /\ Request /\ Authorised(t) /\ IsAdmin(CurrentUser(t))
    /\ role \in {0, 1}
    /\ IF i \in Ids(users)
       THEN ReadToSave("role", Row(users, i), [Row(users, i) EXCEPT !.role = role])
       ELSE LET nobody == [id |-> uicNext.user, name |-> "", passwd |-> "", role |-> role,
                           edited |-> FALSE]
            IN  /\ uicNext.user <= MaxUsers /\ ~NameTaken("")
                /\ users' = users \cup {nobody} /\ meant' = meant \cup {nobody}
                /\ uicNext' = [uicNext EXCEPT !.user = @ + 1]
                /\ UNCHANGED <<uicConf, sessions, teams, rel, uicPend, handed, loggedOut, crossed>>

(* What the request of q was for. *)
Asked(q, row) ==
    IF q.op = "passwd" THEN [row EXCEPT !.passwd = q.row.passwd] ELSE [row EXCEPT !.role = q.row.role]

(* The name is a unique key: a row that cannot be inserted again is an error. *)
SaveRow(q) ==
    /\ q \in uicPend /\ q.op \in {"passwd", "role"}
    /\ uicPend' = uicPend \ {q}
    /\ IF \E u \in users : u.name = q.row.name /\ u.id # q.row.id
       THEN UNCHANGED <<users, meant, crossed>>
       ELSE /\ users' = Save(users, q.row)
            /\ meant' = {IF u.id = q.row.id THEN Asked(q, u) ELSE u : u \in meant}
            /\ crossed' = IF q.read \in users THEN crossed ELSE crossed \cup {q.row.id}
    /\ UNCHANGED <<uicConf, sessions, teams, rel, handed, loggedOut, uicNext, uicReqs>>

(* The profile columns of a row are updated by one statement. *)
Edited(T, i) == {IF u.id = i THEN [u EXCEPT !.edited = TRUE] ELSE u : u \in T}

EditProfile(i) ==
    /\ users' = Edited(users, i) /\ meant' = Edited(meant, i)
    /\ UNCHANGED <<uicConf, sessions, teams, rel, uicPend, handed, loggedOut, crossed, uicNext>>

UpdateCurrentUser(t) == Request /\ Authorised(t) /\ EditProfile(CurrentUser(t).id)

AdminChangeUserProfile(t, i) ==
    /\ Request /\ Authorised(t) /\ IsAdmin(CurrentUser(t))
    /\ EditProfile(i)

(* One statement decides on the role and deletes; sessions and team rows stay. *)
AdminUserDelete(t, i) ==
    /\ Request /\ Authorised(t) /\ IsAdmin(CurrentUser(t))
    /\ i \in Ids(users) /\ Row(users, i).role <= CurrentUser(t).role
    /\ users' = Without(users, i) /\ meant' = Without(meant, i)
    /\ UNCHANGED <<uicConf, sessions, teams, rel, uicPend, handed, loggedOut, crossed, uicNext>>

----------------------------------------------------------------------------
(* Teams.                                                                         *)

(* The team is created, then its members one by one; an error ends the loop and   *)
(* leaves the members inserted so far.                                            *)
CreateTeam(t, uids) ==
    /\ Request /\ Authorised(t) /\ uicNext.team <= MaxTeams
    /\ teams' = teams \cup {[id |-> uicNext.team, creator |-> CurrentUser(t).id]}
    /\ \E done \in SUBSET uids : rel' = rel \cup {<<uicNext.team, u>> : u \in done}
    /\ uicNext' = [uicNext EXCEPT !.team = @ + 1]
    /\ UNCHANGED <<uicConf, users, sessions, uicPend, handed, loggedOut, meant, crossed>>

(* Administrators, the creator and the members of a team manage it. *)
MayManage(u, tid) ==
    /\ tid \in Ids(teams)
    /\ IsAdmin(u) \/ <<tid, u.id>> \in rel \/ Row(teams, tid).creator = u.id

(* bindUsers: an empty list of members is refused after the team row was updated; *)
(* members that are not named go first, then the missing ones are inserted.       *)
BindUsers(tid, uids) ==
    LET gone == {r \in rel : r[1] = tid /\ r[2] \notin uids}
        come == {<<tid, u>> : u \in uids} \ rel
    IN  \/ \E part \in SUBSET gone : rel' = rel \ part
        \/ \E part \in SUBSET come : rel' = (rel \ gone) \cup part

UpdateTeam(t, tid, uids) ==
    /\ Request /\ Authorised(t) /\ MayManage(CurrentUser(t), tid)
    /\ IF uids = {} THEN rel' = rel ELSE BindUsers(tid, uids)
    /\ UNCHANGED <<uicConf, users, sessions, teams, uicPend, handed, loggedOut, meant, crossed, uicNext>>

(* The error of the second delete is not looked at. An administrator need not     *)
(* name a team that exists.                                                       *)
DeleteTeam(t, tid) ==
    /\ Request /\ Authorised(t)
    /\ \/ IsAdmin(CurrentUser(t))
       \/ tid \in Ids(teams) /\ Row(teams, tid).creator = CurrentUser(t).id
    /\ teams' = Without(teams, tid)
    /\ \/ rel' = {r \in rel : r[1] # tid}
       \/ rel' = rel
    /\ UNCHANGED <<uicConf, users, sessions, uicPend, handed, loggedOut, meant, crossed, uicNext>>

----------------------------------------------------------------------------
UicNextStep ==
    \/ \E n \in Names, p \in Passwords : CreateUser(n, p) \/ LoginRead(n, p)
    \/ \E q \in uicPend : LoginReply(q) \/ SaveRow(q)
    \/ \E t \in handed : Logout(t)
    \/ \E t \in Tokens :
         \/ UpdateCurrentUser(t)
         \/ \E p, q \in Passwords : p # q /\ ChangePassword(t, p, q)
         \/ \E i \in 1..MaxUsers :
              \/ \E p \in Passwords : AdminChangePassword(t, i, p)
              \/ \E r \in {0, 1} : ChangeRoleOfUser(t, i, r)
              \/ AdminUserDelete(t, i) \/ AdminChangeUserProfile(t, i)
         \/ \E uids \in SUBSET Ids(users) : CreateTeam(t, uids)
         \/ \E tid \in 1..MaxTeams :
              \/ \E uids \in SUBSET Ids(users) : UpdateTeam(t, tid, uids)
              \/ DeleteTeam(t, tid)

UicSpec == UicInit /\ [][UicNextStep]_uicVars

----------------------------------------------------------------------------
(* Unless skip_auth turns the check off, a token of an answer is accepted only    *)
(* while the user it was made for exists under that id and nobody logged it out:  *)
(* a user who is deleted and signs up again under the same name, a save that      *)
(* brings a deleted row back, and two logins that race never make an old token    *)
(* act for somebody else. The one token that acts under every name is the         *)
(* configured default_token (SessionChecking, AuthSessionMidd).                   *)
OnlyLiveTokens ==
    \A t \in Tokens :
        AuthSessionMidd(t) =>
            \/ uicConf.skip_auth
            \/ t.sig = DefaultSig /\ uicConf.default_token
            \/ /\ t \in handed /\ t.sig \notin loggedOut
               /\ UserNamed(t.name).id = t.uid

(* A password, a role or a profile that was changed stays changed, although three *)
(* handlers write a whole row back: only a row that was changed or deleted        *)
(* between its read and its save loses a change or comes back, whatever is        *)
(* written about other users meanwhile (ChangePassword, AdminChangePassword,      *)
(* ChangeRoleOfUser).                                                             *)
ChangesKept ==
    \A i \in 1..MaxUsers \ crossed :
        {u \in users : u.id = i} = {u \in meant : u.id = i}

============================================================================
