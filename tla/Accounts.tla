------------------------------ MODULE Accounts ------------------------------
(***************************************************************************)
(* The directory of users and groups behind the web UI: the account page,  *)
(* user administration, group administration and password recovery         *)
(* (internal/web) over the users, groups and reset tables                  *)
(* (internal/storage/sqlite).  Every statement takes the one database      *)
(* connection, so statements are atomic; a handler issues several, and     *)
(* handlers of different requests interleave.  Any statement may fail, and *)
(* the handler then answers with an error and leaves what it wrote.        *)
(*                                                                         *)
(* A user row keeps name and role and, in place of the memberships and the *)
(* switched-off channels, the number of the request whose form they come   *)
(* from.  A field of a form is chosen where the handler first uses it.     *)
(***************************************************************************)
EXTENDS Naturals, FiniteSets

CONSTANTS
    Callers,      \* requests that may be in flight together
    UserIds,      \* AUTOINCREMENT ids, the configured admin's is 1
    UserNames,    \* names of regular users
    UserGroups,   \* groups that exist at the start
    UserRoles,    \* roles an administrator may give, "" included
    MaxCalls,     \* bound: requests
    MaxTokens     \* bound: reset tokens

ASSUME AccountsAssumption ==
    /\ Cardinality(UserIds) \in Nat /\ UserIds = 1..Cardinality(UserIds) /\ 2 \in UserIds
    /\ "none" \notin UserNames /\ "" \in UserRoles /\ {MaxCalls, MaxTokens} \subseteq Nat

VARIABLES
    users,        \* the users table with its dependent rows
    groups,       \* the groups table
    tokens,       \* password_resets
    signedIn,     \* sessionStore: per name the role of its session
    call,         \* per caller: the request in flight
    calls,        \* requests so far
    given,        \* history: name and role an administrator last gave
    raced,        \* history: users edited while an account save held their row
    torn,         \* history: users whose preferences two requests wrote at once,
                  \*          one of whose preference writes failed, or whose row is
                  \*          there and the subscription of CreateUser is not
    spent,        \* history: passwords set with each token
    doubled       \* history: tokens two submissions held at once

accountVars == <<users, groups, tokens, signedIn, call, calls, given, raced, torn, spent,
                 doubled>>

NoUser == [name |-> "none", role |-> "", groupsBy |-> 0, channelsBy |-> 0]
NoCall == [op |-> "idle", step |-> "idle", id |-> 0, name |-> "none", role |-> "",
           token |-> 0, number |-> 0]
SignedOut == "out"
Admin == 1
Exists(id) == users[id].name # "none"
Regular(id) == Exists(id) /\ id # Admin
IdOf(name) == {id \in UserIds : users[id].name = name}
Taken(name, id) == \E other \in UserIds \ {id} : users[other].name = name

-----------------------------------------------------------------------------
(* EnsureAdminUser has put the admin row there before the server starts; one *)
(* regular user is registered and signed in.                                 *)
AccountsInit ==
    \E name \in UserNames, role \in UserRoles \ {""} :
        /\ users = [id \in UserIds |->
                       IF id = Admin THEN [NoUser EXCEPT !.name = "admin"]
                       ELSE IF id = 2
                       THEN [NoUser EXCEPT !.name = name, !.role = role]
                       ELSE NoUser]
        /\ given = [id \in UserIds |-> IF id = 2 THEN <<name, role>>
                                       ELSE <<"none", "">>]
        /\ signedIn = [n \in UserNames |-> IF n = name THEN role ELSE SignedOut]
        /\ groups = UserGroups
        /\ tokens = {} /\ call = [c \in Callers |-> NoCall] /\ calls = 0
        /\ raced = {} /\ torn = {} /\ spent = [t \in 1..MaxTokens |-> 0] /\ doubled = {}

Begins(c, request) ==
    /\ call[c] = NoCall /\ calls < MaxCalls
    /\ calls' = calls + 1
    /\ call' = [call EXCEPT ![c] = [request EXCEPT !.number = calls + 1]]

(* Past its first statement a handler needs the user, the number and the token. *)
GoesTo(c, step) ==
    call' = [call EXCEPT ![c].step = step, ![c].op = "on", ![c].name = "none", ![c].role = ""]

Ends(c) == call' = [call EXCEPT ![c] = NoCall]

(* A handler that has replaced the memberships and fails before the channels *)
(* leaves preferences of two forms.                                          *)
Leaves(c) == IF call[c].step = "channels" /\ call[c].id \in UserIds
             THEN torn \cup {call[c].id} ELSE torn

(* A database error at any statement: the handler answers with an error. *)
StatementFails(c) ==
    /\ call[c] # NoCall
    /\ Ends(c) /\ torn' = Leaves(c)
    /\ UNCHANGED <<users, groups, tokens, signedIn, calls, given, raced, spent, doubled>>

-----------------------------------------------------------------------------
(* handleLoginSubmit with Authenticate, handleLogout, sessionStore.get: the *)
(* role of a session is fixed at login.                                     *)
Login(name) ==
    /\ \E id \in IdOf(name) : /\ users[id].role # ""
                              /\ signedIn' = [signedIn EXCEPT ![name] = users[id].role]
    /\ UNCHANGED <<users, groups, tokens, call, calls, given, raced, torn, spent, doubled>>

SessionEnds(name) ==
    /\ signedIn[name] # SignedOut
    /\ signedIn' = [signedIn EXCEPT ![name] = SignedOut]
    /\ UNCHANGED <<users, groups, tokens, call, calls, given, raced, torn, spent, doubled>>

-----------------------------------------------------------------------------
(* handleAccountSave reads the row of the session's user, and writes back the *)
(* name and role of that row.                                                 *)
AccountSaveSessionRole(c) ==                                    \* mutant
    \E name \in UserNames :
        /\ signedIn[name] # SignedOut
        /\ \E id \in IdOf(name) :
              Begins(c, [NoCall EXCEPT !.op = "account", !.step = "update", !.id = id,
                             !.name = name, !.role = signedIn[name]])
        /\ UNCHANGED <<users, groups, tokens, signedIn, given, raced, torn, spent, doubled>>

AccountSave(c) ==
    \E name \in UserNames :
        /\ signedIn[name] # SignedOut
        /\ \E id \in IdOf(name) :
              Begins(c, [NoCall EXCEPT !.op = "account", !.step = "update", !.id = id,
                             !.name = users[id].name, !.role = users[id].role])
        /\ UNCHANGED <<users, groups, tokens, signedIn, given, raced, torn, spent, doubled>>

(* handleUserSave with edit_id, and handleUserPrefs, for a user of the page. *)
UserEdit(c) ==
    \E id \in UserIds, op \in {"edit", "prefs"} :
        /\ Exists(id)
        /\ Begins(c, [NoCall EXCEPT !.op = op, !.id = id,
                          !.step = IF op = "edit" THEN "update" ELSE "groups"])
        /\ UNCHANGED <<users, groups, tokens, signedIn, given, raced, torn, spent, doubled>>

(* handleUserSave without edit_id: the name check, then the INSERT. *)
UserCreate(c) ==
    \E name \in UserNames, role \in UserRoles :
        /\ ~ Taken(name, 0)
        /\ Begins(c, [NoCall EXCEPT !.op = "create", !.step = "insert", !.name = name,
                          !.role = role])
        /\ UNCHANGED <<users, groups, tokens, signedIn, given, raced, torn, spent, doubled>>

(* CreateUser's INSERT: the UNIQUE index refuses a name taken since the check; *)
(* AUTOINCREMENT gives the next id.  The row has no channel switched off, as   *)
(* the form for a new user asks; its memberships come one statement later.     *)
InsertUser(c) ==
    /\ call[c].step = "insert"
    /\ IF Taken(call[c].name, 0)
       THEN Ends(c) /\ UNCHANGED <<users, given, torn>>
       ELSE \E id \in {i \in UserIds : given[i][1] = "none" /\ i # Admin} :
              /\ \A i \in UserIds : i < id /\ i # Admin => given[i][1] # "none"
              /\ users' = [users EXCEPT ![id] =
                              [NoUser EXCEPT !.name = call[c].name, !.role = call[c].role,
                                             !.channelsBy = call[c].number]]
              /\ torn' = torn \cup {id}
              /\ given' = [given EXCEPT ![id] = <<call[c].name, call[c].role>>]
              /\ call' = [call EXCEPT ![c].step = "subscribe", ![c].id = id, ![c].op = "on",
                                         ![c].name = "none", ![c].role = ""]
    /\ UNCHANGED <<groups, tokens, signedIn, calls, raced, spent, doubled>>

(* CreateUser's second statement adds the new user to every group.  The row   *)
(* can be seen before: an administrator may have deleted it, which breaks the  *)
(* foreign key when there is a group (and the final read when there is none),  *)
(* or sent a /prefs form.  Then a membership that form has set breaks the      *)
(* primary key, and otherwise the groups are added to what the form asked for. *)
AsInserted(c) ==
    LET row == users[call[c].id] IN
    /\ row.groupsBy = 0 /\ row.channelsBy = call[c].number
    /\ \A d \in Callers \ {c} : call[d].step = "channels" => call[d].id # call[c].id

SubscribeUser(c) ==
    LET id == call[c].id IN
    /\ call[c].step = "subscribe"
    /\ \/ /\ Exists(id) /\ (users[id].groupsBy = 0 \/ groups # {})
          /\ users' = [users EXCEPT ![id].groupsBy = call[c].number]
          /\ torn' = IF AsInserted(c) THEN torn \ {id} ELSE torn \cup {id}
          /\ GoesTo(c, "aprs")
       \/ /\ ~ Exists(id) \/ users[id].groupsBy # 0
          /\ IF Exists(id) /\ groups = {} THEN GoesTo(c, "aprs") ELSE Ends(c)
          /\ UNCHANGED <<users, torn>>
    /\ UNCHANGED <<groups, tokens, signedIn, calls, given, raced, spent, doubled>>

(* UpdateUser: name check, UPDATE ... AND is_admin = 0, missingOrProtected.  An *)
(* administrator's form names the user and the role, the account page has read  *)
(* them.                                                                        *)
Writes(c, name, role) ==
    LET id == call[c].id IN
    IF Regular(id) /\ ~ Taken(name, id)
    THEN /\ users' = [users EXCEPT ![id].name = name, ![id].role = role]
         /\ GoesTo(c, IF call[c].op = "account" THEN "groups" ELSE "aprs")
    ELSE Ends(c) /\ UNCHANGED users

UpdateUser(c) ==
    LET id == call[c].id IN
    /\ call[c].step = "update"
    /\ \/ /\ call[c].op = "account"
          /\ Writes(c, call[c].name, call[c].role)
          /\ UNCHANGED <<given, raced>>
       \/ /\ call[c].op = "edit"
          /\ \E name \in UserNames, role \in UserRoles :
                /\ Writes(c, name, role)
                /\ given' = IF Regular(id) /\ ~ Taken(name, id)
                            THEN [given EXCEPT ![id] = <<name, role>>] ELSE given
          /\ raced' = IF \E d \in Callers \ {c} : call[d].op = "account" /\ call[d].id = id
                                                      /\ call[d].step = "update"
                      THEN raced \cup {id} ELSE raced
    /\ UNCHANGED <<groups, tokens, signedIn, calls, torn, spent, doubled>>

(* SetUserAPRS checks the row; a form without the preferences marker ends here. *)
SetUserAPRS(c) ==
    /\ call[c].step = "aprs"
    /\ \/ Regular(call[c].id) /\ GoesTo(c, "groups")
       \/ Ends(c)
    /\ UNCHANGED <<users, groups, tokens, signedIn, calls, given, raced, torn, spent, doubled>>

(* SetUserGroups: one transaction, which the foreign keys refuse for a group or *)
(* a user that is gone.  It does not look at is_admin.                          *)
SetUserGroups(c) ==
    LET id == call[c].id IN
    /\ call[c].step = "groups"
    /\ \E checked \in SUBSET UserGroups :
          IF checked # {} /\ (~ Exists(id) \/ ~ (checked \subseteq groups))
          THEN Ends(c) /\ UNCHANGED <<users, torn>>
          ELSE /\ users' = IF Exists(id) THEN [users EXCEPT ![id].groupsBy = call[c].number]
                           ELSE users
               /\ GoesTo(c, "channels")
               /\ torn' = IF \E d \in Callers \ {c} :
                               call[d].id = id /\ call[d].step = "channels"
                          THEN torn \cup {id} ELSE torn
    /\ UNCHANGED <<groups, tokens, signedIn, calls, given, raced, spent, doubled>>

(* SetUserChannelOptOuts: replaces the opt-outs of a regular user. *)
SetChannelsWhenAny(c) ==                                        \* mutant
    LET id == call[c].id IN
    /\ call[c].step = "channels"
    /\ IF Regular(id)
       THEN /\ \E any \in BOOLEAN :
                 users' = IF any THEN [users EXCEPT ![id].channelsBy = call[c].number]
                          ELSE users
            /\ UNCHANGED torn
       ELSE torn' = Leaves(c) /\ UNCHANGED users
    /\ Ends(c)
    /\ UNCHANGED <<groups, tokens, signedIn, calls, given, raced, spent, doubled>>

SetUserChannelOptOuts(c) ==
    LET id == call[c].id IN
    /\ call[c].step = "channels"
    /\ IF Regular(id)
       THEN users' = [users EXCEPT ![id].channelsBy = call[c].number] /\ UNCHANGED torn
       ELSE torn' = Leaves(c) /\ UNCHANGED users
    /\ Ends(c)
    /\ UNCHANGED <<groups, tokens, signedIn, calls, given, raced, spent, doubled>>

(* DeleteUser, DeleteGroup: requests of one statement; the foreign keys     *)
(* cascade.                                                                *)
DeleteUser(id) ==
    /\ Regular(id)
    /\ calls < MaxCalls /\ calls' = calls + 1
    /\ users' = [users EXCEPT ![id] = NoUser]
    /\ tokens' = {t \in tokens : t.id # id}
    /\ raced' = raced \ {id} /\ torn' = torn \ {id}
    /\ UNCHANGED <<groups, signedIn, call, given, spent, doubled>>

DeleteGroup(g) ==
    /\ g \in groups
    /\ calls < MaxCalls /\ calls' = calls + 1
    /\ groups' = groups \ {g}
    /\ UNCHANGED <<users, tokens, signedIn, call, given, raced, torn, spent, doubled>>

-----------------------------------------------------------------------------
(* handleForgotSubmit finds the user; CreatePasswordReset deletes the user's *)
(* tokens and the expired ones, then inserts a new one and mails its link.   *)
Forgot(c) ==
    \E name \in UserNames : \E id \in IdOf(name) :
        /\ Begins(c, [NoCall EXCEPT !.op = "forgot", !.step = "prune", !.id = id])
        /\ UNCHANGED <<users, groups, tokens, signedIn, given, raced, torn, spent, doubled>>

PruneTokens(c) ==
    /\ call[c].step = "prune"
    /\ tokens' = {t \in tokens : t.id # call[c].id /\ t.state # "expired"}
    /\ GoesTo(c, "issue")
    /\ UNCHANGED <<users, groups, signedIn, calls, given, raced, torn, spent, doubled>>

(* Tokens are random, so an unused number stands for a new one. *)
IssueToken(c) ==
    /\ call[c].step = "issue"
    /\ IF Exists(call[c].id)
       THEN \E n \in 1..MaxTokens :
              /\ spent[n] = 0 /\ \A t \in tokens : t.n # n
              /\ \A d \in Callers : call[d].token # n
              /\ tokens' = tokens \cup {[n |-> n, id |-> call[c].id, state |-> "live"]}
       ELSE UNCHANGED tokens
    /\ Ends(c)
    /\ UNCHANGED <<users, groups, signedIn, calls, given, raced, torn, spent, doubled>>

TokenExpires(t) ==
    /\ t \in tokens /\ t.state = "live"
    /\ tokens' = (tokens \ {t}) \cup {[t EXCEPT !.state = "expired"]}
    /\ UNCHANGED <<users, groups, signedIn, call, calls, given, raced, torn, spent, doubled>>

(* handleResetSubmit: ConsumePasswordReset looks the token up, ... *)
ResetLooksUp(c) ==
    \E t \in tokens :
        /\ t.state = "live"
        /\ Begins(c, [NoCall EXCEPT !.op = "reset", !.step = "mark", !.id = t.id,
                                    !.token = t.n])
        /\ doubled' = IF \E d \in Callers : call[d].step = "mark" /\ call[d].token = t.n
                      THEN doubled \cup {t.n} ELSE doubled
        /\ UNCHANGED <<users, groups, tokens, signedIn, given, raced, torn, spent>>

(* ... marks it used, ... *)
MarkTokenSkipped(c) ==                                          \* mutant
    /\ call[c].step = "mark"
    /\ GoesTo(c, "password")
    /\ UNCHANGED <<users, groups, tokens, signedIn, calls, given, raced, torn, spent, doubled>>

MarkToken(c) ==
    /\ call[c].step = "mark"
    /\ tokens' = {IF t.n = call[c].token THEN [t EXCEPT !.state = "used"] ELSE t : t \in tokens}
    /\ GoesTo(c, "password")
    /\ UNCHANGED <<users, groups, signedIn, calls, given, raced, torn, spent, doubled>>

(* ... and SetUserPassword, unless the user is gone. *)
SetUserPassword(c) ==
    /\ call[c].step = "password"
    /\ spent' = IF Regular(call[c].id) THEN [spent EXCEPT ![call[c].token] = @ + 1]
                ELSE spent
    /\ Ends(c)
    /\ UNCHANGED <<users, groups, tokens, signedIn, calls, given, raced, torn, doubled>>

(* The process restarts: sessions and requests are gone, rows stay. *)
ServerRestarts ==
    /\ \E c \in Callers : call[c] # NoCall
    /\ call' = [c \in Callers |-> NoCall]
    /\ signedIn' = [n \in UserNames |-> SignedOut]
    /\ torn' = torn \cup {id \in UserIds :
                             \E c \in Callers : call[c].step = "channels" /\ call[c].id = id}
    /\ UNCHANGED <<users, groups, tokens, calls, given, raced, spent, doubled>>

AccountsNext ==
    \/ \E c \in Callers :
          \/ StatementFails(c) \/ AccountSave(c) \/ UserEdit(c)
          \/ UserCreate(c) \/ InsertUser(c) \/ SubscribeUser(c) \/ UpdateUser(c)
          \/ SetUserAPRS(c) \/ SetUserGroups(c) \/ SetUserChannelOptOuts(c)
          \/ Forgot(c) \/ PruneTokens(c) \/ IssueToken(c)
          \/ ResetLooksUp(c) \/ MarkToken(c) \/ SetUserPassword(c)
    \/ \E n \in UserNames : Login(n) \/ SessionEnds(n)
    \/ \E id \in UserIds : DeleteUser(id)
    \/ \E g \in UserGroups : DeleteGroup(g)
    \/ \E t \in tokens : TokenExpires(t)
    \/ ServerRestarts

AccountsSpec == AccountsInit /\ [][AccountsNext]_accountVars

-----------------------------------------------------------------------------
(* handleAccountSave's promise "the username and role stay untouched"        *)
(* (account.go:159), as far as the code keeps it: a registered user has the  *)
(* name and role an administrator last gave, unless an administrator saved   *)
(* the user between an account save's read and its write.                    *)
RoleKept ==
    \A id \in UserIds \ {Admin} :
        Exists(id) /\ id \notin raced => <<users[id].name, users[id].role>> = given[id]

(* The memberships and the channels of a user come from one form, unless the *)
(* second of the two writes is still to come, failed, or another request's   *)
(* came in between (SetUserGroups, then SetUserChannelOptOuts; for a new     *)
(* user CreateUser's INSERT, then its subscription to every group).          *)
PrefsFromOneForm ==
    \A id \in UserIds :
        \/ users[id].groupsBy = users[id].channelsBy
        \/ id \in torn
        \/ \E c \in Callers : call[c].id = id /\ call[c].step = "channels"

(* A reset link sets one password (ConsumePasswordReset), unless two         *)
(* submissions of it were both past the lookup before either marked it used. *)
LinkSpentOnce == \A t \in 1..MaxTokens : spent[t] > 1 => t \in doubled
=============================================================================
