----------------------------- MODULE AprsProofs -----------------------------
(***************************************************************************)
(* Proofs about the components MCAprs checks side by side: the user        *)
(* directory behind the web UI (Accounts), the outbound APRS messages that *)
(* wait for an acknowledgment (AprsOut), the station hub (AprsHub) and the *)
(* KISS stream of the radio session (AprsSession).  Each has its own       *)
(* inductive invariant and its own specification; they share no variable.  *)
(***************************************************************************)
EXTENDS Accounts, AprsOut, AprsHub, AprsSession, FiniteSetTheorems, WellFoundedInduction, TLAPS

-----------------------------------------------------------------------------
(***************************************************************************)
(* The directory of users.                                                 *)
(***************************************************************************)
Names == UserNames \cup {"none", "admin"}
Rows == [name : Names, role : UserRoles, groupsBy : Nat, channelsBy : Nat]
Requests == [op : {"idle", "account", "edit", "prefs", "create", "forgot", "reset", "on"},
             step : {"idle", "update", "groups", "insert", "subscribe", "aprs", "channels",
                     "prune", "issue", "mark", "password"},
             id : UserIds \cup {0}, name : Names, role : UserRoles,
             token : 0 .. MaxTokens, number : Nat]
Tokens == [n : 1 .. MaxTokens, id : UserIds, state : {"live", "expired", "used"}]

AccountsShape ==
    /\ users \in [UserIds -> Rows] /\ call \in [Callers -> Requests]
    /\ given \in [UserIds -> Names \X UserRoles]
    /\ tokens \subseteq Tokens /\ spent \in [1 .. MaxTokens -> Nat] /\ calls \in Nat

(* An id an administrator has once given a name to: AUTOINCREMENT never gives *)
(* it out again.                                                              *)
Once(id) == id = Admin \/ given[id][1] # "none"

(* A request about to insert a row has a name for it, and any other in flight *)
(* has a user.                                                                *)
Named(c) ==
    /\ call[c].step = "insert" => call[c].name \in UserNames
    /\ call[c].step \notin {"idle", "insert"} => call[c].id \in UserIds

(* Rows, requests and tokens refer to ids of that kind only.                  *)
IdsOnce ==
    /\ \A id \in UserIds :
          /\ Exists(id) => Once(id)
          /\ \A c \in Callers : call[c].id = id => Once(id)
          /\ \A t \in tokens : t.id = id => Once(id)
    /\ \A c \in Callers : Named(c)

Saving(c) == call[c].op = "account" /\ call[c].step = "update"

(* What an account save is about to write back is what the administrator gave *)
(* last, unless the user was edited since it was read or is gone.             *)
SavesGiven ==
    \A c \in Callers, id \in UserIds \ {Admin} :
        Saving(c) /\ call[c].id = id /\ Exists(id) /\ id \notin raced
        => <<call[c].name, call[c].role>> = given[id]

AtChannels(id) == {c \in Callers : call[c].step = "channels" /\ call[c].id = id}

(* The one request between the two preference writes of a user has written    *)
(* the memberships that are there.                                            *)
OneAtChannels ==
    \A id \in UserIds \ torn : Exists(id) =>
        \A c \in AtChannels(id) : /\ \A d \in AtChannels(id) : d = c
                                  /\ call[c].number = users[id].groupsBy

Resetting(n) == {c \in Callers : call[c].step \in {"mark", "password"} /\ call[c].token = n}
Live(n) == \E t \in tokens : t.n = n /\ t.state = "live"

(* Unless two submissions held a token at once, one at most is past the       *)
(* lookup; it has not set a password yet, and once it has marked the token     *)
(* nobody can look it up again.                                                *)
OneResets ==
    \A n \in (1 .. MaxTokens) \ doubled :
        /\ \A c \in Resetting(n) :
              /\ \A d \in Resetting(n) : d = c
              /\ spent[n] = 0
              /\ call[c].step = "password" => ~ Live(n)
        /\ spent[n] <= 1 /\ (spent[n] = 1 => ~ Live(n))

AccountsInv == /\ AccountsShape /\ IdsOnce /\ RoleKept /\ SavesGiven
               /\ OneAtChannels /\ PrefsFromOneForm /\ OneResets

LEMMA IdFacts == Admin \in UserIds /\ 0 \notin UserIds /\ NoUser \in Rows /\ NoCall \in Requests
<1>1. Admin \in UserIds /\ 0 \notin UserIds
  <2> DEFINE n == Cardinality(UserIds)
  <2>1. n \in Nat /\ UserIds = 1 .. n /\ 2 \in UserIds
    BY AccountsAssumption
  <2> HIDE DEF n
  <2> QED BY <2>1 DEF Admin
<1>2. "" \in UserRoles
  BY AccountsAssumption
<1>7. MaxTokens \in Nat
  BY AccountsAssumption
<1>3. "none" \in Names
  BY DEF Names
<1>4. NoUser \in Rows
  BY <1>2, <1>3 DEF NoUser, Rows
<1>5. 0 \in 0 .. MaxTokens
  BY <1>7
<1>6. NoCall \in Requests
  BY <1>2, <1>3, <1>5 DEF NoCall, Requests
<1> QED BY <1>1, <1>4, <1>6

LEMMA IdleFields ==
    /\ NoCall.step = "idle" /\ NoCall.op = "idle" /\ NoCall.id = 0 /\ NoCall.token = 0
    /\ NoUser.name = "none" /\ NoUser.groupsBy = NoUser.channelsBy
<1>1. NoCall.step = "idle"
  BY DEF NoCall
<1>2. NoCall.op = "idle"
  BY DEF NoCall
<1>3. NoCall.id = 0
  BY DEF NoCall
<1>4. NoCall.token = 0
  BY DEF NoCall
<1>5. NoUser.name = "none"
  BY DEF NoUser
<1>6. NoUser.groupsBy = NoUser.channelsBy
  BY DEF NoUser
<1> QED BY <1>1, <1>2, <1>3, <1>4, <1>5, <1>6

(* How a request goes on, ends and begins.                                    *)
LEMMA GoesToMoves ==
    ASSUME AccountsShape, NEW c \in Callers, NEW step, GoesTo(c, step),
           step \in {"groups", "aprs", "channels", "issue", "password"}
    PROVE  /\ call' \in [Callers -> Requests]
           /\ \A d \in Callers \ {c} : call'[d] = call[d]
           /\ call'[c].step = step /\ call'[c].op = "on" /\ call'[c].id = call[c].id
           /\ call'[c].token = call[c].token /\ call'[c].number = call[c].number
<1> DEFINE r == [call[c] EXCEPT !.step = step, !.op = "on", !.name = "none", !.role = ""]
<1>1. call[c] \in Requests
  BY DEF AccountsShape
<1>2. "none" \in Names /\ "" \in UserRoles
  BY AccountsAssumption DEF Names
<1>3. /\ r \in Requests /\ r.step = step /\ r.op = "on" /\ r.id = call[c].id
      /\ r.token = call[c].token /\ r.number = call[c].number
  BY <1>1, <1>2 DEF Requests
<1>4. call' = [call EXCEPT ![c] = r]
  <2>1. call' = [call EXCEPT ![c].step = step, ![c].op = "on", ![c].name = "none",
                             ![c].role = ""]
    BY DEF GoesTo
  <2>2. DOMAIN call = Callers
    BY DEF AccountsShape
  <2> DEFINE c1 == [call EXCEPT ![c].step = step]
             c2 == [c1 EXCEPT ![c].op = "on"]
             c3 == [c2 EXCEPT ![c].name = "none"]
             c4 == [c3 EXCEPT ![c].role = ""]
             r1 == [call[c] EXCEPT !.step = step]
             r2 == [r1 EXCEPT !.op = "on"]
             r3 == [r2 EXCEPT !.name = "none"]
             r4 == [r3 EXCEPT !.role = ""]
  <2>3. call' = c4 /\ r = r4
    BY <2>1
  <2>4. c1 = [call EXCEPT ![c] = r1] /\ DOMAIN c1 = Callers /\ c1[c] = r1
    BY <2>2
  <2>5. c2 = [call EXCEPT ![c] = r2] /\ DOMAIN c2 = Callers /\ c2[c] = r2
    <3> HIDE DEF c1, r1
    <3> QED BY <2>2, <2>4
  <2>6. c3 = [call EXCEPT ![c] = r3] /\ DOMAIN c3 = Callers /\ c3[c] = r3
    <3> HIDE DEF c2, r2
    <3> QED BY <2>2, <2>5
  <2>7. c4 = [call EXCEPT ![c] = r4]
    <3> HIDE DEF c3, r3
    <3> QED BY <2>2, <2>6
  <2> HIDE DEF c4, r4, r
  <2> QED BY <2>3, <2>7
<1> HIDE DEF r
<1> QED BY <1>3, <1>4 DEF AccountsShape

LEMMA EndsMoves ==
    ASSUME AccountsShape, NEW c \in Callers, Ends(c)
    PROVE  /\ call' \in [Callers -> Requests]
           /\ \A d \in Callers \ {c} : call'[d] = call[d]
           /\ call'[c] = NoCall
BY IdFacts DEF Ends, AccountsShape

LEMMA BeginsMoves ==
    ASSUME AccountsShape, NEW c \in Callers, NEW r \in Requests, Begins(c, r)
    PROVE  /\ call' \in [Callers -> Requests] /\ calls' \in Nat /\ call[c] = NoCall
           /\ \A d \in Callers \ {c} : call'[d] = call[d]
           /\ call'[c].step = r.step /\ call'[c].op = r.op /\ call'[c].id = r.id
           /\ call'[c].name = r.name /\ call'[c].role = r.role
           /\ call'[c].token = r.token
<1> DEFINE q == [r EXCEPT !.number = calls + 1]
<1>0. calls + 1 \in Nat
  BY DEF AccountsShape
<1>1. q \in Requests /\ q.step = r.step /\ q.op = r.op /\ q.id = r.id /\ q.name = r.name
      /\ q.role = r.role /\ q.token = r.token
  BY <1>0 DEF Requests
<1>2. call' = [call EXCEPT ![c] = q] /\ call[c] = NoCall /\ calls' = calls + 1
  BY DEF Begins
<1> HIDE DEF q
<1> QED BY <1>0, <1>1, <1>2 DEF AccountsShape

-----------------------------------------------------------------------------
(* Each part of the invariant, under what leaves it alone.                    *)
LEMMA IdsKept ==
    ASSUME AccountsInv,
           \A id \in UserIds : Exists(id)' => Exists(id) \/ Once(id)',
           \A id \in UserIds : Once(id) => Once(id)',
           \A c \in Callers, id \in UserIds :
               call'[c].id = id => call[c].id = id \/ Once(id)',
           \A t \in tokens', id \in UserIds :
               t.id = id => (\E s \in tokens : s.id = id) \/ Once(id)',
           \A c \in Callers : call'[c] = call[c] \/ Named(c)'
    PROVE  IdsOnce'
<1>1. \A c \in Callers : Named(c)'
  BY DEF AccountsInv, IdsOnce, Named
<1> QED BY <1>1 DEF AccountsInv, IdsOnce

LEMMA RolesKept ==
    ASSUME AccountsInv, given' = given, raced \subseteq raced',
           \A id \in UserIds : users'[id].name = users[id].name
                               /\ users'[id].role = users[id].role,
           \A c \in Callers : Saving(c)' =>
               \/ call'[c] = call[c]
               \/ \A id \in UserIds : call'[c].id = id =>
                      call'[c].name = users[id].name /\ call'[c].role = users[id].role
    PROVE  RoleKept' /\ SavesGiven'
<1>1. \A id \in UserIds : Exists(id)' <=> Exists(id)
  BY DEF Exists
<1>2. RoleKept'
  BY <1>1 DEF AccountsInv, RoleKept
<1>3. SavesGiven'
  <2>1. SUFFICES ASSUME NEW c \in Callers, NEW id \in UserIds \ {Admin}, Saving(c)',
                        call'[c].id = id, Exists(id), id \notin raced
                 PROVE  <<call'[c].name, call'[c].role>> = given[id]
    BY <1>1 DEF SavesGiven
  <2>2. CASE call'[c] = call[c]
    <3>1. Saving(c) /\ call[c].id = id
      BY <2>1, <2>2 DEF Saving
    <3> QED BY <2>1, <2>2, <3>1 DEF AccountsInv, SavesGiven
  <2>3. CASE call'[c].name = users[id].name /\ call'[c].role = users[id].role
    BY <2>1, <2>3 DEF AccountsInv, RoleKept
  <2> QED BY <2>1, <2>2, <2>3
<1> QED BY <1>2, <1>3

LEMMA PrefsKept ==
    ASSUME AccountsInv, torn \subseteq torn',
           \A id \in UserIds : /\ users'[id].groupsBy = users[id].groupsBy
                               /\ users'[id].channelsBy = users[id].channelsBy
                               /\ Exists(id)' => Exists(id),
           \A c \in Callers : (call'[c].step = "channels" \/ call[c].step = "channels")
                              => \/ call'[c] = call[c]
                                 \/ /\ call'[c].step # "channels"
                                    /\ call[c].id \in UserIds => call[c].id \in torn'
    PROVE  OneAtChannels' /\ PrefsFromOneForm'
<1>1. \A id \in UserIds \ torn' : AtChannels(id)' = AtChannels(id)
  BY DEF AtChannels
<1>2. \A id \in UserIds \ torn' : \A c \in AtChannels(id) : call'[c] = call[c]
  BY DEF AtChannels
<1>3. OneAtChannels'
  BY <1>1, <1>2 DEF AccountsInv, OneAtChannels
<1>4. PrefsFromOneForm'
  <2>1. SUFFICES ASSUME NEW id \in UserIds, id \notin torn',
                        users[id].groupsBy # users[id].channelsBy
                 PROVE  \E c \in Callers : call'[c].id = id /\ call'[c].step = "channels"
    BY DEF PrefsFromOneForm
  <2>2. PICK c \in Callers : call[c].id = id /\ call[c].step = "channels"
    BY <2>1 DEF AccountsInv, PrefsFromOneForm
  <2>3. call'[c] = call[c]
    BY <2>1, <2>2
  <2> QED BY <2>2, <2>3
<1> QED BY <1>3, <1>4

LEMMA ResetsKept ==
    ASSUME AccountsInv, spent' = spent, doubled \subseteq doubled',
           \A n \in 1 .. MaxTokens : Live(n)' => Live(n),
           \A c \in Callers : call'[c].step \in {"mark", "password"} => call'[c] = call[c]
    PROVE  OneResets'
<1>1. \A n \in 1 .. MaxTokens : Resetting(n)' \subseteq Resetting(n)
  BY DEF Resetting
<1>2. \A n \in 1 .. MaxTokens : \A c \in Resetting(n)' : call'[c] = call[c]
  BY DEF Resetting
<1> QED BY <1>1, <1>2 DEF AccountsInv, OneResets

(* A step that only moves requests: none of them gets to a preference write   *)
(* or to a reset, none leaves a preference write.                             *)
LEMMA RequestsMove ==
    ASSUME AccountsInv, call' \in [Callers -> Requests], calls' \in Nat,
           UNCHANGED <<users, given, tokens, raced, torn, spent, doubled>>,
           NEW c \in Callers, \A d \in Callers \ {c} : call'[d] = call[d],
           call[c].step # "channels",
           call'[c].step \notin {"channels", "mark", "password"},
           Named(c)',
           Saving(c)' => \A id \in UserIds : call'[c].id = id =>
               call'[c].name = users[id].name /\ call'[c].role = users[id].role,
           \A id \in UserIds : call'[c].id = id => call[c].id = id \/ Once(id)
    PROVE  AccountsInv'
<1>1. AccountsShape'
  BY DEF AccountsInv, AccountsShape
<1>2. \A id \in UserIds : (Exists(id)' <=> Exists(id)) /\ (Once(id)' <=> Once(id))
  BY DEF Exists, Once
<1>3. IdsOnce'
  BY <1>2, IdsKept
<1>4. RoleKept' /\ SavesGiven'
  BY RolesKept
<1>5. OneAtChannels' /\ PrefsFromOneForm'
  BY <1>2, PrefsKept
<1>6. OneResets'
  BY ResetsKept DEF Live
<1> QED BY <1>1, <1>3, <1>4, <1>5, <1>6 DEF AccountsInv

-----------------------------------------------------------------------------
(* The steps, one lemma for each group of like steps.                         *)
LEMMA FailureKeeps ==
    ASSUME AccountsInv, NEW c \in Callers, StatementFails(c)
    PROVE  AccountsInv'
<1> USE DEF StatementFails
<1>1. /\ call' \in [Callers -> Requests] /\ \A d \in Callers \ {c} : call'[d] = call[d]
      /\ call'[c] = NoCall
  BY EndsMoves DEF AccountsInv
<1>2. call'[c].step = "idle" /\ call'[c].op = "idle" /\ call'[c].id = 0
  BY <1>1, IdleFields
<1>3. \A id \in UserIds : (Exists(id)' <=> Exists(id)) /\ (Once(id)' <=> Once(id))
  BY DEF Exists, Once
<1>4. torn \subseteq torn' /\ (call[c].step = "channels" /\ call[c].id \in UserIds
                               => call[c].id \in torn')
  BY DEF Leaves
<1>5. AccountsShape'
  BY <1>1 DEF AccountsInv, AccountsShape
<1>6. IdsOnce'
  <2>1. Named(c)'
    BY <1>2 DEF Named
  <2> QED BY <1>1, <1>2, <1>3, <2>1, IdsKept, IdFacts
<1>7. RoleKept' /\ SavesGiven'
  BY <1>1, <1>2, RolesKept DEF Saving
<1>8. OneAtChannels' /\ PrefsFromOneForm'
  BY <1>1, <1>2, <1>3, <1>4, PrefsKept
<1>9. OneResets'
  BY <1>1, <1>2, ResetsKept DEF Live
<1> QED BY <1>5, <1>6, <1>7, <1>8, <1>9 DEF AccountsInv

LEMMA RequestsBegin ==
    ASSUME AccountsInv, NEW c \in Callers,
           \/ AccountSave(c) \/ UserEdit(c) \/ UserCreate(c) \/ Forgot(c)
    PROVE  AccountsInv'
<1>0. AccountsShape
  BY DEF AccountsInv
<1>1. CASE AccountSave(c)
  <2>1. PICK name \in UserNames, id \in UserIds :
           /\ id \in IdOf(name)
           /\ Begins(c, [NoCall EXCEPT !.op = "account", !.step = "update", !.id = id,
                             !.name = users[id].name, !.role = users[id].role])
    BY <1>1 DEF AccountSave, IdOf
  <2> DEFINE r == [NoCall EXCEPT !.op = "account", !.step = "update", !.id = id,
                             !.name = users[id].name, !.role = users[id].role]
  <2>2. id \in UserIds /\ Exists(id) /\ users[id].name \in Names /\ users[id].role \in UserRoles
    BY <1>0, <2>1, AccountsAssumption DEF IdOf, Exists, AccountsShape, Rows
  <2>3. /\ r \in Requests /\ r.step = "update" /\ r.op = "account" /\ r.id = id
        /\ r.name = users[id].name /\ r.role = users[id].role
    BY <2>2, IdFacts DEF Requests, NoCall
  <2>4. Begins(c, r)
    BY <2>1
  <2> HIDE DEF r
  <2>5. /\ call' \in [Callers -> Requests] /\ calls' \in Nat /\ call[c] = NoCall
        /\ \A d \in Callers \ {c} : call'[d] = call[d]
        /\ call'[c].step = r.step /\ call'[c].op = r.op /\ call'[c].id = r.id
        /\ call'[c].name = r.name /\ call'[c].role = r.role
    BY <1>0, <2>3, <2>4, BeginsMoves
  <2>6. Once(id)
    BY <2>2 DEF AccountsInv, IdsOnce
  <2>7. UNCHANGED <<users, given, tokens, raced, torn, spent, doubled>>
    BY <1>1 DEF AccountSave
  <2>9. Named(c)'
    BY <2>3, <2>5 DEF Named
  <2> QED BY <2>3, <2>5, <2>6, <2>7, <2>9, IdleFields, RequestsMove
<1>2. CASE UserEdit(c)
  <2>1. PICK id \in UserIds, op \in {"edit", "prefs"} :
           /\ Exists(id)
           /\ Begins(c, [NoCall EXCEPT !.op = op, !.id = id,
                          !.step = IF op = "edit" THEN "update" ELSE "groups"])
    BY <1>2 DEF UserEdit
  <2> DEFINE r == [NoCall EXCEPT !.op = op, !.id = id,
                          !.step = IF op = "edit" THEN "update" ELSE "groups"]
  <2>3. /\ r \in Requests /\ r.step \in {"update", "groups"} /\ r.op \in {"edit", "prefs"}
        /\ r.id = id
    BY IdFacts DEF Requests, NoCall
  <2>4. Begins(c, r)
    BY <2>1
  <2> HIDE DEF r
  <2>5. /\ call' \in [Callers -> Requests] /\ calls' \in Nat /\ call[c] = NoCall
        /\ \A d \in Callers \ {c} : call'[d] = call[d]
        /\ call'[c].step = r.step /\ call'[c].op = r.op /\ call'[c].id = r.id
    BY <1>0, <2>3, <2>4, BeginsMoves
  <2>6. Once(id)
    BY <2>1 DEF AccountsInv, IdsOnce
  <2>7. UNCHANGED <<users, given, tokens, raced, torn, spent, doubled>>
    BY <1>2 DEF UserEdit
  <2>8. ~ Saving(c)'
    BY <2>3, <2>5 DEF Saving
  <2>9. Named(c)'
    BY <2>3, <2>5 DEF Named
  <2> QED BY <2>3, <2>5, <2>6, <2>7, <2>8, <2>9, IdleFields, RequestsMove
<1>3. CASE UserCreate(c)
  <2>1. PICK name \in UserNames, role \in UserRoles :
           Begins(c, [NoCall EXCEPT !.op = "create", !.step = "insert", !.name = name,
                          !.role = role])
    BY <1>3 DEF UserCreate
  <2> DEFINE r == [NoCall EXCEPT !.op = "create", !.step = "insert", !.name = name,
                          !.role = role]
  <2>2. name \in Names
    BY DEF Names
  <2>3. /\ r \in Requests /\ r.step = "insert" /\ r.op = "create" /\ r.id = 0
        /\ r.name = name
    BY <2>2, IdFacts DEF Requests, NoCall
  <2>4. Begins(c, r)
    BY <2>1
  <2> HIDE DEF r
  <2>5. /\ call' \in [Callers -> Requests] /\ calls' \in Nat /\ call[c] = NoCall
        /\ \A d \in Callers \ {c} : call'[d] = call[d]
        /\ call'[c].step = r.step /\ call'[c].op = r.op /\ call'[c].id = r.id
        /\ call'[c].name = r.name
    BY <1>0, <2>3, <2>4, BeginsMoves
  <2>7. UNCHANGED <<users, given, tokens, raced, torn, spent, doubled>>
    BY <1>3 DEF UserCreate
  <2>8. ~ Saving(c)'
    BY <2>3, <2>5 DEF Saving
  <2>9. Named(c)'
    BY <2>3, <2>5 DEF Named
  <2> QED BY <2>3, <2>5, <2>7, <2>8, <2>9, IdleFields, IdFacts, RequestsMove
<1>4. CASE Forgot(c)
  <2>1. PICK name \in UserNames, id \in UserIds :
           /\ id \in IdOf(name)
           /\ Begins(c, [NoCall EXCEPT !.op = "forgot", !.step = "prune", !.id = id])
    BY <1>4 DEF Forgot, IdOf
  <2> DEFINE r == [NoCall EXCEPT !.op = "forgot", !.step = "prune", !.id = id]
  <2>2. id \in UserIds /\ Exists(id)
    BY <2>1, AccountsAssumption DEF IdOf, Exists
  <2>3. r \in Requests /\ r.step = "prune" /\ r.op = "forgot" /\ r.id = id
    BY <2>2, IdFacts DEF Requests, NoCall
  <2>4. Begins(c, r)
    BY <2>1
  <2> HIDE DEF r
  <2>5. /\ call' \in [Callers -> Requests] /\ calls' \in Nat /\ call[c] = NoCall
        /\ \A d \in Callers \ {c} : call'[d] = call[d]
        /\ call'[c].step = r.step /\ call'[c].op = r.op /\ call'[c].id = r.id
    BY <1>0, <2>3, <2>4, BeginsMoves
  <2>6. Once(id)
    BY <2>2 DEF AccountsInv, IdsOnce
  <2>7. UNCHANGED <<users, given, tokens, raced, torn, spent, doubled>>
    BY <1>4 DEF Forgot
  <2>8. ~ Saving(c)'
    BY <2>3, <2>5 DEF Saving
  <2>9. Named(c)'
    BY <2>3, <2>5 DEF Named
  <2> QED BY <2>3, <2>5, <2>6, <2>7, <2>8, <2>9, IdleFields, RequestsMove
<1> QED BY <1>1, <1>2, <1>3, <1>4

(* A request that goes on to a step that writes nothing of its own, or ends.  *)
LEMMA MovesOn ==
    ASSUME AccountsInv, NEW c \in Callers, call[c].step # "channels",
           UNCHANGED <<users, calls, given, tokens, raced, torn, spent, doubled>>,
           \/ GoesTo(c, "aprs") /\ call[c].id \in UserIds
           \/ GoesTo(c, "groups") /\ call[c].id \in UserIds
           \/ Ends(c)
    PROVE  AccountsInv'
<1>0. AccountsShape /\ calls' \in Nat
  BY DEF AccountsInv, AccountsShape
<1>1. ASSUME NEW step \in {"aprs", "groups"}, GoesTo(c, step), call[c].id \in UserIds
      PROVE  AccountsInv'
  <2>1. /\ call' \in [Callers -> Requests] /\ \A d \in Callers \ {c} : call'[d] = call[d]
        /\ call'[c].step = step /\ call'[c].op = "on" /\ call'[c].id = call[c].id
    BY <1>0, <1>1, GoesToMoves
  <2>2. ~ Saving(c)'
    BY <2>1 DEF Saving
  <2>3. Named(c)'
    BY <1>1, <2>1 DEF Named
  <2> QED BY <1>0, <2>1, <2>2, <2>3, RequestsMove
<1>2. CASE Ends(c)
  <2>1. /\ call' \in [Callers -> Requests] /\ \A d \in Callers \ {c} : call'[d] = call[d]
        /\ call'[c] = NoCall
    BY <1>0, <1>2, EndsMoves
  <2>2. call'[c].step = "idle" /\ call'[c].id = 0
    BY <2>1, IdleFields
  <2>3. ~ Saving(c)'
    BY <2>2 DEF Saving
  <2>4. Named(c)'
    BY <2>2 DEF Named
  <2> QED BY <1>0, <2>1, <2>2, <2>3, <2>4, IdFacts, RequestsMove
<1> QED BY <1>1, <1>2

(* Tokens only lose their life, and requests only move short of a reset.      *)
LEMMA TokensFade ==
    ASSUME AccountsInv, call' \in [Callers -> Requests], tokens' \subseteq Tokens,
           \A t \in tokens' : \E s \in tokens : s.n = t.n /\ s.id = t.id
                                               /\ (t.state = "live" => s.state = "live"),
           UNCHANGED <<users, calls, given, raced, torn, spent, doubled>>,
           \A c \in Callers : \/ call'[c] = call[c]
                              \/ /\ call'[c].step = "issue" /\ call'[c].id = call[c].id
                                 /\ call[c].step = "prune"
    PROVE  AccountsInv'
<1>1. AccountsShape'
  BY DEF AccountsInv, AccountsShape
<1>2. \A id \in UserIds : (Exists(id)' <=> Exists(id)) /\ (Once(id)' <=> Once(id))
  BY DEF Exists, Once
<1>3. IdsOnce'
  <2>1. \A c \in Callers : Named(c)'
    BY DEF AccountsInv, IdsOnce, Named
  <2> QED BY <1>2, <2>1, IdsKept
<1>4. RoleKept' /\ SavesGiven'
  BY RolesKept DEF Saving
<1>5. OneAtChannels' /\ PrefsFromOneForm'
  BY <1>2, PrefsKept
<1>6. \A n \in 1 .. MaxTokens : Live(n)' => Live(n)
  BY DEF Live
<1>7. OneResets'
  BY <1>6, ResetsKept
<1> QED BY <1>1, <1>3, <1>4, <1>5, <1>7 DEF AccountsInv

LEMMA PruneKeeps ==
    ASSUME AccountsInv, NEW c \in Callers, PruneTokens(c)
    PROVE  AccountsInv'
<1>1. /\ call' \in [Callers -> Requests] /\ \A d \in Callers \ {c} : call'[d] = call[d]
      /\ call'[c].step = "issue" /\ call'[c].id = call[c].id
  BY GoesToMoves DEF AccountsInv, PruneTokens
<1>2. tokens' \subseteq tokens /\ call[c].step = "prune"
  BY DEF PruneTokens
<1>3. tokens' \subseteq Tokens
  BY <1>2 DEF AccountsInv, AccountsShape
<1>4. UNCHANGED <<users, calls, given, raced, torn, spent, doubled>>
  BY DEF PruneTokens
<1> QED BY <1>1, <1>2, <1>3, <1>4, TokensFade

LEMMA ExpiryKeeps ==
    ASSUME AccountsInv, NEW t \in tokens, TokenExpires(t)
    PROVE  AccountsInv'
<1> DEFINE u == [t EXCEPT !.state = "expired"]
<1>1. t \in Tokens /\ call \in [Callers -> Requests] /\ tokens \subseteq Tokens
  BY DEF AccountsInv, AccountsShape
<1>2. u \in Tokens /\ u.n = t.n /\ u.id = t.id /\ u.state = "expired"
  BY <1>1 DEF Tokens
<1>3. tokens' = (tokens \ {t}) \cup {u}
  BY DEF TokenExpires
<1>4. UNCHANGED <<users, call, calls, given, raced, torn, spent, doubled>>
  BY DEF TokenExpires
<1> HIDE DEF u
<1> QED BY <1>1, <1>2, <1>3, <1>4, TokensFade

(* A token is issued under a number nobody has used or holds.                 *)
LEMMA IssueKeeps ==
    ASSUME AccountsInv, NEW c \in Callers, IssueToken(c)
    PROVE  AccountsInv'
<1>1. /\ call' \in [Callers -> Requests] /\ \A d \in Callers \ {c} : call'[d] = call[d]
      /\ call'[c] = NoCall /\ call[c].step = "issue"
  BY EndsMoves DEF AccountsInv, IssueToken
<1>2. call'[c].step = "idle" /\ call'[c].id = 0 /\ call'[c].op = "idle"
  BY <1>1, IdleFields
<1>3. UNCHANGED <<users, calls, given, raced, torn, spent, doubled>>
  BY DEF IssueToken
<1>4. CASE tokens' = tokens
  BY <1>1, <1>3, <1>4, MovesOn DEF IssueToken
<1>5. CASE ~ UNCHANGED tokens
  <2>1. PICK n \in 1 .. MaxTokens :
           /\ spent[n] = 0 /\ \A t \in tokens : t.n # n
           /\ \A d \in Callers : call[d].token # n
           /\ tokens' = tokens \cup {[n |-> n, id |-> call[c].id, state |-> "live"]}
    BY <1>5 DEF IssueToken
  <2> DEFINE u == [n |-> n, id |-> call[c].id, state |-> "live"]
  <2>2. tokens' = tokens \cup {u} /\ u.n = n /\ u.id = call[c].id
    BY <2>1
  <2>3. call[c].id \in UserIds
    BY <1>1 DEF AccountsInv, IdsOnce, Named
  <2> QED
    <3>1. u \in Tokens
      BY <2>3 DEF Tokens
    <3> HIDE DEF u
    <3>2. AccountsShape'
      BY <1>1, <1>3, <2>2, <3>1 DEF AccountsInv, AccountsShape
    <3>3. \A id \in UserIds : (Exists(id)' <=> Exists(id)) /\ (Once(id)' <=> Once(id))
      BY <1>3 DEF Exists, Once
    <3>4. Once(call[c].id)
      BY <2>3 DEF AccountsInv, IdsOnce
    <3>5. IdsOnce'
      <4>1. Named(c)'
        BY <1>2 DEF Named
      <4> QED BY <1>1, <1>2, <2>2, <3>3, <3>4, <4>1, IdsKept, IdFacts
    <3>6. RoleKept' /\ SavesGiven'
      BY <1>1, <1>2, <1>3, RolesKept DEF Saving
    <3>7. OneAtChannels' /\ PrefsFromOneForm'
      BY <1>1, <1>2, <1>3, <3>3, PrefsKept
    <3>8. OneResets'
      <4>1. \A m \in (1 .. MaxTokens) \ {n} : Live(m)' => Live(m)
        BY <2>2 DEF Live
      <4>2. \A m \in 1 .. MaxTokens : Resetting(m)' \subseteq Resetting(m)
        BY <1>1, <1>2 DEF Resetting
      <4>3. Resetting(n) = {}
        BY <2>1 DEF Resetting
      <4>4. \A m \in 1 .. MaxTokens : \A d \in Resetting(m)' : call'[d] = call[d]
        BY <1>1, <1>2 DEF Resetting
      <4>5. SUFFICES ASSUME NEW m \in (1 .. MaxTokens) \ doubled
                     PROVE  /\ \A d \in Resetting(m)' :
                                  /\ \A e \in Resetting(m)' : e = d
                                  /\ spent[m] = 0
                                  /\ call'[d].step = "password" => ~ Live(m)'
                            /\ spent[m] <= 1 /\ (spent[m] = 1 => ~ Live(m)')
        BY <1>3 DEF OneResets
      <4>6. CASE m = n
        BY <2>1, <4>2, <4>3, <4>6
      <4>7. CASE m # n
        BY <4>1, <4>2, <4>4, <4>7 DEF AccountsInv, OneResets
      <4> QED BY <4>6, <4>7
    <3> QED BY <3>2, <3>5, <3>6, <3>7, <3>8 DEF AccountsInv
<1> QED BY <1>4, <1>5

(* A submission passes the lookup only while the token is live, so one that   *)
(* has marked it is not there any more, and one that has not is seen.         *)
LEMMA LookupKeeps ==
    ASSUME AccountsInv, NEW c \in Callers, ResetLooksUp(c)
    PROVE  AccountsInv'
<1>1. PICK t \in tokens :
         /\ t.state = "live"
         /\ Begins(c, [NoCall EXCEPT !.op = "reset", !.step = "mark", !.id = t.id,
                                     !.token = t.n])
         /\ doubled' = IF \E d \in Callers : call[d].step = "mark" /\ call[d].token = t.n
                       THEN doubled \cup {t.n} ELSE doubled
  BY DEF ResetLooksUp
<1> DEFINE r == [NoCall EXCEPT !.op = "reset", !.step = "mark", !.id = t.id, !.token = t.n]
<1>2. t \in Tokens /\ AccountsShape /\ MaxTokens \in Nat
  BY AccountsAssumption DEF AccountsInv, AccountsShape
<1>3. t.n \in 1 .. MaxTokens /\ t.n \in 0 .. MaxTokens /\ t.id \in UserIds
  BY <1>2 DEF Tokens
<1>4. r \in Requests /\ r.step = "mark" /\ r.op = "reset" /\ r.id = t.id /\ r.token = t.n
  BY <1>3, IdFacts DEF Requests, NoCall
<1>5. Begins(c, r)
  BY <1>1
<1> HIDE DEF r
<1>6. /\ call' \in [Callers -> Requests] /\ calls' \in Nat /\ call[c] = NoCall
      /\ \A d \in Callers \ {c} : call'[d] = call[d]
      /\ call'[c].step = "mark" /\ call'[c].op = "reset" /\ call'[c].id = t.id
      /\ call'[c].token = t.n
  BY <1>2, <1>4, <1>5, BeginsMoves
<1>7. UNCHANGED <<users, given, tokens, raced, torn, spent>>
  BY DEF ResetLooksUp
<1>8. \A id \in UserIds : (Exists(id)' <=> Exists(id)) /\ (Once(id)' <=> Once(id))
  BY <1>7 DEF Exists, Once
<1>9. call[c].step = "idle"
  BY <1>6, IdleFields
<1>10. AccountsShape'
  BY <1>2, <1>6, <1>7 DEF AccountsShape
<1>11. IdsOnce'
  <2>1. Named(c)'
    BY <1>3, <1>6 DEF Named
  <2>2. Once(t.id)
    BY <1>3 DEF AccountsInv, IdsOnce
  <2> QED BY <1>3, <1>6, <1>7, <1>8, <2>1, <2>2, IdsKept
<1>12. RoleKept' /\ SavesGiven'
  BY <1>6, <1>7, RolesKept DEF Saving
<1>13. OneAtChannels' /\ PrefsFromOneForm'
  BY <1>6, <1>7, <1>8, <1>9, PrefsKept
<1>14. OneResets'
  <2>1. doubled \subseteq doubled'
    BY <1>1
  <2>2. \A n \in 1 .. MaxTokens : Live(n)' <=> Live(n)
    BY <1>7 DEF Live
  <2>3. SUFFICES ASSUME NEW n \in (1 .. MaxTokens) \ doubled'
                 PROVE  /\ \A d \in Resetting(n)' :
                              /\ \A e \in Resetting(n)' : e = d
                              /\ spent[n] = 0
                              /\ call'[d].step = "password" => ~ Live(n)'
                        /\ spent[n] <= 1 /\ (spent[n] = 1 => ~ Live(n)')
    BY <1>7 DEF OneResets
  <2>4. /\ \A d \in Resetting(n) : /\ \A e \in Resetting(n) : e = d
                                   /\ spent[n] = 0
                                   /\ call[d].step = "password" => ~ Live(n)
        /\ spent[n] <= 1 /\ (spent[n] = 1 => ~ Live(n))
    BY <2>1 DEF AccountsInv, OneResets
  <2>5. CASE n # t.n
    <3>1. Resetting(n)' \subseteq Resetting(n) /\ \A d \in Resetting(n)' : call'[d] = call[d]
      BY <1>6, <2>5 DEF Resetting
    <3> QED BY <2>2, <2>4, <3>1
  <2>6. CASE n = t.n
    <3>1. Live(n)
      BY <1>1, <2>6 DEF Live
    <3>2. \A d \in Callers : ~ (call[d].step = "mark" /\ call[d].token = n)
      BY <1>1, <2>3, <2>6
    <3>3. Resetting(n) = {}
      BY <2>4, <3>1, <3>2 DEF Resetting
    <3>4. \A d \in Resetting(n)' : d = c
      BY <1>6, <3>3 DEF Resetting
    <3>5. spent[n] \in Nat
      BY <1>2 DEF AccountsShape
    <3>6. spent[n] = 0
      BY <2>4, <3>1, <3>5
    <3> QED BY <1>6, <3>4, <3>6
  <2> QED BY <2>5, <2>6
<1> QED BY <1>10, <1>11, <1>12, <1>13, <1>14 DEF AccountsInv

LEMMA MarkKeeps ==
    ASSUME AccountsInv, NEW c \in Callers, MarkToken(c)
    PROVE  AccountsInv'
<1>1. /\ call' \in [Callers -> Requests] /\ \A d \in Callers \ {c} : call'[d] = call[d]
      /\ call'[c].step = "password" /\ call'[c].op = "on" /\ call'[c].id = call[c].id
      /\ call'[c].token = call[c].token
  BY GoesToMoves DEF AccountsInv, MarkToken
<1>2. call[c].step = "mark" /\ UNCHANGED <<users, calls, given, raced, torn, spent, doubled>>
  BY DEF MarkToken
<1>3. \A u \in tokens' : \E t \in tokens :
         u = IF t.n = call[c].token THEN [t EXCEPT !.state = "used"] ELSE t
  BY DEF MarkToken
<1>4. \A u \in tokens' : u \in Tokens /\ \E t \in tokens :
         /\ u.n = t.n /\ u.id = t.id /\ (u.state = "live" => t.state = "live")
         /\ u.state = "live" => u.n # call[c].token
  <2>1. SUFFICES ASSUME NEW u \in tokens'
                 PROVE  u \in Tokens /\ \E t \in tokens :
                            /\ u.n = t.n /\ u.id = t.id
                            /\ (u.state = "live" => t.state = "live")
                            /\ u.state = "live" => u.n # call[c].token
    OBVIOUS
  <2>2. PICK t \in tokens : u = IF t.n = call[c].token THEN [t EXCEPT !.state = "used"] ELSE t
    BY <1>3
  <2>3. t \in Tokens
    BY DEF AccountsInv, AccountsShape
  <2>4. CASE t.n = call[c].token
    <3> DEFINE v == [t EXCEPT !.state = "used"]
    <3>1. v \in Tokens /\ v.n = t.n /\ v.id = t.id /\ v.state = "used"
      BY <2>3 DEF Tokens
    <3>2. u = v
      BY <2>2, <2>4
    <3> HIDE DEF v
    <3> QED BY <3>1, <3>2
  <2>5. CASE t.n # call[c].token
    BY <2>2, <2>3, <2>5
  <2> QED BY <2>4, <2>5
<1>5. \A id \in UserIds : (Exists(id)' <=> Exists(id)) /\ (Once(id)' <=> Once(id))
  BY <1>2 DEF Exists, Once
<1>6. AccountsShape'
  BY <1>1, <1>2, <1>4 DEF AccountsInv, AccountsShape
<1>7. IdsOnce'
  <2>1. Named(c)'
    BY <1>1, <1>2 DEF AccountsInv, IdsOnce, Named
  <2> QED BY <1>1, <1>4, <1>5, <2>1, IdsKept
<1>8. RoleKept' /\ SavesGiven'
  BY <1>1, <1>2, RolesKept DEF Saving
<1>9. OneAtChannels' /\ PrefsFromOneForm'
  BY <1>1, <1>2, <1>5, PrefsKept
<1>10. OneResets'
  <2>1. \A n \in 1 .. MaxTokens : Live(n)' => Live(n) /\ n # call[c].token
    BY <1>4 DEF Live
  <2>2. \A n \in 1 .. MaxTokens : Resetting(n)' = Resetting(n)
    BY <1>1, <1>2 DEF Resetting
  <2>3. \A n \in 1 .. MaxTokens : \A d \in Resetting(n) :
           call'[d] = call[d] \/ (d = c /\ n = call[c].token)
    BY <1>1 DEF Resetting
  <2> QED BY <1>2, <2>1, <2>2, <2>3 DEF AccountsInv, OneResets
<1> QED BY <1>6, <1>7, <1>8, <1>9, <1>10 DEF AccountsInv

LEMMA PasswordKeeps ==
    ASSUME AccountsInv, NEW c \in Callers, SetUserPassword(c)
    PROVE  AccountsInv'
<1>1. /\ call' \in [Callers -> Requests] /\ \A d \in Callers \ {c} : call'[d] = call[d]
      /\ call'[c] = NoCall
  BY EndsMoves DEF AccountsInv, SetUserPassword
<1>2. call'[c].step = "idle" /\ call'[c].id = 0 /\ call'[c].op = "idle"
  BY <1>1, IdleFields
<1>3. call[c].step = "password" /\ UNCHANGED <<users, calls, given, raced, torn, tokens, doubled>>
  BY DEF SetUserPassword
<1>4. CASE spent' = spent
  BY <1>1, <1>3, <1>4, MovesOn DEF SetUserPassword
<1>5. CASE spent' = [spent EXCEPT ![call[c].token] = spent[call[c].token] + 1]
  <2> DEFINE k == call[c].token
  <2>0. spent \in [1 .. MaxTokens -> Nat] /\ spent' = [spent EXCEPT ![k] = spent[k] + 1]
    BY <1>5 DEF AccountsInv, AccountsShape
  <2>1. spent' \in [1 .. MaxTokens -> Nat]
    <3> HIDE DEF k
    <3>1. CASE k \in 1 .. MaxTokens
      <4>1. spent[k] + 1 \in Nat
        BY <2>0, <3>1
      <4> QED BY <2>0, <4>1
    <3>2. CASE k \notin 1 .. MaxTokens
      BY <2>0, <3>2
    <3> QED BY <3>1, <3>2
  <2>2. AccountsShape'
    BY <1>1, <1>3, <2>1 DEF AccountsInv, AccountsShape
  <2>3. \A id \in UserIds : (Exists(id)' <=> Exists(id)) /\ (Once(id)' <=> Once(id))
    BY <1>3 DEF Exists, Once
  <2>4. IdsOnce'
    <3>1. Named(c)'
      BY <1>2 DEF Named
    <3> QED BY <1>1, <1>2, <1>3, <2>3, <3>1, IdsKept, IdFacts
  <2>5. RoleKept' /\ SavesGiven'
    BY <1>1, <1>2, <1>3, RolesKept DEF Saving
  <2>6. OneAtChannels' /\ PrefsFromOneForm'
    BY <1>1, <1>2, <1>3, <2>3, PrefsKept
  <2>7. OneResets'
    <3>1. \A n \in 1 .. MaxTokens : Live(n)' <=> Live(n)
      BY <1>3 DEF Live
    <3>2. \A n \in 1 .. MaxTokens :
             /\ Resetting(n)' = Resetting(n) \ {c}
             /\ \A d \in Resetting(n)' : call'[d] = call[d]
      BY <1>1, <1>2 DEF Resetting
    <3>3. SUFFICES ASSUME NEW n \in (1 .. MaxTokens) \ doubled
                   PROVE  /\ \A d \in Resetting(n)' :
                                /\ \A e \in Resetting(n)' : e = d
                                /\ spent'[n] = 0
                                /\ call'[d].step = "password" => ~ Live(n)'
                          /\ spent'[n] <= 1 /\ (spent'[n] = 1 => ~ Live(n)')
      BY <1>3 DEF OneResets
    <3>4. /\ \A d \in Resetting(n) : /\ \A e \in Resetting(n) : e = d
                                     /\ spent[n] = 0
                                     /\ call[d].step = "password" => ~ Live(n)
          /\ spent[n] <= 1 /\ (spent[n] = 1 => ~ Live(n))
      BY DEF AccountsInv, OneResets
    <3>5. CASE n # k
      <4>1. spent'[n] = spent[n]
        <5> HIDE DEF k
        <5> QED BY <2>0, <3>5
      <4> QED BY <3>1, <3>2, <3>4, <4>1
    <3>6. CASE n = k
      <4>1. c \in Resetting(n)
        BY <1>3, <3>6 DEF Resetting
      <4>2. Resetting(n)' = {} /\ spent[n] = 0 /\ ~ Live(n)
        BY <1>3, <3>2, <3>4, <4>1
      <4>3. spent'[n] = 1
        <5> HIDE DEF k
        <5> QED BY <2>0, <3>6, <4>2
      <4> QED BY <3>1, <4>2, <4>3
    <3> QED BY <3>5, <3>6
  <2> QED BY <2>2, <2>4, <2>5, <2>6, <2>7 DEF AccountsInv
<1> QED BY <1>4, <1>5 DEF SetUserPassword

(* A row gets a new name and role, new memberships or new channels.           *)
LEMMA RowRenamed ==
    ASSUME AccountsShape, NEW id \in UserIds, NEW name \in Names, NEW role \in UserRoles,
           users' = [users EXCEPT ![id].name = name, ![id].role = role]
    PROVE  /\ users' \in [UserIds -> Rows] /\ \A j \in UserIds \ {id} : users'[j] = users[j]
           /\ users'[id].name = name /\ users'[id].role = role
           /\ users'[id].groupsBy = users[id].groupsBy
           /\ users'[id].channelsBy = users[id].channelsBy
<1> DEFINE r1 == [users[id] EXCEPT !.name = name]
           r == [r1 EXCEPT !.role = role]
           u1 == [users EXCEPT ![id].name = name]
           u == [u1 EXCEPT ![id].role = role]
<1>1. users[id] \in Rows /\ users \in [UserIds -> Rows]
  BY DEF AccountsShape
<1>2. r1 \in Rows /\ r1.name = name /\ r1.groupsBy = users[id].groupsBy
      /\ r1.channelsBy = users[id].channelsBy
  BY <1>1 DEF Rows
<1>3. u1 = [users EXCEPT ![id] = r1]
  BY <1>1
<1>4. users' = u
  OBVIOUS
<1>5. r \in Rows /\ r.name = name /\ r.role = role /\ r.groupsBy = users[id].groupsBy
      /\ r.channelsBy = users[id].channelsBy
  <2> HIDE DEF r1
  <2> QED BY <1>2 DEF Rows
<1>6. u1 \in [UserIds -> Rows] /\ u1[id] = r1 /\ \A j \in UserIds \ {id} : u1[j] = users[j]
  <2> HIDE DEF r1, u1
  <2> QED BY <1>1, <1>2, <1>3
<1>7. u = [u1 EXCEPT ![id] = r]
  <2> HIDE DEF r1, u1
  <2> QED BY <1>6
<1> HIDE DEF r1, r, u1, u
<1> QED BY <1>4, <1>5, <1>6, <1>7

LEMMA RowPreferred ==
    ASSUME AccountsShape, NEW id \in UserIds, NEW n \in Nat,
           \/ users' = [users EXCEPT ![id].groupsBy = n]
           \/ users' = [users EXCEPT ![id].channelsBy = n]
    PROVE  /\ users' \in [UserIds -> Rows] /\ \A j \in UserIds \ {id} : users'[j] = users[j]
           /\ users'[id].name = users[id].name /\ users'[id].role = users[id].role
           /\ users' = [users EXCEPT ![id].groupsBy = n] =>
                 users'[id].groupsBy = n /\ users'[id].channelsBy = users[id].channelsBy
           /\ users' = [users EXCEPT ![id].channelsBy = n] =>
                 users'[id].channelsBy = n /\ users'[id].groupsBy = users[id].groupsBy
<1>1. users[id] \in Rows /\ users \in [UserIds -> Rows]
  BY DEF AccountsShape
<1>2. ASSUME NEW v, users' = [users EXCEPT ![id] = v], v \in Rows, v.name = users[id].name,
             v.role = users[id].role
      PROVE  /\ users' \in [UserIds -> Rows] /\ \A j \in UserIds \ {id} : users'[j] = users[j]
             /\ users'[id].name = users[id].name /\ users'[id].role = users[id].role
             /\ users'[id] = v
  BY <1>1, <1>2
<1>3. CASE users' = [users EXCEPT ![id].groupsBy = n]
  <2> DEFINE v == [users[id] EXCEPT !.groupsBy = n]
  <2>1. /\ v \in Rows /\ v.name = users[id].name /\ v.role = users[id].role
        /\ v.groupsBy = n /\ v.channelsBy = users[id].channelsBy
    BY <1>1 DEF Rows
  <2>2. users' = [users EXCEPT ![id] = v]
    BY <1>3
  <2>3. users' = [users EXCEPT ![id].channelsBy = n] => users'[id].channelsBy = n
                                                        /\ users'[id].groupsBy = users[id].groupsBy
    BY <1>1 DEF Rows
  <2> HIDE DEF v
  <2> QED BY <1>2, <2>1, <2>2, <2>3
<1>4. CASE users' = [users EXCEPT ![id].channelsBy = n]
  <2> DEFINE v == [users[id] EXCEPT !.channelsBy = n]
  <2>1. /\ v \in Rows /\ v.name = users[id].name /\ v.role = users[id].role
        /\ v.channelsBy = n /\ v.groupsBy = users[id].groupsBy
    BY <1>1 DEF Rows
  <2>2. users' = [users EXCEPT ![id] = v]
    BY <1>4
  <2>3. users' = [users EXCEPT ![id].groupsBy = n] => users'[id].groupsBy = n
                                                      /\ users'[id].channelsBy = users[id].channelsBy
    BY <1>1 DEF Rows
  <2> HIDE DEF v
  <2> QED BY <1>2, <2>1, <2>2, <2>3
<1> QED BY <1>3, <1>4

LEMMA UpdateKeeps ==
    ASSUME AccountsInv, NEW c \in Callers, UpdateUser(c)
    PROVE  AccountsInv'
<1> DEFINE id == call[c].id
<1>0. AccountsShape /\ call[c] \in Requests /\ call[c].step = "update"
  BY DEF AccountsInv, AccountsShape, UpdateUser
<1>1. id \in UserIds
  BY <1>0 DEF AccountsInv, IdsOnce, Named
<1>2. UNCHANGED <<tokens, calls, torn, spent, doubled>> /\ raced \subseteq raced'
  BY DEF UpdateUser
<1>3. PICK name \in Names, role \in UserRoles :
         /\ Writes(c, name, role)
         /\ \/ /\ call[c].op = "account" /\ name = call[c].name /\ role = call[c].role
               /\ given' = given /\ raced' = raced
            \/ /\ call[c].op = "edit" /\ name \in UserNames
               /\ given' = IF Regular(id) /\ ~ Taken(name, id)
                           THEN [given EXCEPT ![id] = <<name, role>>] ELSE given
               /\ \A d \in Callers \ {c} : Saving(d) /\ call[d].id = id => id \in raced'
  <2>1. CASE call[c].op = "account" /\ Writes(c, call[c].name, call[c].role)
             /\ UNCHANGED <<given, raced>>
    <3>1. call[c].name \in Names /\ call[c].role \in UserRoles
      BY <1>0 DEF Requests
    <3> QED BY <2>1, <3>1
  <2>2. CASE /\ call[c].op = "edit"
             /\ \E name \in UserNames, role \in UserRoles :
                   /\ Writes(c, name, role)
                   /\ given' = IF Regular(id) /\ ~ Taken(name, id)
                               THEN [given EXCEPT ![id] = <<name, role>>] ELSE given
             /\ raced' = IF \E d \in Callers \ {c} : call[d].op = "account" /\ call[d].id = id
                                                         /\ call[d].step = "update"
                         THEN raced \cup {id} ELSE raced
    BY <2>2 DEF Names, Saving
  <2> QED BY <2>1, <2>2 DEF UpdateUser
<1> HIDE DEF id
<1>4. CASE Regular(id) /\ ~ Taken(name, id)
  <2>1. /\ users' = [users EXCEPT ![id].name = name, ![id].role = role]
        /\ GoesTo(c, "groups") \/ GoesTo(c, "aprs")
    BY <1>3, <1>4 DEF Writes, id
  <2>2. /\ call' \in [Callers -> Requests] /\ \A d \in Callers \ {c} : call'[d] = call[d]
        /\ call'[c].step \in {"groups", "aprs"} /\ call'[c].op = "on" /\ call'[c].id = id
    BY <1>0, <2>1, GoesToMoves DEF id
  <2>3. /\ users' \in [UserIds -> Rows] /\ \A j \in UserIds \ {id} : users'[j] = users[j]
        /\ users'[id].name = name /\ users'[id].role = role
        /\ users'[id].groupsBy = users[id].groupsBy
        /\ users'[id].channelsBy = users[id].channelsBy
    BY <1>0, <1>1, <2>1, RowRenamed
  <2>4. id # Admin /\ Exists(id)
    BY <1>4 DEF Regular
  <2>5. Once(id)
    BY <1>1, <2>4 DEF AccountsInv, IdsOnce
  <2>6. /\ given' \in [UserIds -> Names \X UserRoles]
        /\ \A j \in UserIds \ {id} : given'[j] = given[j]
        /\ given'[id] = given[id] \/ (given'[id] = <<name, role>> /\ name \in UserNames)
    <3>1. given \in [UserIds -> Names \X UserRoles]
      BY <1>0 DEF AccountsShape
    <3> QED BY <1>1, <1>3, <1>4, <3>1
  <2>7. \A j \in UserIds : Once(j) => Once(j)'
    <3>0. "none" \notin UserNames
      BY AccountsAssumption
    <3>1. given'[id] = given[id] \/ given'[id][1] # "none"
      <4>1. given'[id] = <<name, role>> => given'[id][1] = name
        OBVIOUS
      <4> QED BY <2>6, <3>0, <4>1
    <3> QED BY <2>6, <3>1 DEF Once
  <2>8. AccountsShape'
    BY <1>0, <1>2, <2>2, <2>3, <2>6 DEF AccountsShape
  <2>9. \A j \in UserIds : Exists(j)' => Exists(j)
    BY <2>3, <2>4 DEF Exists
  <2>10. IdsOnce'
    <3>1. Named(c)'
      BY <1>1, <2>2 DEF Named
    <3> QED BY <1>2, <2>2, <2>7, <2>9, <3>1, IdsKept DEF id
  <2>11. <<users'[id].name, users'[id].role>> = given'[id] \/ id \in raced'
    <3>1. CASE call[c].op = "edit"
      <4>1. given'[id] = <<name, role>>
        BY <1>0, <1>1, <1>3, <1>4, <3>1 DEF AccountsShape
      <4> QED BY <2>3, <4>1
    <3>2. CASE call[c].op # "edit"
      <4>1. Saving(c) /\ name = call[c].name /\ role = call[c].role /\ given' = given
            /\ raced' = raced
        BY <1>0, <1>3, <3>2 DEF Saving
      <4>2. id \notin raced => <<call[c].name, call[c].role>> = given[id]
        BY <1>1, <2>4, <4>1 DEF AccountsInv, SavesGiven, id
      <4> QED BY <2>3, <4>1, <4>2
    <3> QED BY <3>1, <3>2
  <2>12. RoleKept'
    <3>1. SUFFICES ASSUME NEW j \in UserIds \ {Admin}, Exists(j)', j \notin raced'
                   PROVE  <<users'[j].name, users'[j].role>> = given'[j]
      BY DEF RoleKept
    <3>2. CASE j = id
      BY <2>11, <3>1, <3>2
    <3>3. CASE j # id
      BY <1>2, <2>3, <2>6, <2>9, <3>1, <3>3 DEF AccountsInv, RoleKept
    <3> QED BY <3>2, <3>3
  <2>13. SavesGiven'
    <3>1. SUFFICES ASSUME NEW d \in Callers, NEW j \in UserIds \ {Admin}, Saving(d)',
                          call'[d].id = j, Exists(j)', j \notin raced'
                   PROVE  <<call'[d].name, call'[d].role>> = given'[j]
      BY DEF SavesGiven
    <3>2. d # c /\ call'[d] = call[d]
      BY <2>2, <3>1 DEF Saving
    <3>3. Saving(d) /\ call[d].id = j
      BY <3>1, <3>2 DEF Saving
    <3>4. given'[j] = given[j]
      BY <1>3, <2>6, <3>1, <3>2, <3>3
    <3> QED BY <1>2, <2>9, <3>1, <3>2, <3>3, <3>4 DEF AccountsInv, SavesGiven
  <2>14. OneAtChannels' /\ PrefsFromOneForm'
    BY <1>0, <1>2, <2>2, <2>3, <2>9, PrefsKept
  <2>15. OneResets'
    BY <1>2, <2>2, ResetsKept DEF Live
  <2> QED BY <2>8, <2>10, <2>12, <2>13, <2>14, <2>15 DEF AccountsInv
<1>5. CASE ~ (Regular(id) /\ ~ Taken(name, id))
  <2>1. Ends(c) /\ users' = users /\ given' = given
    BY <1>3, <1>5 DEF Writes, id
  <2>2. /\ call' \in [Callers -> Requests] /\ \A d \in Callers \ {c} : call'[d] = call[d]
        /\ call'[c].step = "idle" /\ call'[c].op = "idle" /\ call'[c].id = 0
    BY <1>0, <2>1, EndsMoves, IdleFields
  <2>3. AccountsShape'
    BY <1>0, <1>2, <2>1, <2>2 DEF AccountsShape
  <2>4. \A j \in UserIds : (Exists(j)' <=> Exists(j)) /\ (Once(j)' <=> Once(j))
    BY <2>1 DEF Exists, Once
  <2>5. IdsOnce'
    <3>1. Named(c)'
      BY <2>2 DEF Named
    <3> QED BY <1>2, <2>2, <2>4, <3>1, IdsKept, IdFacts
  <2>6. RoleKept' /\ SavesGiven'
    BY <1>2, <2>1, <2>2, RolesKept DEF Saving
  <2>7. OneAtChannels' /\ PrefsFromOneForm'
    BY <1>0, <1>2, <2>1, <2>2, <2>4, PrefsKept
  <2>8. OneResets'
    BY <1>2, <2>2, ResetsKept DEF Live
  <2> QED BY <2>3, <2>5, <2>6, <2>7, <2>8 DEF AccountsInv
<1> QED BY <1>4, <1>5

(* AUTOINCREMENT: nothing in the directory refers to the id a new row gets.   *)
LEMMA InsertKeeps ==
    ASSUME AccountsInv, NEW c \in Callers, InsertUser(c)
    PROVE  AccountsInv'
<1>0. AccountsShape /\ call[c] \in Requests /\ call[c].step = "insert"
  BY DEF AccountsInv, AccountsShape, InsertUser
<1>1. UNCHANGED <<tokens, calls, raced, spent, doubled>>
  BY DEF InsertUser
<1>2. CASE Ends(c) /\ UNCHANGED <<users, given, torn>>
  BY <1>0, <1>1, <1>2, MovesOn
<1>3. CASE ~ (Ends(c) /\ UNCHANGED <<users, given, torn>>)
  <2> DEFINE new(id) == [NoUser EXCEPT !.name = call[c].name, !.role = call[c].role,
                                       !.channelsBy = call[c].number]
             next(id) == [call EXCEPT ![c].step = "subscribe", ![c].id = id, ![c].op = "on",
                                      ![c].name = "none", ![c].role = ""]
  <2>1. PICK id \in UserIds :
           /\ given[id][1] = "none" /\ id # Admin
           /\ users' = [users EXCEPT ![id] = new(id)]
           /\ given' = [given EXCEPT ![id] = <<call[c].name, call[c].role>>]
           /\ call' = next(id) /\ torn' = torn \cup {id}
    BY <1>3 DEF InsertUser
  <2>2. /\ call[c].name \in Names /\ call[c].role \in UserRoles /\ call[c].number \in Nat
        /\ call[c].name \in UserNames
    BY <1>0 DEF Requests, AccountsInv, IdsOnce, Named
  <2> DEFINE row == new(id)
  <2>3. /\ row \in Rows /\ row.name = call[c].name /\ row.role = call[c].role
    BY <2>2, IdFacts DEF Rows, NoUser
  <2>4. users' = [users EXCEPT ![id] = row]
    BY <2>1
  <2> HIDE DEF row
  <2>5. /\ users' \in [UserIds -> Rows] /\ \A j \in UserIds \ {id} : users'[j] = users[j]
        /\ users'[id] = row
    BY <1>0, <2>3, <2>4 DEF AccountsShape
  <2>6. /\ given' \in [UserIds -> Names \X UserRoles]
        /\ \A j \in UserIds \ {id} : given'[j] = given[j]
        /\ given'[id] = <<call[c].name, call[c].role>>
    BY <1>0, <2>1, <2>2 DEF AccountsShape
  <2>7. /\ call' \in [Callers -> Requests] /\ \A d \in Callers \ {c} : call'[d] = call[d]
        /\ call'[c].step = "subscribe" /\ call'[c].op = "on" /\ call'[c].id = id
    <3> DEFINE r1 == [call[c] EXCEPT !.step = "subscribe"]
               r2 == [r1 EXCEPT !.id = id]
               r3 == [r2 EXCEPT !.op = "on"]
               r4 == [r3 EXCEPT !.name = "none"]
               r5 == [r4 EXCEPT !.role = ""]
               c1 == [call EXCEPT ![c].step = "subscribe"]
               c2 == [c1 EXCEPT ![c].id = id]
               c3 == [c2 EXCEPT ![c].op = "on"]
               c4 == [c3 EXCEPT ![c].name = "none"]
               c5 == [c4 EXCEPT ![c].role = ""]
    <3>0. "none" \in Names /\ "" \in UserRoles /\ DOMAIN call = Callers
      BY <1>0, AccountsAssumption DEF Names, AccountsShape
    <3>1. call' = c5
      BY <2>1
    <3>2. /\ c1 = [call EXCEPT ![c] = r1] /\ DOMAIN c1 = Callers /\ c1[c] = r1
          /\ r1 \in Requests /\ r1.step = "subscribe"
      BY <1>0, <3>0 DEF Requests
    <3>3. /\ c2 = [call EXCEPT ![c] = r2] /\ DOMAIN c2 = Callers /\ c2[c] = r2
          /\ r2 \in Requests /\ r2.step = "subscribe" /\ r2.id = id
      <4> HIDE DEF c1, r1
      <4> QED BY <3>0, <3>2 DEF Requests
    <3>4. /\ c3 = [call EXCEPT ![c] = r3] /\ DOMAIN c3 = Callers /\ c3[c] = r3
          /\ r3 \in Requests /\ r3.step = "subscribe" /\ r3.id = id /\ r3.op = "on"
      <4> HIDE DEF c2, r2
      <4> QED BY <3>0, <3>3 DEF Requests
    <3>5. /\ c4 = [call EXCEPT ![c] = r4] /\ DOMAIN c4 = Callers /\ c4[c] = r4
          /\ r4 \in Requests /\ r4.step = "subscribe" /\ r4.id = id /\ r4.op = "on"
      <4> HIDE DEF c3, r3
      <4> QED BY <3>0, <3>4 DEF Requests
    <3>6. /\ c5 = [call EXCEPT ![c] = r5]
          /\ r5 \in Requests /\ r5.step = "subscribe" /\ r5.id = id /\ r5.op = "on"
      <4> HIDE DEF c4, r4
      <4> QED BY <3>0, <3>5 DEF Requests
    <3> HIDE DEF c5, r5
    <3> QED BY <1>0, <3>1, <3>6 DEF AccountsShape
  <2> HIDE DEF new, next
  <2>8. ~ Once(id) /\ ~ Exists(id) /\ \A d \in Callers : call[d].id # id
    <3>1. ~ Once(id)
      BY <2>1 DEF Once
    <3> QED BY <3>1 DEF AccountsInv, IdsOnce
  <2>9. AccountsShape'
    BY <1>0, <1>1, <2>5, <2>6, <2>7 DEF AccountsShape
  <2>10. \A j \in UserIds \ {id} : (Exists(j)' <=> Exists(j)) /\ (Once(j)' <=> Once(j))
    BY <2>5, <2>6 DEF Exists, Once
  <2>11. Once(id)'
    <3>1. call[c].name # "none"
      BY <2>2, AccountsAssumption
    <3>2. given'[id][1] = call[c].name
      BY <2>6
    <3> QED BY <3>1, <3>2 DEF Once
  <2>12. IdsOnce'
    <3>1. Named(c)'
      BY <2>7 DEF Named
    <3> QED BY <1>1, <2>7, <2>10, <2>11, <3>1, IdsKept
  <2>13. RoleKept'
    <3>1. <<users'[id].name, users'[id].role>> = given'[id]
      BY <2>3, <2>5, <2>6
    <3> QED BY <1>1, <2>5, <2>6, <2>10, <3>1 DEF AccountsInv, RoleKept
  <2>14. SavesGiven'
    <3>1. SUFFICES ASSUME NEW d \in Callers, NEW j \in UserIds \ {Admin}, Saving(d)',
                          call'[d].id = j, Exists(j)', j \notin raced'
                   PROVE  <<call'[d].name, call'[d].role>> = given'[j]
      BY DEF SavesGiven
    <3>2. d # c /\ call'[d] = call[d]
      BY <2>7, <3>1 DEF Saving
    <3>3. Saving(d) /\ call[d].id = j /\ j # id
      BY <2>8, <3>1, <3>2 DEF Saving
    <3> QED BY <1>1, <2>6, <2>10, <3>1, <3>2, <3>3 DEF AccountsInv, SavesGiven
  <2>15. \A j \in UserIds : AtChannels(j)' = AtChannels(j)
    BY <1>0, <2>7 DEF AtChannels
  <2>16. \A j \in UserIds : \A d \in AtChannels(j) : call'[d] = call[d] /\ j # id
    BY <1>0, <2>7, <2>8 DEF AtChannels
  <2>17. OneAtChannels'
    BY <2>1, <2>5, <2>10, <2>15, <2>16 DEF AccountsInv, OneAtChannels
  <2>18. PrefsFromOneForm'
    <3>1. SUFFICES ASSUME NEW j \in UserIds, j \notin torn',
                          users'[j].groupsBy # users'[j].channelsBy
                   PROVE  \E d \in Callers : call'[d].id = j /\ call'[d].step = "channels"
      BY DEF PrefsFromOneForm
    <3>2. j # id /\ users'[j] = users[j] /\ j \notin torn
      BY <2>1, <2>5, <3>1
    <3>3. PICK d \in Callers : call[d].id = j /\ call[d].step = "channels"
      BY <3>1, <3>2 DEF AccountsInv, PrefsFromOneForm
    <3> QED BY <1>0, <2>7, <3>3
  <2>19. OneResets'
    BY <1>1, <2>7, ResetsKept DEF Live
  <2> QED BY <2>9, <2>12, <2>13, <2>14, <2>17, <2>18, <2>19 DEF AccountsInv
<1> QED BY <1>2, <1>3

(* CreateUser's subscription makes the new row whole, unless it finds another *)
(* request's preferences there.                                               *)
LEMMA SubscribeKeeps ==
    ASSUME AccountsInv, NEW c \in Callers, SubscribeUser(c)
    PROVE  AccountsInv'
<1>0. AccountsShape /\ call[c] \in Requests /\ call[c].step = "subscribe"
  BY DEF AccountsInv, AccountsShape, SubscribeUser
<1>1. PICK id \in UserIds : id = call[c].id /\ call[c].number \in Nat
  BY <1>0 DEF AccountsInv, IdsOnce, Named, Requests
<1>2. UNCHANGED <<tokens, calls, given, raced, spent, doubled>>
  BY DEF SubscribeUser
<1>3. CASE UNCHANGED <<users, torn>> /\ (GoesTo(c, "aprs") \/ Ends(c))
  BY <1>0, <1>1, <1>2, <1>3, MovesOn
<1>4. CASE /\ users' = [users EXCEPT ![id].groupsBy = call[c].number]
           /\ torn' = IF AsInserted(c) THEN torn \ {id} ELSE torn \cup {id}
           /\ GoesTo(c, "aprs")
  <2>1. /\ call' \in [Callers -> Requests] /\ \A d \in Callers \ {c} : call'[d] = call[d]
        /\ call'[c].step = "aprs" /\ call'[c].op = "on" /\ call'[c].id = id
    BY <1>0, <1>1, <1>4, GoesToMoves
  <2>2. /\ users' \in [UserIds -> Rows] /\ \A j \in UserIds \ {id} : users'[j] = users[j]
        /\ users'[id].name = users[id].name /\ users'[id].role = users[id].role
        /\ users'[id].groupsBy = call[c].number
        /\ users'[id].channelsBy = users[id].channelsBy
    <3> DEFINE n == call[c].number
    <3>1. users' = [users EXCEPT ![id].groupsBy = n] /\ n \in Nat
      BY <1>1, <1>4
    <3> HIDE DEF n
    <3>2. users'[id].groupsBy = n /\ users'[id].channelsBy = users[id].channelsBy
      BY <1>0, <3>1, RowPreferred
    <3>3. /\ users' \in [UserIds -> Rows] /\ \A j \in UserIds \ {id} : users'[j] = users[j]
          /\ users'[id].name = users[id].name /\ users'[id].role = users[id].role
      BY <1>0, <3>1, RowPreferred
    <3> QED BY <3>2, <3>3 DEF n
  <2>3. AccountsShape'
    BY <1>0, <1>2, <2>1, <2>2 DEF AccountsShape
  <2>4. \A j \in UserIds : (Exists(j)' <=> Exists(j)) /\ (Once(j)' <=> Once(j))
    BY <1>2, <2>2 DEF Exists, Once
  <2>5. IdsOnce'
    <3>1. Named(c)'
      BY <2>1 DEF Named
    <3> QED BY <1>1, <1>2, <2>1, <2>4, <3>1, IdsKept
  <2>6. RoleKept' /\ SavesGiven'
    BY <1>2, <2>1, <2>2, RolesKept DEF Saving
  <2>7. \A j \in UserIds : AtChannels(j)' = AtChannels(j)
                            /\ \A d \in AtChannels(j) : call'[d] = call[d]
    BY <1>0, <2>1 DEF AtChannels
  <2>8. \A j \in UserIds \ {id} : j \notin torn' => j \notin torn
    BY <1>4
  <2>9. id \notin torn' => AtChannels(id) = {} /\ users[id].channelsBy = call[c].number
    <3>1. ASSUME id \notin torn' PROVE AsInserted(c)
      BY <1>4, <3>1
    <3> QED BY <1>0, <1>1, <3>1 DEF AsInserted, AtChannels
  <2>10. OneAtChannels'
    <3>1. SUFFICES ASSUME NEW j \in UserIds \ torn', Exists(j)
                   PROVE  \A d \in AtChannels(j)' :
                              /\ \A e \in AtChannels(j)' : e = d
                              /\ call'[d].number = users'[j].groupsBy
      BY <2>4 DEF OneAtChannels
    <3>2. CASE j = id
      BY <2>7, <2>9, <3>1, <3>2
    <3>3. CASE j # id
      BY <2>2, <2>7, <2>8, <3>1, <3>3 DEF AccountsInv, OneAtChannels
    <3> QED BY <3>2, <3>3
  <2>11. PrefsFromOneForm'
    <3>1. SUFFICES ASSUME NEW j \in UserIds, j \notin torn',
                          users'[j].groupsBy # users'[j].channelsBy
                   PROVE  \E d \in Callers : call'[d].id = j /\ call'[d].step = "channels"
      BY DEF PrefsFromOneForm
    <3>2. j # id
      BY <2>2, <2>9, <3>1
    <3>3. PICK d \in Callers : call[d].id = j /\ call[d].step = "channels"
      BY <2>2, <2>8, <3>1, <3>2 DEF AccountsInv, PrefsFromOneForm
    <3> QED BY <1>0, <2>1, <3>3
  <2>12. OneResets'
    BY <1>2, <2>1, ResetsKept DEF Live
  <2> QED BY <2>3, <2>5, <2>6, <2>10, <2>11, <2>12 DEF AccountsInv
<1> QED BY <1>1, <1>3, <1>4 DEF SubscribeUser

(* The memberships are replaced: of two requests between the two preference   *)
(* writes of a user the second is noticed.                                    *)
LEMMA GroupsKeeps ==
    ASSUME AccountsInv, NEW c \in Callers, SetUserGroups(c)
    PROVE  AccountsInv'
<1>0. AccountsShape /\ call[c] \in Requests /\ call[c].step = "groups"
  BY DEF AccountsInv, AccountsShape, SetUserGroups
<1>1. PICK id \in UserIds : id = call[c].id /\ call[c].number \in Nat
  BY <1>0 DEF AccountsInv, IdsOnce, Named, Requests
<1>2. UNCHANGED <<tokens, calls, given, raced, spent, doubled>>
  BY DEF SetUserGroups
<1>3. CASE Ends(c) /\ UNCHANGED <<users, torn>>
  BY <1>0, <1>2, <1>3, MovesOn
<1>4. CASE /\ users' = IF Exists(id) THEN [users EXCEPT ![id].groupsBy = call[c].number]
                       ELSE users
           /\ GoesTo(c, "channels")
           /\ torn' = IF \E d \in Callers \ {c} :
                           call[d].id = id /\ call[d].step = "channels"
                      THEN torn \cup {id} ELSE torn
  <2>1. /\ call' \in [Callers -> Requests] /\ \A d \in Callers \ {c} : call'[d] = call[d]
        /\ call'[c].step = "channels" /\ call'[c].op = "on" /\ call'[c].id = id
        /\ call'[c].number = call[c].number
    BY <1>0, <1>1, <1>4, GoesToMoves
  <2>2. /\ users' \in [UserIds -> Rows] /\ \A j \in UserIds \ {id} : users'[j] = users[j]
        /\ users'[id].name = users[id].name /\ users'[id].role = users[id].role
        /\ Exists(id) => users'[id].groupsBy = call[c].number
    <3>1. CASE Exists(id)
      <4> DEFINE n == call[c].number
      <4>1. users' = [users EXCEPT ![id].groupsBy = n] /\ n \in Nat
        BY <1>1, <1>4, <3>1
      <4> HIDE DEF n
      <4>2. users'[id].groupsBy = n
        BY <1>0, <1>1, <4>1, RowPreferred
      <4>3. /\ users' \in [UserIds -> Rows] /\ \A j \in UserIds \ {id} : users'[j] = users[j]
            /\ users'[id].name = users[id].name /\ users'[id].role = users[id].role
        BY <1>0, <1>1, <4>1, RowPreferred
      <4> QED BY <4>2, <4>3 DEF n
    <3>2. CASE ~ Exists(id)
      BY <1>0, <1>4, <3>2 DEF AccountsShape
    <3> QED BY <3>1, <3>2
  <2>3. /\ torn \subseteq torn' /\ torn' \subseteq torn \cup {id}
        /\ id \in torn' \/ AtChannels(id) \subseteq {c}
    BY <1>4 DEF AtChannels
  <2>4. AccountsShape'
    BY <1>0, <1>2, <2>1, <2>2 DEF AccountsShape
  <2>5. \A j \in UserIds : (Exists(j)' <=> Exists(j)) /\ (Once(j)' <=> Once(j))
    BY <1>2, <2>2 DEF Exists, Once
  <2>6. IdsOnce'
    <3>1. Named(c)'
      BY <1>1, <2>1 DEF Named
    <3> QED BY <1>2, <2>1, <2>5, <3>1, <1>1, IdsKept
  <2>7. RoleKept' /\ SavesGiven'
    BY <1>2, <2>1, <2>2, RolesKept DEF Saving
  <2>8. \A j \in UserIds \ {id} :
           AtChannels(j)' = AtChannels(j) /\ \A d \in AtChannels(j) : call'[d] = call[d]
    BY <1>0, <2>1 DEF AtChannels
  <2>9. id \notin torn' => AtChannels(id)' = {c}
    BY <2>1, <2>3 DEF AtChannels
  <2>10. OneAtChannels'
    <3>1. SUFFICES ASSUME NEW j \in UserIds \ torn', Exists(j)
                   PROVE  \A d \in AtChannels(j)' :
                              /\ \A e \in AtChannels(j)' : e = d
                              /\ call'[d].number = users'[j].groupsBy
      BY <2>5 DEF OneAtChannels
    <3>2. CASE j = id
      BY <2>1, <2>2, <2>9, <3>1, <3>2
    <3>3. CASE j # id
      BY <2>2, <2>3, <2>8, <3>1, <3>3 DEF AccountsInv, OneAtChannels
    <3> QED BY <3>2, <3>3
  <2>11. PrefsFromOneForm'
    <3>1. SUFFICES ASSUME NEW j \in UserIds, j # id, j \notin torn',
                          users[j].groupsBy # users[j].channelsBy
                   PROVE  \E d \in Callers : call'[d].id = j /\ call'[d].step = "channels"
      BY <2>1, <2>2 DEF PrefsFromOneForm
    <3>2. PICK d \in Callers : call[d].id = j /\ call[d].step = "channels"
      BY <2>3, <3>1 DEF AccountsInv, PrefsFromOneForm
    <3> QED BY <1>0, <2>1, <3>2
  <2>12. OneResets'
    BY <1>2, <2>1, ResetsKept DEF Live
  <2> QED BY <2>4, <2>6, <2>7, <2>10, <2>11, <2>12 DEF AccountsInv
<1> QED BY <1>1, <1>3, <1>4 DEF SetUserGroups

(* The channels are replaced, by the request that wrote the memberships.      *)
LEMMA ChannelsKeeps ==
    ASSUME AccountsInv, NEW c \in Callers, SetUserChannelOptOuts(c)
    PROVE  AccountsInv'
<1>0. AccountsShape /\ call[c] \in Requests /\ call[c].step = "channels" /\ call[c] # NoCall
  BY IdleFields DEF AccountsInv, AccountsShape, SetUserChannelOptOuts
<1>1. PICK id \in UserIds : id = call[c].id /\ call[c].number \in Nat
  BY <1>0 DEF AccountsInv, IdsOnce, Named, Requests
<1>2. Ends(c) /\ UNCHANGED <<tokens, calls, given, raced, spent, doubled>>
  BY DEF SetUserChannelOptOuts
<1>3. CASE torn' = Leaves(c) /\ UNCHANGED users
  <2>1. UNCHANGED <<groups, signedIn>>
    BY DEF SetUserChannelOptOuts
  <2>2. StatementFails(c)
    BY <1>0, <1>2, <1>3, <2>1 DEF StatementFails
  <2> QED BY <2>2, FailureKeeps
<1>4. CASE /\ Regular(id) /\ torn' = torn
           /\ users' = [users EXCEPT ![id].channelsBy = call[c].number]
  <2>1. /\ call' \in [Callers -> Requests] /\ \A d \in Callers \ {c} : call'[d] = call[d]
        /\ call'[c].step = "idle" /\ call'[c].op = "idle" /\ call'[c].id = 0
    BY <1>0, <1>2, EndsMoves, IdleFields
  <2>2. /\ users' \in [UserIds -> Rows] /\ \A j \in UserIds \ {id} : users'[j] = users[j]
        /\ users'[id].name = users[id].name /\ users'[id].role = users[id].role
        /\ users'[id].channelsBy = call[c].number
        /\ users'[id].groupsBy = users[id].groupsBy
    <3> DEFINE n == call[c].number
    <3>1. users' = [users EXCEPT ![id].channelsBy = n] /\ n \in Nat
      BY <1>1, <1>4
    <3> HIDE DEF n
    <3>2. users'[id].channelsBy = n /\ users'[id].groupsBy = users[id].groupsBy
      BY <1>0, <3>1, RowPreferred
    <3>3. /\ users' \in [UserIds -> Rows] /\ \A j \in UserIds \ {id} : users'[j] = users[j]
          /\ users'[id].name = users[id].name /\ users'[id].role = users[id].role
      BY <1>0, <3>1, RowPreferred
    <3> QED BY <3>2, <3>3 DEF n
  <2>3. AccountsShape'
    BY <1>0, <1>2, <2>1, <2>2 DEF AccountsShape
  <2>4. \A j \in UserIds : (Exists(j)' <=> Exists(j)) /\ (Once(j)' <=> Once(j))
    BY <1>2, <2>2 DEF Exists, Once
  <2>5. IdsOnce'
    <3>1. Named(c)'
      BY <2>1 DEF Named
    <3> QED BY <1>2, <2>1, <2>4, <3>1, IdsKept, IdFacts
  <2>6. RoleKept' /\ SavesGiven'
    BY <1>2, <2>1, <2>2, RolesKept DEF Saving
  <2>7. \A j \in UserIds : AtChannels(j)' = AtChannels(j) \ {c}
    BY <2>1 DEF AtChannels
  <2>8. \A j \in UserIds : \A d \in AtChannels(j) \ {c} : call'[d] = call[d]
    BY <2>1 DEF AtChannels
  <2>9. id \notin torn => AtChannels(id) = {c} /\ call[c].number = users[id].groupsBy
    <3>1. c \in AtChannels(id) /\ Exists(id)
      BY <1>0, <1>1, <1>4 DEF AtChannels, Regular
    <3> QED BY <3>1 DEF AccountsInv, OneAtChannels
  <2>10. OneAtChannels'
    <3>1. SUFFICES ASSUME NEW j \in UserIds \ torn, Exists(j)
                   PROVE  \A d \in AtChannels(j)' :
                              /\ \A e \in AtChannels(j)' : e = d
                              /\ call'[d].number = users'[j].groupsBy
      BY <1>4, <2>4 DEF OneAtChannels
    <3>2. CASE j = id
      BY <2>7, <2>9, <3>1, <3>2
    <3>3. CASE j # id
      BY <2>2, <2>7, <2>8, <3>1, <3>3 DEF AccountsInv, OneAtChannels
    <3> QED BY <3>2, <3>3
  <2>11. PrefsFromOneForm'
    <3>1. SUFFICES ASSUME NEW j \in UserIds, j \notin torn,
                          users'[j].groupsBy # users'[j].channelsBy
                   PROVE  \E d \in Callers : call'[d].id = j /\ call'[d].step = "channels"
      BY <1>4 DEF PrefsFromOneForm
    <3>2. j # id /\ users'[j] = users[j]
      BY <2>2, <2>9, <3>1
    <3>3. PICK d \in Callers : call[d].id = j /\ call[d].step = "channels"
      BY <3>1, <3>2 DEF AccountsInv, PrefsFromOneForm
    <3>4. d # c
      BY <1>1, <3>2, <3>3
    <3> QED BY <2>1, <3>3, <3>4
  <2>12. OneResets'
    BY <1>2, <2>1, ResetsKept DEF Live
  <2> QED BY <2>3, <2>5, <2>6, <2>10, <2>11, <2>12 DEF AccountsInv
<1> QED BY <1>1, <1>3, <1>4 DEF SetUserChannelOptOuts

(* A user is deleted, with the tokens of that user.                           *)
LEMMA DeletionKeeps ==
    ASSUME AccountsInv, NEW id \in UserIds, DeleteUser(id)
    PROVE  AccountsInv'
<1>1. /\ users' \in [UserIds -> Rows] /\ \A j \in UserIds \ {id} : users'[j] = users[j]
      /\ users'[id] = NoUser
  BY IdFacts DEF DeleteUser, AccountsInv, AccountsShape
<1>2. /\ tokens' \subseteq tokens /\ raced' = raced \ {id} /\ torn' = torn \ {id}
      /\ UNCHANGED <<call, given, spent, doubled>>
  BY DEF DeleteUser
<1>3. AccountsShape'
  <2>1. calls' \in Nat
    BY DEF DeleteUser, AccountsInv, AccountsShape
  <2> QED BY <1>1, <1>2, <2>1 DEF AccountsInv, AccountsShape
<1>4. ~ Exists(id)' /\ \A j \in UserIds \ {id} : Exists(j)' <=> Exists(j)
  BY <1>1, IdleFields DEF Exists
<1>5. \A j \in UserIds : Once(j)' <=> Once(j)
  BY <1>2 DEF Once
<1>6. IdsOnce'
  BY <1>2, <1>4, <1>5, IdsKept
<1>7. RoleKept'
  BY <1>1, <1>2, <1>4 DEF AccountsInv, RoleKept
<1>8. SavesGiven'
  <2>1. \A d \in Callers : Saving(d)' <=> Saving(d)
    BY <1>2 DEF Saving
  <2> QED BY <1>2, <1>4, <2>1 DEF AccountsInv, SavesGiven
<1>9. OneAtChannels'
  <2>1. \A j \in UserIds : AtChannels(j)' = AtChannels(j)
    BY <1>2 DEF AtChannels
  <2> QED BY <1>1, <1>2, <1>4, <2>1 DEF AccountsInv, OneAtChannels
<1>10. PrefsFromOneForm'
  <2>1. users'[id].groupsBy = users'[id].channelsBy
    BY <1>1, IdleFields
  <2> QED BY <1>1, <1>2, <2>1 DEF AccountsInv, PrefsFromOneForm
<1>11. OneResets'
  BY <1>2, ResetsKept DEF Live
<1> QED BY <1>3, <1>6, <1>7, <1>8, <1>9, <1>10, <1>11 DEF AccountsInv

LEMMA RestartKeeps ==
    ASSUME AccountsInv, ServerRestarts
    PROVE  AccountsInv'
<1>1. /\ call' \in [Callers -> Requests] /\ \A c \in Callers : call'[c] = NoCall
      /\ UNCHANGED <<users, tokens, calls, given, raced, spent, doubled>>
  BY IdFacts DEF ServerRestarts
<1>2. \A c \in Callers : call'[c].step = "idle" /\ call'[c].op = "idle" /\ call'[c].id = 0
  BY <1>1, IdleFields
<1>3. \A id \in UserIds : (Exists(id)' <=> Exists(id)) /\ (Once(id)' <=> Once(id))
  BY <1>1 DEF Exists, Once
<1>4. AccountsShape'
  BY <1>1 DEF AccountsInv, AccountsShape
<1>5. IdsOnce'
  <2>1. \A c \in Callers : Named(c)'
    BY <1>2 DEF Named
  <2> QED BY <1>1, <1>2, <1>3, <2>1, IdsKept, IdFacts
<1>6. RoleKept' /\ SavesGiven'
  BY <1>1, <1>2, RolesKept DEF Saving
<1>7. OneAtChannels' /\ PrefsFromOneForm'
  <2>1. torn \subseteq torn' /\ \A c \in Callers : call[c].step = "channels" =>
           (call[c].id \in UserIds => call[c].id \in torn')
    BY DEF ServerRestarts
  <2> QED BY <1>1, <1>2, <1>3, <2>1, PrefsKept
<1>8. OneResets'
  BY <1>1, <1>2, ResetsKept DEF Live
<1> QED BY <1>4, <1>5, <1>6, <1>7, <1>8 DEF AccountsInv

(* Sessions and groups are none of the invariant's business.                  *)
LEMMA RestKeeps ==
    ASSUME AccountsInv, calls' \in Nat,
           UNCHANGED <<users, tokens, call, given, raced, torn, spent, doubled>>
    PROVE  AccountsInv'
<1>1. AccountsShape'
  BY DEF AccountsInv, AccountsShape
<1>2. \A id \in UserIds : (Exists(id)' <=> Exists(id)) /\ (Once(id)' <=> Once(id))
  BY DEF Exists, Once
<1>3. IdsOnce'
  BY <1>2, IdsKept
<1>4. RoleKept' /\ SavesGiven'
  BY RolesKept
<1>5. OneAtChannels' /\ PrefsFromOneForm'
  BY <1>2, PrefsKept
<1>6. OneResets'
  BY ResetsKept DEF Live
<1> QED BY <1>1, <1>3, <1>4, <1>5, <1>6 DEF AccountsInv

LEMMA Numbers == 2 # Admin /\ 0 <= 1 /\ 0 # 1
BY DEF Admin

LEMMA AccountsBegin == AccountsInit => AccountsInv
<1> SUFFICES ASSUME AccountsInit PROVE AccountsInv
  OBVIOUS
<1>1. PICK name \in UserNames, role \in UserRoles \ {""} :
        /\ users = [id \in UserIds |->
                       IF id = Admin THEN [NoUser EXCEPT !.name = "admin"]
                       ELSE IF id = 2
                       THEN [NoUser EXCEPT !.name = name, !.role = role]
                       ELSE NoUser]
        /\ given = [id \in UserIds |-> IF id = 2 THEN <<name, role>>
                                       ELSE <<"none", "">>]
  BY DEF AccountsInit
<1>2. /\ tokens = {} /\ call = [c \in Callers |-> NoCall] /\ calls = 0
      /\ spent = [t \in 1..MaxTokens |-> 0]
  BY DEF AccountsInit
<1> DEFINE first == [NoUser EXCEPT !.name = "admin"]
           second == [NoUser EXCEPT !.name = name, !.role = role]
<1>3. "none" \in Names /\ "admin" \in Names /\ name \in Names /\ name # "none"
      /\ "" \in UserRoles
  BY AccountsAssumption DEF Names
<1>4. first \in Rows /\ first.groupsBy = first.channelsBy
  BY <1>3, IdFacts DEF Rows, NoUser
<1>5. /\ second \in Rows /\ second.groupsBy = second.channelsBy /\ second.name = name
      /\ second.role = role
  BY <1>3, IdFacts DEF Rows, NoUser
<1>6. users = [id \in UserIds |-> IF id = Admin THEN first ELSE IF id = 2 THEN second ELSE NoUser]
  BY <1>1
<1> HIDE DEF first, second
<1>7. AccountsShape
  BY <1>1, <1>2, <1>3, <1>4, <1>5, <1>6, IdFacts DEF AccountsShape
<1>8. \A c \in Callers : call[c].step = "idle" /\ call[c].op = "idle" /\ call[c].id = 0
  BY <1>2, IdleFields
<1>9. \A id \in UserIds \ {Admin, 2} : ~ Exists(id)
  BY <1>6, IdleFields DEF Exists
<1>10. \A id \in UserIds : id = 2 => given[id][1] # "none"
  <2>1. 2 \in UserIds => given[2] = <<name, role>>
    BY <1>1
  <2>2. <<name, role>>[1] = name
    OBVIOUS
  <2> QED BY <1>3, <2>1, <2>2
<1>11. IdsOnce
  <2>1. \A c \in Callers : Named(c)
    BY <1>8 DEF Named
  <2> QED BY <1>2, <1>8, <1>9, <1>10, <2>1, IdFacts DEF IdsOnce, Once
<1>12. RoleKept
  BY <1>1, <1>5, <1>6, <1>9, Numbers DEF RoleKept
<1>13. SavesGiven
  BY <1>8 DEF SavesGiven, Saving
<1>14. OneAtChannels
  BY <1>8 DEF OneAtChannels, AtChannels
<1>15. PrefsFromOneForm
  BY <1>4, <1>5, <1>6, IdleFields DEF PrefsFromOneForm
<1>16. OneResets
  <2>1. \A n \in 1 .. MaxTokens : Resetting(n) = {} /\ spent[n] = 0
    BY <1>2, <1>8 DEF Resetting
  <2>2. \A n \in 1 .. MaxTokens : spent[n] <= 1 /\ spent[n] # 1
    BY <2>1, Numbers
  <2> QED BY <2>1, <2>2 DEF OneResets
<1> QED BY <1>7, <1>11, <1>12, <1>13, <1>14, <1>15, <1>16 DEF AccountsInv

LEMMA AccountsKeep == AccountsInv /\ [AccountsNext]_accountVars => AccountsInv'
<1> SUFFICES ASSUME AccountsInv, [AccountsNext]_accountVars PROVE AccountsInv'
  OBVIOUS
<1>0. calls \in Nat /\ calls + 1 \in Nat
  BY DEF AccountsInv, AccountsShape
<1>1. ASSUME NEW c \in Callers, StatementFails(c) PROVE AccountsInv'
  BY <1>1, FailureKeeps
<1>2. ASSUME NEW c \in Callers,
             AccountSave(c) \/ UserEdit(c) \/ UserCreate(c) \/ Forgot(c)
      PROVE  AccountsInv'
  BY <1>2, RequestsBegin
<1>3. ASSUME NEW c \in Callers, InsertUser(c) PROVE AccountsInv'
  BY <1>3, InsertKeeps
<1>4. ASSUME NEW c \in Callers, SubscribeUser(c) PROVE AccountsInv'
  BY <1>4, SubscribeKeeps
<1>5. ASSUME NEW c \in Callers, UpdateUser(c) PROVE AccountsInv'
  BY <1>5, UpdateKeeps
<1>6. ASSUME NEW c \in Callers, SetUserAPRS(c) PROVE AccountsInv'
  <2>1. call[c].step = "aprs" /\ (GoesTo(c, "groups") \/ Ends(c))
        /\ UNCHANGED <<users, calls, given, tokens, raced, torn, spent, doubled>>
    BY <1>6 DEF SetUserAPRS
  <2>2. call[c].id \in UserIds
    BY <2>1 DEF AccountsInv, IdsOnce, Named
  <2> QED BY <2>1, <2>2, MovesOn
<1>7. ASSUME NEW c \in Callers, SetUserGroups(c) PROVE AccountsInv'
  BY <1>7, GroupsKeeps
<1>8. ASSUME NEW c \in Callers, SetUserChannelOptOuts(c) PROVE AccountsInv'
  BY <1>8, ChannelsKeeps
<1>9. ASSUME NEW c \in Callers, PruneTokens(c) PROVE AccountsInv'
  BY <1>9, PruneKeeps
<1>10. ASSUME NEW c \in Callers, IssueToken(c) PROVE AccountsInv'
  BY <1>10, IssueKeeps
<1>11. ASSUME NEW c \in Callers, ResetLooksUp(c) PROVE AccountsInv'
  BY <1>11, LookupKeeps
<1>12. ASSUME NEW c \in Callers, MarkToken(c) PROVE AccountsInv'
  BY <1>12, MarkKeeps
<1>13. ASSUME NEW c \in Callers, SetUserPassword(c) PROVE AccountsInv'
  BY <1>13, PasswordKeeps
<1>14. ASSUME NEW n \in UserNames, Login(n) \/ SessionEnds(n) PROVE AccountsInv'
  BY <1>0, <1>14, RestKeeps DEF Login, SessionEnds
<1>15. ASSUME NEW id \in UserIds, DeleteUser(id) PROVE AccountsInv'
  BY <1>15, DeletionKeeps
<1>16. ASSUME NEW g \in UserGroups, DeleteGroup(g) PROVE AccountsInv'
  BY <1>0, <1>16, RestKeeps DEF DeleteGroup
<1>17. ASSUME NEW t \in tokens, TokenExpires(t) PROVE AccountsInv'
  BY <1>17, ExpiryKeeps
<1>18. CASE ServerRestarts
  BY <1>18, RestartKeeps
<1>19. CASE UNCHANGED accountVars
  BY <1>0, <1>19, RestKeeps DEF accountVars
<1> QED BY <1>1, <1>2, <1>3, <1>4, <1>5, <1>6, <1>7, <1>8, <1>9, <1>10, <1>11, <1>12, <1>13,
           <1>14, <1>15, <1>16, <1>17, <1>18, <1>19 DEF AccountsNext

(* Whatever requests, restarts, failing statements and deletions interleave:  *)
(* the directory keeps its invariant.                                         *)
THEOREM AccountsSafe == AccountsSpec => []AccountsInv
BY AccountsBegin, AccountsKeep, PTL DEF AccountsSpec

(* handleAccountSave's "the username and role stay untouched", for any number *)
(* of requests in flight: a registered user has what the administrator gave   *)
(* last, unless the user was saved between an account save's read and its     *)
(* write.                                                                     *)
THEOREM RolesStay == AccountsSpec => []RoleKept
<1>1. AccountsInv => RoleKept
  BY DEF AccountsInv
<1> QED BY <1>1, AccountsSafe, PTL

(* SetUserGroups, then SetUserChannelOptOuts (CreateUser's INSERT, then its   *)
(* subscription): the two halves of a user's preferences come from one form,  *)
(* unless the second write is still to come or failed, or another request's   *)
(* came in between.                                                           *)
THEOREM FormsStayWhole == AccountsSpec => []PrefsFromOneForm
<1>1. AccountsInv => PrefsFromOneForm
  BY DEF AccountsInv
<1> QED BY <1>1, AccountsSafe, PTL

(* ConsumePasswordReset: a link sets one password unless two submissions were *)
(* both past the lookup at once.                                              *)
THEOREM LinksAreSpentOnce == AccountsSpec => []LinkSpentOnce
<1>1. AccountsInv => LinkSpentOnce
  BY DEF AccountsInv, AccountsShape, OneResets, LinkSpentOnce
<1> QED BY <1>1, AccountsSafe, PTL

-----------------------------------------------------------------------------
(***************************************************************************)
(* Messages that wait for an acknowledgment.                               *)
(***************************************************************************)
Fields == {"pc", "todo", "cancelled", "id", "ch", "from"}

OutShape ==
    /\ DOMAIN exec = Instances /\ \A i \in Instances : DOMAIN exec[i] = Fields
    /\ IsFiniteSet(DOMAIN pending)
    /\ \A id \in DOMAIN pending : pending[id] \in Instances

(* An answer only reaches a caller.                                           *)
QuietOutside == \A i \in Instances : ~ AwaitsAck(i) => exec[i].ch = "none"

(* An entry belongs to a caller no answer has reached, under its own number:  *)
(* a caller whose number was given out again has none.                        *)
WaitersAreCallers ==
    \A id \in DOMAIN pending : LET i == pending[id] IN
       AwaitsAck(i) /\ exec[i].id = id /\ exec[i].ch = "none"

(* Until the numbers run into a call in progress, the callers have distinct   *)
(* numbers and those no answer has reached have their entries.                *)
CallersAreWaiters ==
    ~ reused =>
        /\ \A i, j \in Instances :
              AwaitsAck(i) /\ AwaitsAck(j) /\ exec[i].id = exec[j].id => i = j
        /\ \A i \in Instances : AwaitsAck(i) /\ exec[i].ch = "none"
              => exec[i].id \in DOMAIN pending /\ pending[exec[i].id] = i

OutInv == /\ OutShape /\ QuietOutside /\ WaitersAreCallers /\ CallersAreWaiters
          /\ Cardinality(DOMAIN pending) <= AckPendingCap

LEMMA NextFields ==
    ASSUME NEW e
    PROVE  /\ DOMAIN NextRecipient(e) = Fields /\ NextRecipient(e).ch = "none"
           /\ NextRecipient(e).pc \notin {"registered", "waiting"}
<1>1. DOMAIN Resting = Fields /\ Resting.ch = "none" /\ Resting.pc = "idle"
  BY DEF Resting, Fields
<1> DEFINE t == Tail(e.todo)
           c == e.cancelled
           f1 == [Resting EXCEPT !.pc = "slot"]
           f2 == [f1 EXCEPT !.todo = t]
           f3 == [f2 EXCEPT !.cancelled = c]
           f == [Resting EXCEPT !.pc = "slot", !.todo = Tail(e.todo), !.cancelled = e.cancelled]
<1>2. f = f3
  BY DEF Fields
<1> HIDE DEF t, c
<1>3. DOMAIN f1 = Fields /\ f1.pc = "slot" /\ f1.ch = "none"
  BY <1>1 DEF Fields
<1>4. DOMAIN f2 = Fields /\ f2.pc = "slot" /\ f2.ch = "none"
  <2> HIDE DEF f1
  <2> QED BY <1>3 DEF Fields
<1>5. DOMAIN f3 = Fields /\ f3.pc = "slot" /\ f3.ch = "none"
  <2> HIDE DEF f2
  <2> QED BY <1>4 DEF Fields
<1>6. NextRecipient(e) = Resting \/ NextRecipient(e) = f
  BY DEF NextRecipient
<1> HIDE DEF f, f3
<1> QED BY <1>1, <1>2, <1>5, <1>6

(* One entry less.                                                            *)
LEMMA EntryRemoved ==
    ASSUME OutInv, NEW n, pending' = Without(n)
    PROVE  /\ DOMAIN pending' = DOMAIN pending \ {n}
           /\ \A j \in DOMAIN pending' : pending'[j] = pending[j]
           /\ IsFiniteSet(DOMAIN pending')
           /\ (Cardinality(DOMAIN pending) <= AckPendingCap)'
<1>1. DOMAIN pending' = DOMAIN pending \ {n} /\ \A j \in DOMAIN pending' : pending'[j] = pending[j]
  BY DEF Without
<1>2. IsFiniteSet(DOMAIN pending) /\ DOMAIN pending' \subseteq DOMAIN pending
  BY <1>1 DEF OutInv, OutShape
<1>3. IsFiniteSet(DOMAIN pending')
  BY <1>2, FS_Subset
<1>4. Cardinality(DOMAIN pending') <= Cardinality(DOMAIN pending)
      /\ Cardinality(DOMAIN pending') \in Nat /\ Cardinality(DOMAIN pending) \in Nat
  BY <1>2, <1>3, FS_Subset, FS_CardinalityType
<1>5. AckPendingCap \in Nat /\ Cardinality(DOMAIN pending) <= AckPendingCap
  BY OutAssumption DEF OutInv
<1> QED BY <1>1, <1>3, <1>4, <1>5

(* One instance moves outside a call.                                         *)
LEMMA OutsideCall ==
    ASSUME OutInv, NEW i \in Instances, NEW v, exec' = [exec EXCEPT ![i] = v],
           DOMAIN v = Fields, v.pc \notin {"registered", "waiting"}, v.ch = "none",
           ~ AwaitsAck(i), UNCHANGED <<pending, reused>>
    PROVE  OutInv'
<1>1. /\ DOMAIN exec' = Instances /\ exec'[i] = v
      /\ \A j \in Instances \ {i} : exec'[j] = exec[j]
  BY DEF OutInv, OutShape
<1>2. OutShape'
  BY <1>1 DEF OutInv, OutShape
<1>3. ~ AwaitsAck(i)' /\ \A j \in Instances \ {i} : AwaitsAck(j)' <=> AwaitsAck(j)
  BY <1>1 DEF AwaitsAck
<1>4. QuietOutside'
  BY <1>1, <1>3 DEF OutInv, QuietOutside
<1>5. WaitersAreCallers'
  <2>1. \A id \in DOMAIN pending : pending[id] \in Instances \ {i}
    BY DEF OutInv, OutShape, WaitersAreCallers
  <2> QED BY <1>1, <1>3, <2>1 DEF OutInv, WaitersAreCallers
<1>6. CallersAreWaiters'
  BY <1>1, <1>3 DEF OutInv, CallersAreWaiters
<1>7. (Cardinality(DOMAIN pending) <= AckPendingCap)'
  BY DEF OutInv
<1> QED BY <1>2, <1>4, <1>5, <1>6, <1>7 DEF OutInv

(* A call returns and takes the entry of its number out of the table.         *)
LEMMA CallReturns ==
    ASSUME OutInv, NEW i \in Instances, AwaitsAck(i), pending' = Without(exec[i].id),
           exec' = [exec EXCEPT ![i] = NextRecipient(exec[i])], UNCHANGED reused
    PROVE  OutInv'
<1>1. PICK v : v = NextRecipient(exec[i])
  OBVIOUS
<1>2. DOMAIN v = Fields /\ v.ch = "none" /\ v.pc \notin {"registered", "waiting"}
  BY <1>1, NextFields
<1>3. /\ DOMAIN exec' = Instances /\ exec'[i] = v
      /\ \A j \in Instances \ {i} : exec'[j] = exec[j]
  BY <1>1 DEF OutInv, OutShape
<1>4. PICK n : n = exec[i].id
  OBVIOUS
<1>5. /\ DOMAIN pending' = DOMAIN pending \ {n}
      /\ \A j \in DOMAIN pending' : pending'[j] = pending[j]
      /\ IsFiniteSet(DOMAIN pending') /\ (Cardinality(DOMAIN pending) <= AckPendingCap)'
  BY <1>4, EntryRemoved
<1>6. OutShape'
  BY <1>2, <1>3, <1>5 DEF OutInv, OutShape
<1>7. ~ AwaitsAck(i)' /\ \A j \in Instances \ {i} : AwaitsAck(j)' <=> AwaitsAck(j)
  BY <1>2, <1>3 DEF AwaitsAck
<1>8. QuietOutside'
  BY <1>2, <1>3, <1>7 DEF OutInv, QuietOutside
<1>9. WaitersAreCallers'
  <2>1. \A id \in DOMAIN pending' : pending'[id] \in Instances \ {i}
    BY <1>4, <1>5 DEF OutInv, OutShape, WaitersAreCallers
  <2> QED BY <1>3, <1>5, <1>7, <2>1 DEF OutInv, WaitersAreCallers
<1>10. CallersAreWaiters'
  <2> SUFFICES ASSUME ~ reused PROVE CallersAreWaiters'
    BY DEF CallersAreWaiters
  <2>1. \A j \in Instances \ {i} : AwaitsAck(j) => exec[j].id # n
    BY <1>4 DEF OutInv, CallersAreWaiters
  <2> QED BY <1>3, <1>5, <1>7, <2>1 DEF OutInv, CallersAreWaiters
<1> QED BY <1>5, <1>6, <1>8, <1>9, <1>10 DEF OutInv

LEMMA RegistersKeeps ==
    ASSUME OutInv, NEW i \in Instances, Registers(i)
    PROVE  OutInv'
<1>1. exec[i].pc = "send" /\ ~ AwaitsAck(i)
  BY DEF Registers, AwaitsAck
<1>2. DOMAIN exec[i] = Fields /\ exec[i].ch = "none" /\ DOMAIN exec = Instances
  BY <1>1 DEF OutInv, OutShape, QuietOutside
<1>3. CASE exec' = [exec EXCEPT ![i] = NextRecipient(exec[i])] /\ UNCHANGED <<pending, reused>>
  BY <1>1, <1>2, <1>3, NextFields, OutsideCall
<1>4. CASE /\ Cardinality(DOMAIN pending) < AckPendingCap
           /\ pending' = [j \in DOMAIN pending \cup {msgSeq'} |->
                              IF j = msgSeq' THEN i ELSE pending[j]]
           /\ exec' = [exec EXCEPT ![i].pc = "registered", ![i].id = msgSeq']
           /\ reused' = (reused \/ \E j \in Instances : AwaitsAck(j) /\ exec[j].id = msgSeq')
  <2>1. PICK n : n = msgSeq'
    OBVIOUS
  <2> DEFINE f1 == [exec[i] EXCEPT !.pc = "registered"]
             f == [f1 EXCEPT !.id = n]
             e1 == [exec EXCEPT ![i].pc = "registered"]
             e2 == [e1 EXCEPT ![i].id = n]
  <2>3. DOMAIN f1 = Fields /\ f1.pc = "registered" /\ f1.ch = "none"
    BY <1>2 DEF Fields
  <2>4. DOMAIN f = Fields /\ f.pc = "registered" /\ f.ch = "none" /\ f.id = n
    <3> HIDE DEF f1
    <3> QED BY <2>3 DEF Fields
  <2>5. exec' = e2
    BY <1>4, <2>1
  <2>6. e1 = [exec EXCEPT ![i] = f1] /\ DOMAIN e1 = Instances /\ e1[i] = f1
    BY <1>2
  <2>7. e2 = [exec EXCEPT ![i] = f]
    <3> HIDE DEF e1, f1
    <3> QED BY <1>2, <2>6
  <2> HIDE DEF f, e2
  <2>8. /\ DOMAIN exec' = Instances /\ exec'[i] = f
        /\ \A j \in Instances \ {i} : exec'[j] = exec[j]
    BY <1>2, <2>5, <2>7
  <2>9. /\ DOMAIN pending' = DOMAIN pending \cup {n} /\ pending'[n] = i
        /\ \A k \in DOMAIN pending \ {n} : pending'[k] = pending[k]
    BY <1>4, <2>1
  <2>10. /\ IsFiniteSet(DOMAIN pending')
         /\ Cardinality(DOMAIN pending') <= Cardinality(DOMAIN pending) + 1
         /\ Cardinality(DOMAIN pending) \in Nat /\ Cardinality(DOMAIN pending') \in Nat
    <3>1. IsFiniteSet(DOMAIN pending)
      BY DEF OutInv, OutShape
    <3>2. PICK d : d = DOMAIN pending
      OBVIOUS
    <3>3. IsFiniteSet(d \cup {n}) /\ Cardinality(d \cup {n}) <= Cardinality(d) + 1
          /\ Cardinality(d) \in Nat /\ Cardinality(d \cup {n}) \in Nat
      <4>1. IsFiniteSet(d \cup {n}) /\ Cardinality(d) \in Nat
            /\ Cardinality(d \cup {n}) = IF n \in d THEN Cardinality(d) ELSE Cardinality(d) + 1
        BY <3>1, <3>2, FS_AddElement, FS_CardinalityType
      <4> QED BY <4>1
    <3> QED BY <2>9, <3>2, <3>3
  <2>11. OutShape'
    BY <2>4, <2>8, <2>9, <2>10 DEF OutInv, OutShape
  <2>12. AwaitsAck(i)' /\ \A j \in Instances \ {i} : AwaitsAck(j)' <=> AwaitsAck(j)
    BY <2>4, <2>8 DEF AwaitsAck
  <2>13. QuietOutside'
    BY <2>4, <2>8, <2>12 DEF OutInv, QuietOutside
  <2>14. \A k \in DOMAIN pending : pending[k] \in Instances \ {i}
    BY <1>1 DEF OutInv, OutShape, WaitersAreCallers
  <2>15. WaitersAreCallers'
    BY <2>4, <2>8, <2>9, <2>12, <2>14 DEF OutInv, WaitersAreCallers
  <2>16. CallersAreWaiters'
    <3> SUFFICES ASSUME ~ reused' PROVE CallersAreWaiters'
      BY DEF CallersAreWaiters
    <3>1. ~ reused /\ \A j \in Instances : AwaitsAck(j) => exec[j].id # n
      BY <1>4, <2>1
    <3> QED BY <2>4, <2>8, <2>9, <2>12, <3>1 DEF OutInv, CallersAreWaiters
  <2>17. (Cardinality(DOMAIN pending) <= AckPendingCap)'
    <3>1. AckPendingCap \in Nat
      BY OutAssumption
    <3> QED BY <1>4, <2>10, <3>1
  <2> QED BY <2>11, <2>13, <2>15, <2>16, <2>17 DEF OutInv
<1>5. Cardinality(DOMAIN pending) \in Nat /\ AckPendingCap \in Nat
  BY FS_CardinalityType, OutAssumption DEF OutInv, OutShape
<1>6. Cardinality(DOMAIN pending) < AckPendingCap <=> ~ (Cardinality(DOMAIN pending) >= AckPendingCap)
  BY <1>5
<1> QED BY <1>3, <1>4, <1>6 DEF Registers

(* One instance stays in, or out of, its call, with its number and its answer.*)
LEMMA CallGoesOn ==
    ASSUME OutInv, NEW i \in Instances, NEW f, exec' = [exec EXCEPT ![i] = f],
           DOMAIN f = Fields, f.id = exec[i].id, f.ch = exec[i].ch,
           f.pc \in {"registered", "waiting"} <=> AwaitsAck(i),
           UNCHANGED <<pending, reused>>
    PROVE  OutInv'
<1>1. /\ DOMAIN exec' = Instances /\ exec'[i] = f
      /\ \A j \in Instances \ {i} : exec'[j] = exec[j]
  BY DEF OutInv, OutShape
<1>2. \A j \in Instances : /\ DOMAIN exec'[j] = Fields /\ exec'[j].id = exec[j].id
                           /\ exec'[j].ch = exec[j].ch
  BY <1>1 DEF OutInv, OutShape
<1>3. \A j \in Instances : AwaitsAck(j)' <=> AwaitsAck(j)
  BY <1>1 DEF AwaitsAck
<1>4. OutShape'
  BY <1>1, <1>2 DEF OutInv, OutShape
<1>5. QuietOutside'
  BY <1>2, <1>3 DEF OutInv, QuietOutside
<1>6. WaitersAreCallers'
  <2>1. \A id \in DOMAIN pending : pending[id] \in Instances
    BY DEF OutInv, OutShape
  <2> QED BY <1>2, <1>3, <2>1 DEF OutInv, WaitersAreCallers
<1>7. CallersAreWaiters'
  BY <1>2, <1>3 DEF OutInv, CallersAreWaiters
<1>8. (Cardinality(DOMAIN pending) <= AckPendingCap)'
  BY DEF OutInv
<1> QED BY <1>4, <1>5, <1>6, <1>7, <1>8 DEF OutInv

LEMMA CancelledKeeps ==
    ASSUME OutInv, NEW i \in Instances, Cancelled(i)
    PROVE  OutInv'
<1> DEFINE f == [exec[i] EXCEPT !.cancelled = TRUE]
<1>1. DOMAIN exec[i] = Fields /\ DOMAIN exec = Instances
  BY DEF OutInv, OutShape
<1>2. /\ DOMAIN f = Fields /\ f.pc = exec[i].pc /\ f.id = exec[i].id /\ f.ch = exec[i].ch
  BY <1>1 DEF Fields
<1>3. exec' = [exec EXCEPT ![i] = f] /\ UNCHANGED <<pending, reused>>
  BY DEF Cancelled
<1> HIDE DEF f
<1>4. f.pc \in {"registered", "waiting"} <=> AwaitsAck(i)
  BY <1>2 DEF AwaitsAck
<1> QED BY <1>2, <1>3, <1>4, CallGoesOn

LEMMA TransmitsKeeps ==
    ASSUME OutInv, NEW i \in Instances, Transmits(i)
    PROVE  OutInv'
<1> DEFINE f == [exec[i] EXCEPT !.pc = "waiting"]
<1>1. DOMAIN exec[i] = Fields /\ DOMAIN exec = Instances /\ exec[i].pc = "registered"
  BY DEF OutInv, OutShape, Transmits
<1>2. /\ DOMAIN f = Fields /\ f.pc = "waiting" /\ f.id = exec[i].id /\ f.ch = exec[i].ch
  BY <1>1 DEF Fields
<1>3. exec' = [exec EXCEPT ![i] = f] /\ UNCHANGED <<pending, reused>>
  BY DEF Transmits
<1> HIDE DEF f
<1>4. f.pc \in {"registered", "waiting"} <=> AwaitsAck(i)
  BY <1>1, <1>2 DEF AwaitsAck
<1> QED BY <1>2, <1>3, <1>4, CallGoesOn

LEMMA AckKeeps ==
    ASSUME OutInv, NEW from, NEW n, NEW kind \in {"ack", "rej"}, AckArrives(from, n, kind)
    PROVE  OutInv'
<1>1. PICK i \in Instances : i = pending[n] /\ n \in DOMAIN pending
  BY DEF AckArrives, OutInv, OutShape
<1> DEFINE f1 == [exec[i] EXCEPT !.ch = kind]
           f == [f1 EXCEPT !.from = from]
           e1 == [exec EXCEPT ![i].ch = kind]
           e2 == [e1 EXCEPT ![i].from = from]
<1>2. DOMAIN exec[i] = Fields /\ DOMAIN exec = Instances
  BY DEF OutInv, OutShape
<1>3. DOMAIN f1 = Fields /\ f1.pc = exec[i].pc /\ f1.id = exec[i].id /\ f1.ch = kind
  BY <1>2 DEF Fields
<1>4. DOMAIN f = Fields /\ f.pc = exec[i].pc /\ f.id = exec[i].id /\ f.ch = kind
  <2> HIDE DEF f1
  <2> QED BY <1>3 DEF Fields
<1>5. exec' = e2
  BY <1>1 DEF AckArrives
<1>6. e1 = [exec EXCEPT ![i] = f1] /\ DOMAIN e1 = Instances /\ e1[i] = f1
  BY <1>2
<1>7. e2 = [exec EXCEPT ![i] = f]
  <2> HIDE DEF e1, f1
  <2> QED BY <1>2, <1>6
<1> HIDE DEF f, e2
<1>8. /\ DOMAIN exec' = Instances /\ exec'[i] = f
      /\ \A j \in Instances \ {i} : exec'[j] = exec[j]
  BY <1>2, <1>5, <1>7
<1>9. \A j \in Instances : /\ DOMAIN exec'[j] = Fields /\ exec'[j].id = exec[j].id
                           /\ exec'[j].pc = exec[j].pc
  BY <1>4, <1>8 DEF OutInv, OutShape
<1>10. \A j \in Instances : AwaitsAck(j)' <=> AwaitsAck(j)
  BY <1>9 DEF AwaitsAck
<1>11. UNCHANGED reused /\ pending' = Without(n)
  BY DEF AckArrives
<1>12. /\ DOMAIN pending' = DOMAIN pending \ {n}
       /\ \A j \in DOMAIN pending' : pending'[j] = pending[j]
       /\ IsFiniteSet(DOMAIN pending') /\ (Cardinality(DOMAIN pending) <= AckPendingCap)'
  BY <1>11, EntryRemoved
<1>13. AwaitsAck(i) /\ exec[i].id = n /\ exec[i].ch = "none"
  BY <1>1 DEF OutInv, WaitersAreCallers
<1>14. OutShape'
  BY <1>8, <1>9, <1>12 DEF OutInv, OutShape
<1>15. QuietOutside'
  BY <1>8, <1>9, <1>10, <1>13 DEF OutInv, QuietOutside
<1>16. WaitersAreCallers'
  <2>1. \A k \in DOMAIN pending' : pending'[k] \in Instances \ {i}
    BY <1>12, <1>13 DEF OutInv, OutShape, WaitersAreCallers
  <2> QED BY <1>8, <1>9, <1>10, <1>12, <2>1 DEF OutInv, WaitersAreCallers
<1>17. CallersAreWaiters'
  <2> SUFFICES ASSUME ~ reused PROVE CallersAreWaiters'
    BY <1>11 DEF CallersAreWaiters
  <2>1. \A j \in Instances \ {i} : AwaitsAck(j) => exec[j].id # n
    BY <1>13 DEF OutInv, CallersAreWaiters
  <2>2. exec'[i].ch # "none"
    BY <1>4, <1>8
  <2> QED BY <1>8, <1>9, <1>10, <1>12, <2>1, <2>2 DEF OutInv, CallersAreWaiters
<1> QED BY <1>12, <1>14, <1>15, <1>16, <1>17 DEF OutInv

(* The start of a process: nobody calls, nobody waits.                        *)
Fresh == exec = [i \in Instances |-> Resting] /\ pending = <<>>

LEMMA FreshProcess == Fresh => OutInv
<1> SUFFICES ASSUME Fresh PROVE OutInv
  OBVIOUS
<1> USE DEF Fresh
<1>1. DOMAIN Resting = Fields /\ Resting.ch = "none" /\ Resting.pc = "idle"
  BY DEF Resting, Fields
<1>2. DOMAIN pending = {}
  OBVIOUS
<1>3. OutShape
  BY <1>1, <1>2, FS_EmptySet DEF OutShape
<1>4. \A i \in Instances : ~ AwaitsAck(i) /\ exec[i].ch = "none"
  BY <1>1 DEF AwaitsAck
<1>5. QuietOutside /\ WaitersAreCallers /\ CallersAreWaiters
  BY <1>2, <1>4 DEF QuietOutside, WaitersAreCallers, CallersAreWaiters
<1>6. Cardinality(DOMAIN pending) <= AckPendingCap
  <2>1. AckPendingCap \in Nat
    BY OutAssumption
  <2> QED BY <1>2, <2>1, FS_EmptySet
<1> QED BY <1>3, <1>5, <1>6 DEF OutInv

LEMMA OutKeeps == OutInv /\ [OutNext]_outVars => OutInv'
<1> SUFFICES ASSUME OutInv, [OutNext]_outVars PROVE OutInv'
  OBVIOUS
<1>0. /\ DOMAIN exec = Instances
      /\ \A i \in Instances : DOMAIN exec[i] = Fields /\ (~ AwaitsAck(i) => exec[i].ch = "none")
  BY DEF OutInv, OutShape, QuietOutside
<1>1. ASSUME NEW i \in Instances, ExecuteBegins(i) PROVE OutInv'
  <2>1. PICK g \in Groups :
          exec' = [exec EXCEPT ![i] = [Resting EXCEPT !.pc = "slot", !.todo = Recipients(g)]]
    BY <1>1 DEF ExecuteBegins
  <2>2. PICK t : t = Recipients(g)
    OBVIOUS
  <2> DEFINE v == [Resting EXCEPT !.pc = "slot", !.todo = t]
  <2>3. DOMAIN v = Fields /\ v.pc = "slot" /\ v.ch = "none"
    BY DEF Resting, Fields
  <2>4. exec' = [exec EXCEPT ![i] = v]
    BY <2>1, <2>2
  <2> HIDE DEF v
  <2>5. ~ AwaitsAck(i) /\ UNCHANGED <<pending, reused>>
    BY <1>1 DEF ExecuteBegins, AwaitsAck
  <2> QED BY <1>0, <2>3, <2>4, <2>5, OutsideCall
<1>2. ASSUME NEW i \in Instances, Cancelled(i) PROVE OutInv'
  BY <1>2, CancelledKeeps
<1>3. ASSUME NEW i \in Instances, TakesSlot(i) PROVE OutInv'
  <2>1. PICK pc \in {"send", "wait"} : exec' = [exec EXCEPT ![i].pc = pc]
    BY <1>3 DEF TakesSlot
  <2>2. ~ AwaitsAck(i) /\ UNCHANGED <<pending, reused>>
    BY <1>3 DEF TakesSlot, AwaitsAck
  <2> DEFINE v == [exec[i] EXCEPT !.pc = pc]
  <2>3. DOMAIN v = Fields /\ v.pc = pc /\ v.ch = "none"
    BY <1>0, <2>2 DEF Fields
  <2>4. exec' = [exec EXCEPT ![i] = v]
    BY <2>1
  <2> HIDE DEF v
  <2> QED BY <1>0, <2>2, <2>3, <2>4, OutsideCall
<1>4. ASSUME NEW i \in Instances, SlotCancelled(i) \/ SendMessage(i) PROVE OutInv'
  <2>1. /\ exec' = [exec EXCEPT ![i] = NextRecipient(exec[i])]
        /\ ~ AwaitsAck(i) /\ UNCHANGED <<pending, reused>>
    BY <1>4 DEF SlotCancelled, SendMessage, Delivered, AwaitsAck
  <2> QED BY <1>0, <2>1, NextFields, OutsideCall
<1>5. ASSUME NEW i \in Instances, Registers(i) PROVE OutInv'
  BY <1>5, RegistersKeeps
<1>6. ASSUME NEW i \in Instances, Transmits(i) PROVE OutInv'
  BY <1>6, TransmitsKeeps
<1>7. ASSUME NEW i \in Instances, TransmitFails(i) \/ Answered(i) \/ GivesUp(i)
      PROVE  OutInv'
  <2>1. /\ exec' = [exec EXCEPT ![i] = NextRecipient(exec[i])]
        /\ AwaitsAck(i) /\ pending' = Without(exec[i].id) /\ UNCHANGED reused
    BY <1>7 DEF TransmitFails, Answered, GivesUp, ReturnsFailed, Delivered, AwaitsAck
  <2> QED BY <2>1, CallReturns
<1>8. ASSUME NEW from \in Addressees, NEW id \in DOMAIN pending, NEW kind \in {"ack", "rej"},
             AckArrives(from, id, kind)
      PROVE  OutInv'
  BY <1>8, AckKeeps
<1>9. CASE OutClock \/ UNCHANGED outVars
  <2>1. UNCHANGED <<exec, pending, reused>>
    BY <1>9 DEF OutClock, outVars
  <2> QED BY <2>1 DEF OutInv, OutShape, QuietOutside, WaitersAreCallers, CallersAreWaiters,
                      AwaitsAck
<1>10. CASE OutRestart
  <2>1. Fresh'
    BY <1>10 DEF OutRestart, Fresh
  <2> QED BY <2>1, FreshProcess, PTL
<1> QED BY <1>1, <1>2, <1>3, <1>4, <1>5, <1>6, <1>7, <1>8, <1>9, <1>10 DEF OutNext

(* Whatever mixture of acks, rejections, timeouts, cancellations, numbers     *)
(* given out twice and restarts: the table and the calls stay in step.        *)
THEOREM OutSafe == OutSpec => []OutInv
<1>1. OutInit => OutInv
  BY FreshProcess DEF OutInit, Fresh
<1> QED BY <1>1, OutKeeps, PTL DEF OutSpec

(* SendMessageWaitAck's table: every entry is a call's own that no answer has *)
(* reached, the cap is never passed, and until the numbers wrap around onto a *)
(* call in progress every such call has its entry.                            *)
THEOREM WaitersMatchCalls == OutSpec => []PendingMatchesCalls
<1>1. OutInv => PendingMatchesCalls
  BY DEF OutInv, WaitersAreCallers, CallersAreWaiters, PendingMatchesCalls
<1> QED BY <1>1, OutSafe, PTL

-----------------------------------------------------------------------------
(***************************************************************************)
(* The station hub.                                                        *)
(***************************************************************************)
Bodies == {p.body : p \in Packets} \cup {"none"}
Docs == {NoDoc} \cup [self : BOOLEAN, last : Bodies, via : SUBSET Backends]
Topics == [Stations -> Docs]
Pubs == [station : Stations, doc : Docs]
Heard == [self : BOOLEAN, last : Bodies, via : SUBSET Backends, age : Nat, dirty : BOOLEAN]

StationsShape ==
    /\ DOMAIN stations \subseteq Stations
    /\ stations \in [DOMAIN stations -> Heard]

BrokerShape == retained \in Topics /\ wire \in Seq(Pubs)

(* What maintenance still has to delete has no record, what it still has to   *)
(* publish has one: the worker does nothing else in between.                  *)
PassShape ==
    /\ pass \in [gone : SUBSET Stations, retry : SUBSET Stations]
    /\ pass.gone \cap DOMAIN stations = {} /\ pass.retry \subseteq DOMAIN stations

QueueShape == ops \in Seq([p : Packets, via : Backends]) /\ restarts \in Nat

AgesShape ==
    /\ seen \in [DOMAIN seen -> Nat] /\ feed \in [DOMAIN feed -> Nat]

(* A digest that is forgotten has been off the feed for a window: each         *)
(* publication refreshes both ages, and they grow together.                    *)
FeedRemembered ==
    /\ again = {}
    /\ \A d \in DOMAIN feed :
          feed[d] > DigestWindow \/ (d \in DOMAIN seen /\ seen[d] <= feed[d])

(* An event nothing of its station has overtaken is of the packet its record   *)
(* shows, from a receiver the record names.                                    *)
LastIsOnRecord ==
    /\ RepeatedForCause
    /\ \A e \in DOMAIN told : told[e] = "last" =>
          /\ e[1] \in DOMAIN stations
          /\ stations[e[1]].last = e[2] /\ e[3] \in stations[e[1]].via

HubInv ==
    /\ StationsShape /\ BrokerShape /\ PassShape /\ QueueShape /\ AgesShape
    /\ CleanMeansShown /\ OrphansExplained /\ FeedRemembered /\ LastIsOnRecord

\* A set of positions has a last one.
LEMMA LastPosition ==
  ASSUME NEW n \in Nat, NEW S \in SUBSET (1 .. n), S # {}
  PROVE  Max(S) \in S /\ \A j \in S : j <= Max(S)
<1> DEFINE R == {p \in Nat \X Nat : p[1] < p[2]}
<1> DEFINE T == {n - i : i \in S}
<1>1. IsWellFoundedOn(R, Nat)
  BY NatLessThanWellFounded, Zenon DEF OpToRel
<1>2. T \in SUBSET Nat /\ T # {}
  <2>1. \A i \in S : n - i \in Nat
    OBVIOUS
  <2>2. \A k \in T : k \in Nat
    BY <2>1
  <2>3. PICK i \in S : TRUE
    OBVIOUS
  <2>4. n - i \in T
    BY <2>3
  <2> QED BY <2>2, <2>4
<1>3. \A i, j \in Nat : <<j, i>> \notin R => i <= j
  OBVIOUS
<1> HIDE DEF R, T
<1>4. PICK k \in T : \A j \in T : k <= j
  BY <1>1, <1>2, <1>3, WFMin
<1>5. PICK i \in S : k = n - i
  BY <1>4 DEF T
<1>6. \A j \in S : n - j \in T
  BY DEF T
<1>7. \A j \in S : i >= j
  BY <1>4, <1>5, <1>6
<1>8. Max(S) \in S /\ \A j \in S : Max(S) >= j
  BY <1>7, Zenon DEF Max
<1> QED
  BY <1>8

\* Nothing else stands behind the last publication about a station.
LastAbout(q, c) == Max(About(q, c))

LEMMA LastAboutIsLast ==
  ASSUME NEW q \in Seq(Pubs), NEW c, About(q, c) # {}
  PROVE  LastAbout(q, c) \in About(q, c) /\ \A j \in About(q, c) : j <= LastAbout(q, c)
<1>1. About(q, c) \in SUBSET (1 .. Len(q)) /\ Len(q) \in Nat
  BY DEF About
<1> QED
  BY <1>1, LastPosition DEF LastAbout

LEMMA LastAboutIs ==
  ASSUME NEW q \in Seq(Pubs), NEW c, NEW i \in About(q, c), \A j \in About(q, c) : j <= i
  PROVE  LastAbout(q, c) = i
<1>1. LastAbout(q, c) \in About(q, c) /\ \A j \in About(q, c) : j <= LastAbout(q, c)
  BY LastAboutIsLast
<1>2. About(q, c) \subseteq Int
  BY DEF About
<1> QED
  BY <1>1, <1>2

LEMMA FlushedIs ==
  ASSUME NEW q, NEW topics, NEW c \in Stations
  PROVE  /\ About(q, c) = {} => Flushed(topics, q)[c] = topics[c]
         /\ About(q, c) # {} => Flushed(topics, q)[c] = q[LastAbout(q, c)].doc
BY DEF Flushed, LastAbout

LEMMA FlushedIsTopics ==
  ASSUME NEW topics \in Topics, NEW q \in Seq(Pubs)
  PROVE  Flushed(topics, q) \in Topics
<1>1. ASSUME NEW c \in Stations PROVE Flushed(topics, q)[c] \in Docs
  <2>1. CASE About(q, c) = {}
    BY <2>1, FlushedIs DEF Topics
  <2>2. CASE About(q, c) # {}
    <3>1. LastAbout(q, c) \in DOMAIN q
      BY <2>2, LastAboutIsLast DEF About
    <3>2. q[LastAbout(q, c)] \in Pubs
      BY <3>1
    <3> QED BY <2>2, <3>2, FlushedIs DEF Pubs
  <2> QED BY <2>1, <2>2
<1>2. Flushed(topics, q) = [c \in Stations |-> Flushed(topics, q)[c]]
  BY DEF Flushed
<1> QED
  BY <1>1, <1>2 DEF Topics

\* A client that holds nothing shows nothing more.
LEMMA FlushedNothing ==
  ASSUME NEW topics \in Topics
  PROVE  \A c \in Stations : Flushed(topics, <<>>)[c] = topics[c]
BY FlushedIs DEF About

LEMMA PutShows ==
  ASSUME NEW topics \in Topics, NEW pub \in Pubs
  PROVE  /\ Put(topics, pub) \in Topics
         /\ Put(topics, pub)[pub.station] = pub.doc
         /\ \A c \in Stations : c # pub.station => Put(topics, pub)[c] = topics[c]
BY DEF Put, Topics, Pubs

\* One more held publication shows last.
LEMMA FlushedAppend ==
  ASSUME NEW topics \in Topics, NEW q \in Seq(Pubs), NEW pub \in Pubs
  PROVE  /\ Flushed(topics, Append(q, pub))[pub.station] = pub.doc
         /\ \A c \in Stations : c # pub.station =>
               Flushed(topics, Append(q, pub))[c] = Flushed(topics, q)[c]
<1> DEFINE r == Append(q, pub)
           n == Len(q) + 1
<1>1. /\ r \in Seq(Pubs) /\ DOMAIN r = 1 .. n /\ DOMAIN q = 1 .. Len(q)
      /\ r[n] = pub /\ \A i \in DOMAIN q : r[i] = q[i]
      /\ Len(q) \in Nat
  OBVIOUS
<1> HIDE DEF r
<1>2. pub.station \in Stations
  BY DEF Pubs
<1>3. n \in About(r, pub.station) /\ \A j \in About(r, pub.station) : j <= n
  BY <1>1 DEF About
<1>4. LastAbout(r, pub.station) = n
  BY <1>1, <1>3, LastAboutIs
<1>5. Flushed(topics, r)[pub.station] = pub.doc
  BY <1>1, <1>2, <1>3, <1>4, FlushedIs
<1>6. ASSUME NEW c \in Stations, c # pub.station
      PROVE  Flushed(topics, r)[c] = Flushed(topics, q)[c]
  <2>1. About(r, c) = About(q, c)
    BY <1>1, <1>6 DEF About
  <2>2. LastAbout(r, c) = LastAbout(q, c)
    BY <2>1 DEF LastAbout
  <2>3. About(q, c) # {} => LastAbout(q, c) \in DOMAIN q
    BY LastAboutIsLast DEF About
  <2> QED BY <1>1, <2>1, <2>2, <2>3, FlushedIs
<1> QED
  BY <1>5, <1>6 DEF r

\* What the client holds is shown in the order it was sent in: the first of it
\* may as well have arrived.
LEMMA FlushedHead ==
  ASSUME NEW topics \in Topics, NEW q \in Seq(Pubs), q # <<>>
  PROVE  \A c \in Stations :
            Flushed(Put(topics, Head(q)), Tail(q))[c] = Flushed(topics, q)[c]
<1> DEFINE r == Tail(q)
           pub == Head(q)
<1>1. /\ r \in Seq(Pubs) /\ pub \in Pubs /\ pub = q[1] /\ Len(q) \in Nat \ {0}
      /\ DOMAIN q = 1 .. Len(q) /\ DOMAIN r = 1 .. (Len(q) - 1)
      /\ \A i \in DOMAIN r : r[i] = q[i + 1]
  OBVIOUS
<1> HIDE DEF r, pub
<1> SUFFICES ASSUME NEW c \in Stations
             PROVE  Flushed(Put(topics, pub), r)[c] = Flushed(topics, q)[c]
  BY DEF r, pub
<1>2. \A i \in About(r, c) : i + 1 \in About(q, c) /\ i \in 1 .. (Len(q) - 1)
  BY <1>1 DEF About
<1>3. \A i \in About(q, c) : i \in Nat /\ (i # 1 => i - 1 \in About(r, c))
  BY <1>1 DEF About
<1>4. CASE About(r, c) # {}
  <2>1. /\ LastAbout(r, c) \in About(r, c) /\ LastAbout(r, c) \in DOMAIN r
        /\ \A j \in About(r, c) : j <= LastAbout(r, c)
    BY <1>1, <1>4, LastAboutIsLast DEF About
  <2>2. PICK k : k = LastAbout(r, c)
    OBVIOUS
  <2>3. k \in Nat /\ k >= 1 /\ k + 1 \in About(q, c)
    BY <1>1, <1>2, <2>1, <2>2
  <2>4. \A j \in About(q, c) : j <= k + 1
    BY <1>3, <2>1, <2>2, <2>3
  <2>5. LastAbout(q, c) = k + 1
    BY <2>3, <2>4, LastAboutIs
  <2>6. About(q, c) # {} /\ r[k] = q[k + 1]
    BY <1>1, <2>1, <2>2, <2>3
  <2> QED BY <1>4, <2>2, <2>5, <2>6, FlushedIs
<1>5. CASE About(r, c) = {} /\ pub.station = c
  <2>1. 1 \in About(q, c) /\ \A j \in About(q, c) : j <= 1
    BY <1>1, <1>3, <1>5 DEF About
  <2>2. LastAbout(q, c) = 1
    BY <2>1, LastAboutIs
  <2>3. Put(topics, pub)[c] = pub.doc
    BY <1>1, <1>5, PutShows
  <2> QED BY <1>1, <1>5, <2>1, <2>2, <2>3, FlushedIs
<1>6. CASE About(r, c) = {} /\ pub.station # c
  <2>1. About(q, c) = {}
    BY <1>1, <1>3, <1>6 DEF About
  <2>2. Put(topics, pub)[c] = topics[c]
    BY <1>1, <1>6, PutShows
  <2> QED BY <1>6, <2>1, <2>2, FlushedIs
<1> QED
  BY <1>4, <1>5, <1>6

\* The broker and the client after one publication, whatever became of it.
LEMMA OutcomeShows ==
  ASSUME BrokerShape, NEW pub \in Pubs, NEW o \in PublishOutcomes(Broker, pub)
  PROVE  /\ o.topics \in Topics /\ o.held \in Seq(Pubs) /\ o.err \in BOOLEAN
         /\ ~ o.err => Flushed(o.topics, o.held)[pub.station] = pub.doc
         /\ \A c \in Stations : c # pub.station =>
               Flushed(o.topics, o.held)[c] = Flushed(retained, wire)[c]
<1>1. /\ retained \in Topics /\ wire \in Seq(Pubs) /\ <<>> \in Seq(Pubs)
      /\ Append(wire, pub) \in Seq(Pubs) /\ pub.station \in Stations
  BY DEF BrokerShape, Pubs
<1>2. CASE o = [topics |-> Put(Flushed(retained, wire), pub), held |-> <<>>, err |-> FALSE]
  <2>1. /\ o.topics = Put(Flushed(retained, wire), pub) /\ o.held = <<>> /\ o.err = FALSE
        /\ Flushed(retained, wire) \in Topics
    BY <1>1, <1>2, FlushedIsTopics
  <2>2. /\ o.topics \in Topics /\ o.topics[pub.station] = pub.doc
        /\ \A c \in Stations : c # pub.station => o.topics[c] = Flushed(retained, wire)[c]
    BY <2>1, PutShows
  <2>3. \A c \in Stations : Flushed(o.topics, o.held)[c] = o.topics[c]
    BY <2>1, <2>2, FlushedNothing
  <2> QED BY <1>1, <2>1, <2>2, <2>3
<1>3. CASE o = [topics |-> retained, held |-> wire, err |-> TRUE]
  BY <1>1, <1>3
<1>4. CASE o = [topics |-> retained, held |-> Append(wire, pub), err |-> TRUE]
  <2>1. o.topics = retained /\ o.held = Append(wire, pub) /\ o.err = TRUE
    BY <1>4
  <2>2. /\ Flushed(retained, Append(wire, pub))[pub.station] = pub.doc
        /\ \A c \in Stations : c # pub.station =>
              Flushed(retained, Append(wire, pub))[c] = Flushed(retained, wire)[c]
    BY <1>1, FlushedAppend
  <2>3. /\ Flushed(o.topics, o.held)[pub.station] = pub.doc
        /\ \A c \in Stations : c # pub.station =>
              Flushed(o.topics, o.held)[c] = Flushed(retained, wire)[c]
    BY <2>1, <2>2
  <2> QED BY <1>1, <2>1, <2>3
<1> QED
  BY <1>2, <1>3, <1>4 DEF PublishOutcomes, Broker

\* A station's document goes out: its record is clean only when the document
\* is what is shown.
LEMMA PublishedShows ==
  ASSUME BrokerShape, NEW c \in Stations, NEW rec \in Heard,
         NEW o \in Published(Broker, c, rec)
  PROVE  /\ o.broker.topics \in Topics /\ o.broker.held \in Seq(Pubs)
         /\ o.rec \in Heard /\ o.rec.via = rec.via /\ o.rec.last = rec.last
         /\ ~ o.rec.dirty => Flushed(o.broker.topics, o.broker.held)[c] = DocOf(o.rec)
         /\ \A x \in Stations : x # c =>
               Flushed(o.broker.topics, o.broker.held)[x] = Flushed(retained, wire)[x]
<1>1. PICK out \in PublishOutcomes(Broker, StationDoc(c, rec)) :
         o = [broker |-> out, rec |-> [rec EXCEPT !.dirty = out.err]]
  BY DEF Published
<1>2. DocOf(rec) \in Docs
  BY DEF DocOf, Docs, Heard
<1>3. StationDoc(c, rec) \in Pubs /\ StationDoc(c, rec).station = c
      /\ StationDoc(c, rec).doc = DocOf(rec)
  BY <1>2 DEF StationDoc, Pubs
<1>4. PICK pub \in Pubs : pub = StationDoc(c, rec)
  BY <1>3
<1>5. /\ out.topics \in Topics /\ out.held \in Seq(Pubs) /\ out.err \in BOOLEAN
      /\ ~ out.err => Flushed(out.topics, out.held)[c] = DocOf(rec)
      /\ \A x \in Stations : x # c => Flushed(out.topics, out.held)[x] = Flushed(retained, wire)[x]
  BY <1>1, <1>3, <1>4, OutcomeShows
<1>6. o.broker = out /\ o.rec = [rec EXCEPT !.dirty = out.err]
  BY <1>1
<1>7. o.rec \in Heard /\ o.rec.via = rec.via /\ o.rec.dirty = out.err /\ DocOf(o.rec) = DocOf(rec)
  BY <1>5, <1>6 DEF Heard, DocOf
<1> QED
  BY <1>5, <1>6, <1>7

\* The record and the topic of one station move together; the others stay.
Shows(c, rec) ==
    /\ rec \in Heard
    /\ \E o \in Published(Broker, c, rec) :
          /\ SetBroker(o.broker)
          /\ stations' = [x \in DOMAIN stations \cup {c} |-> IF x = c THEN o.rec ELSE stations[x]]

LEMMA ShowsKeeps ==
  ASSUME HubInv, NEW c \in Stations, NEW rec, Shows(c, rec)
  PROVE  /\ StationsShape' /\ BrokerShape' /\ CleanMeansShown'
         /\ DOMAIN stations' = DOMAIN stations \cup {c}
         /\ stations'[c].via = rec.via /\ stations'[c].last = rec.last
         /\ \A x \in DOMAIN stations \ {c} : stations'[x] = stations[x]
         /\ \A x \in Stations \ {c} :
               Flushed(retained', wire')[x] = Flushed(retained, wire)[x]
<1>1. PICK o \in Published(Broker, c, rec) :
         /\ SetBroker(o.broker)
         /\ stations' = [x \in DOMAIN stations \cup {c} |-> IF x = c THEN o.rec ELSE stations[x]]
  BY DEF Shows
<1>2. /\ BrokerShape /\ StationsShape /\ CleanMeansShown /\ rec \in Heard
  BY DEF HubInv, Shows
<1>3. /\ o.broker.topics \in Topics /\ o.broker.held \in Seq(Pubs)
      /\ o.rec \in Heard /\ o.rec.via = rec.via /\ o.rec.last = rec.last
      /\ ~ o.rec.dirty => Flushed(o.broker.topics, o.broker.held)[c] = DocOf(o.rec)
      /\ \A x \in Stations : x # c =>
            Flushed(o.broker.topics, o.broker.held)[x] = Flushed(retained, wire)[x]
  BY <1>1, <1>2, PublishedShows
<1>4. retained' = o.broker.topics /\ wire' = o.broker.held
  BY <1>1 DEF SetBroker
<1>5. /\ DOMAIN stations' = DOMAIN stations \cup {c} /\ stations'[c] = o.rec
      /\ \A x \in DOMAIN stations \ {c} : stations'[x] = stations[x]
  BY <1>1
<1>6. StationsShape' /\ BrokerShape'
  BY <1>1, <1>2, <1>3, <1>4, <1>5 DEF StationsShape, BrokerShape
<1>7. \A x \in Stations : x # c => Flushed(retained', wire')[x] = Flushed(retained, wire)[x]
  BY <1>3, <1>4
<1>8. ~ o.rec.dirty => Flushed(retained', wire')[c] = DocOf(o.rec)
  BY <1>3, <1>4
<1>9. ASSUME NEW x \in DOMAIN stations', ~ stations'[x].dirty
      PROVE  Flushed(retained', wire')[x] = DocOf(stations'[x])
  <2>1. CASE x = c
    BY <1>5, <1>8, <1>9, <2>1
  <2>2. CASE x # c
    <3>1. x \in DOMAIN stations /\ x \in Stations /\ stations'[x] = stations[x]
      BY <1>2, <1>5, <1>9, <2>2 DEF StationsShape
    <3>2. Flushed(retained, wire)[x] = DocOf(stations[x])
      BY <1>2, <1>9, <3>1 DEF CleanMeansShown
    <3> QED BY <1>7, <2>2, <3>1, <3>2
  <2> QED BY <2>1, <2>2
<1>10. CleanMeansShown'
  BY <1>9 DEF CleanMeansShown
<1> QED
  BY <1>3, <1>5, <1>6, <1>7, <1>10

LEMMA RecordIsHeard ==
  ASSUME HubInv, NEW c
  PROVE  Record(c) \in Heard
<1>1. NewRecord \in Heard
  BY DEF NewRecord, Heard, Bodies
<1> QED
  BY <1>1 DEF Record, HubInv, StationsShape

LEMMA OthersStayExplained ==
  ASSUME OrphansExplained, DOMAIN stations \subseteq DOMAIN stations',
         \A x \in Stations \ DOMAIN stations' :
            Flushed(retained', wire')[x] = Flushed(retained, wire)[x],
         UNCHANGED <<pass, lostDelete, restarts>>
  PROVE  OrphansExplained'
<1>1. ASSUME NEW x \in Stations, x \notin DOMAIN stations', Flushed(retained', wire')[x] # NoDoc
      PROVE  x \in pass'.gone \/ x \in lostDelete' \/ restarts' > 0
  <2>1. x \in pass.gone \/ x \in lostDelete \/ restarts > 0
    BY <1>1 DEF OrphansExplained
  <2> QED BY <2>1
<1> QED
  BY <1>1 DEF OrphansExplained

\* A digest on the feed is remembered at least as freshly.
LEMMA FeedApplies ==
  ASSUME FeedRemembered, AgesShape, NEW p, PublishPacket(p),
         seen' = [d \in DOMAIN seen \cup {p.body} |-> IF d = p.body THEN 0 ELSE seen[d]]
  PROVE  FeedRemembered' /\ AgesShape'
<1>1. PICK b : b = p.body
  OBVIOUS
<1>2. DigestWindow \in Nat
  BY HubAssumption
<1>3. /\ seen' = [d \in DOMAIN seen \cup {b} |-> IF d = b THEN 0 ELSE seen[d]]
      /\ seen' \in [DOMAIN seen' -> Nat]
  BY <1>1 DEF AgesShape
<1>4. CASE FirstSeen(p)
  <2>1. feed' = [d \in DOMAIN feed \cup {b} |-> IF d = b THEN 0 ELSE feed[d]]
    BY <1>1, <1>4 DEF PublishPacket
  <2>2. b \in DOMAIN feed => feed[b] > DigestWindow
    BY <1>1, <1>4 DEF FeedRemembered, FirstSeen
  <2>3. again' = {}
    <3>1. ~ (b \in DOMAIN feed /\ feed[b] <= DigestWindow)
      BY <1>2, <2>2 DEF AgesShape
    <3> QED BY <1>1, <1>4, <3>1 DEF PublishPacket, FeedRemembered
  <2>4. feed' \in [DOMAIN feed' -> Nat]
    BY <2>1 DEF AgesShape
  <2>5. ASSUME NEW d \in DOMAIN feed'
        PROVE  feed'[d] > DigestWindow \/ (d \in DOMAIN seen' /\ seen'[d] <= feed'[d])
    BY <1>3, <2>1, <2>5 DEF FeedRemembered
  <2> QED BY <1>3, <2>3, <2>4, <2>5 DEF FeedRemembered, AgesShape
<1>5. CASE ~ FirstSeen(p)
  <2>1. feed' = feed /\ again' = {}
    BY <1>5 DEF PublishPacket, FeedRemembered
  <2>2. ASSUME NEW d \in DOMAIN feed
        PROVE  feed[d] > DigestWindow \/ (d \in DOMAIN seen' /\ seen'[d] <= feed[d])
    <3>1. feed[d] \in Nat
      BY DEF AgesShape
    <3> QED BY <1>3, <3>1 DEF FeedRemembered
  <2> QED BY <1>3, <2>1, <2>2 DEF FeedRemembered, AgesShape
<1> QED
  BY <1>4, <1>5

\* An application that raises an event is of other content, or by another receiver.
LEMMA EventApplies ==
  ASSUME HubInv, NEW p \in Packets, NEW via \in Backends, ~ Duplicate(p, via),
         ReceiveMessage(p, via),
         DOMAIN stations' = DOMAIN stations \cup {p.src},
         stations'[p.src].via = Record(p.src).via \cup {via},
         stations'[p.src].last = p.body,
         \A x \in DOMAIN stations \ {p.src} : stations'[x] = stations[x]
  PROVE  LastIsOnRecord'
<1>1. PICK E \in {{}, {<<p.src, p.body, via>>}} :
         /\ told' = [e \in DOMAIN told \cup E |->
                       IF e \in E THEN "last"
                       ELSE IF e[1] = p.src /\ e[2] # p.body THEN "overtaken"
                       ELSE told[e]]
         /\ repeats' = repeats \cup {told[e] : e \in E \cap DOMAIN told}
  BY DEF ReceiveMessage
<1>2. /\ "last" \notin repeats
      /\ \A e \in DOMAIN told : told[e] = "last" =>
            /\ e[1] \in DOMAIN stations
            /\ stations[e[1]].last = e[2] /\ e[3] \in stations[e[1]].via
  BY DEF HubInv, LastIsOnRecord, RepeatedForCause
<1>3. ASSUME NEW e \in E, e \in DOMAIN told PROVE told[e] # "last"
  <2>1. e[1] = p.src /\ e[2] = p.body /\ e[3] = via
    BY <1>3
  <2>2. ASSUME told[e] = "last" PROVE FALSE
    <3>1. p.src \in DOMAIN stations /\ stations[p.src].last = p.body /\ via \in stations[p.src].via
      BY <1>2, <1>3, <2>1, <2>2
    <3>2. Record(p.src) = stations[p.src]
      BY <3>1 DEF Record
    <3> QED BY <3>1, <3>2 DEF Duplicate
  <2> QED BY <2>2
<1>4. RepeatedForCause'
  BY <1>1, <1>2, <1>3 DEF RepeatedForCause
<1>5. ASSUME NEW e \in DOMAIN told', told'[e] = "last"
      PROVE  /\ e[1] \in DOMAIN stations'
             /\ stations'[e[1]].last = e[2] /\ e[3] \in stations'[e[1]].via
  <2>1. CASE e \in E
    <3>1. e[1] = p.src /\ e[2] = p.body /\ e[3] = via
      BY <2>1
    <3> QED BY <3>1
  <2>2. CASE e \notin E
    <3>1. e \in DOMAIN told /\ told[e] = "last" /\ (e[1] = p.src => e[2] = p.body)
      BY <1>1, <1>5, <2>2
    <3>2. /\ e[1] \in DOMAIN stations
          /\ stations[e[1]].last = e[2] /\ e[3] \in stations[e[1]].via
      BY <1>2, <3>1
    <3>3. CASE e[1] = p.src
      BY <3>1, <3>2, <3>3 DEF Record
    <3>4. CASE e[1] # p.src
      BY <3>2, <3>4
    <3> QED BY <3>3, <3>4
  <2> QED BY <2>1, <2>2
<1> QED
  BY <1>4, <1>5 DEF LastIsOnRecord

LEMMA QueueHead ==
  ASSUME NEW S, NEW q \in Seq(S), q # <<>>
  PROVE  Head(q) \in S /\ Tail(q) \in Seq(S)
OBVIOUS

LEMMA QueueAppend ==
  ASSUME NEW S, NEW q \in Seq(S), NEW x \in S
  PROVE  Append(q, x) \in Seq(S)
OBVIOUS

LEMMA ApplyKeeps == HubInv /\ Apply => HubInv'
<1> SUFFICES ASSUME HubInv, Apply PROVE HubInv'
  OBVIOUS
<1>1. PICK op \in [p : Packets, via : Backends] : op = Head(ops)
  <2>1. ops \in Seq([p : Packets, via : Backends]) /\ ops # <<>>
    BY DEF HubInv, QueueShape, Apply
  <2>2. Head(ops) \in [p : Packets, via : Backends]
    BY <2>1, QueueHead
  <2> QED BY <2>2
<1>2. PICK p \in Packets : p = op.p
  OBVIOUS
<1>3. PICK via \in Backends : via = op.via
  OBVIOUS
<1>4. PICK rec : rec = Merge(Record(p.src), p, via)
  OBVIOUS
<1>5. /\ ~ Duplicate(p, via) /\ PublishPacket(p) /\ ReceiveMessage(p, via)
      /\ seen' = [d \in DOMAIN seen \cup {p.body} |-> IF d = p.body THEN 0 ELSE seen[d]]
      /\ ops' = Tail(ops) /\ ops # <<>>
      /\ UNCHANGED <<pass, lostDelete, restarts>> /\ WorkerFree
  BY <1>1, <1>2, <1>3 DEF Apply
<1>6. PICK c \in Stations : c = p.src
  BY HubAssumption DEF PacketOK
<1>7. \E o \in Published(Broker, c, rec) :
         /\ SetBroker(o.broker)
         /\ stations' = [x \in DOMAIN stations \cup {c} |-> IF x = c THEN o.rec ELSE stations[x]]
  BY <1>1, <1>2, <1>3, <1>4, <1>6 DEF Apply
<1>8. rec \in Heard /\ rec.via = Record(c).via \cup {via} /\ rec.last = p.body
  <2>1. PICK old : old = Record(c)
    OBVIOUS
  <2>2. old \in Heard
    BY <2>1, RecordIsHeard
  <2>3. rec = [old EXCEPT !.last = p.body, !.via = old.via \cup {via}, !.age = 0]
    BY <1>4, <1>6, <2>1 DEF Merge
  <2>4. p.body \in Bodies
    BY DEF Bodies
  <2>5. rec \in Heard /\ rec.via = old.via \cup {via} /\ rec.last = p.body
    BY <2>2, <2>3, <2>4 DEF Heard
  <2> QED BY <2>1, <2>5
<1>9. Shows(c, rec)
  BY <1>7, <1>8 DEF Shows
<1>10. /\ StationsShape' /\ BrokerShape' /\ CleanMeansShown'
       /\ DOMAIN stations' = DOMAIN stations \cup {c}
       /\ stations'[c].via = rec.via /\ stations'[c].last = rec.last
       /\ \A x \in DOMAIN stations \ {c} : stations'[x] = stations[x]
       /\ \A x \in Stations \ {c} : Flushed(retained', wire')[x] = Flushed(retained, wire)[x]
  BY <1>9, ShowsKeeps
<1>11. OrphansExplained'
  BY <1>5, <1>10, OthersStayExplained DEF HubInv
<1>12. FeedRemembered' /\ AgesShape'
  BY <1>5, FeedApplies DEF HubInv
<1>13. LastIsOnRecord'
  BY <1>5, <1>6, <1>8, <1>10, EventApplies
<1>14. PassShape'
  BY <1>5 DEF PassShape, WorkerFree, HubInv
<1>15. QueueShape'
  BY <1>5 DEF QueueShape, HubInv
<1> QED
  BY <1>10, <1>11, <1>12, <1>13, <1>14, <1>15 DEF HubInv

LEMMA PublishSelfKeeps == HubInv /\ PublishSelf => HubInv'
<1> SUFFICES ASSUME HubInv, PublishSelf PROVE HubInv'
  OBVIOUS
<1>1. PICK c \in Stations : c = Me
  BY HubAssumption
<1>2. PICK rec : rec = [Record(c) EXCEPT !.self = TRUE]
  OBVIOUS
<1>3. /\ \E o \in Published(Broker, c, rec) :
            /\ SetBroker(o.broker)
            /\ stations' = [x \in DOMAIN stations \cup {c} |-> IF x = c THEN o.rec ELSE stations[x]]
      /\ UNCHANGED <<pass, seen, ops, lostDelete, feed, again, told, repeats, restarts>> /\ WorkerFree
  BY <1>1, <1>2 DEF PublishSelf
<1>4. rec \in Heard /\ rec.via = Record(c).via /\ rec.last = Record(c).last
  <2>1. PICK old : old = Record(c)
    OBVIOUS
  <2>2. old \in Heard
    BY <2>1, RecordIsHeard
  <2> QED BY <1>2, <2>1, <2>2 DEF Heard
<1>5. Shows(c, rec)
  BY <1>3, <1>4 DEF Shows
<1>6. /\ StationsShape' /\ BrokerShape' /\ CleanMeansShown'
      /\ DOMAIN stations' = DOMAIN stations \cup {c}
      /\ stations'[c].via = rec.via /\ stations'[c].last = rec.last
      /\ \A x \in DOMAIN stations \ {c} : stations'[x] = stations[x]
      /\ \A x \in Stations \ {c} : Flushed(retained', wire')[x] = Flushed(retained, wire)[x]
  BY <1>5, ShowsKeeps
<1>7. OrphansExplained'
  BY <1>3, <1>6, OthersStayExplained DEF HubInv
<1>8. FeedRemembered' /\ AgesShape' /\ QueueShape' /\ PassShape'
  <2>1. FeedRemembered' /\ AgesShape' /\ QueueShape'
    BY <1>3 DEF HubInv, FeedRemembered, AgesShape, QueueShape
  <2>2. PassShape'
    BY <1>3 DEF HubInv, PassShape, WorkerFree
  <2> QED BY <2>1, <2>2
<1>9. LastIsOnRecord'
  <2>1. UNCHANGED <<told, repeats>> /\ RepeatedForCause
    BY <1>3 DEF HubInv, LastIsOnRecord
  <2>2. ASSUME NEW e \in DOMAIN told, told[e] = "last"
        PROVE  /\ e[1] \in DOMAIN stations'
               /\ stations'[e[1]].last = e[2] /\ e[3] \in stations'[e[1]].via
    <3>1. /\ e[1] \in DOMAIN stations
          /\ stations[e[1]].last = e[2] /\ e[3] \in stations[e[1]].via
      BY <2>2 DEF HubInv, LastIsOnRecord
    <3>2. CASE e[1] = c
      BY <1>4, <1>6, <3>1, <3>2 DEF Record
    <3>3. CASE e[1] # c
      BY <1>6, <3>1, <3>3
    <3> QED BY <3>2, <3>3
  <2> QED BY <2>1, <2>2 DEF LastIsOnRecord, RepeatedForCause
<1> QED
  BY <1>6, <1>7, <1>8, <1>9 DEF HubInv

LEMMA RetryKeeps == ASSUME NEW c \in Stations PROVE HubInv /\ RetryStation(c) => HubInv'
<1> SUFFICES ASSUME HubInv, RetryStation(c) PROVE HubInv'
  OBVIOUS
<1>1. c \in DOMAIN stations /\ stations \in [DOMAIN stations -> Heard]
  BY DEF HubInv, PassShape, StationsShape, RetryStation
<1>2. PICK rec \in Heard : rec = stations[c]
  BY <1>1 DEF HubInv, StationsShape
<1>3. PICK o \in Published(Broker, c, rec) :
         SetBroker(o.broker) /\ stations' = [stations EXCEPT ![c] = o.rec]
  BY <1>2 DEF RetryStation
<1>4. stations' = [x \in DOMAIN stations \cup {c} |-> IF x = c THEN o.rec ELSE stations[x]]
  <2>1. DOMAIN stations \cup {c} = DOMAIN stations
    BY <1>1
  <2> QED BY <1>1, <1>3, <2>1
<1>5. Shows(c, rec)
  BY <1>2, <1>3, <1>4 DEF Shows
<1>6. /\ StationsShape' /\ BrokerShape' /\ CleanMeansShown'
      /\ DOMAIN stations' = DOMAIN stations \cup {c}
      /\ stations'[c].via = rec.via /\ stations'[c].last = rec.last
      /\ \A x \in DOMAIN stations \ {c} : stations'[x] = stations[x]
      /\ \A x \in Stations \ {c} : Flushed(retained', wire')[x] = Flushed(retained, wire)[x]
  BY <1>5, ShowsKeeps
<1>7. /\ pass' = [pass EXCEPT !.retry = pass.retry \ {c}] /\ pass.gone = {}
      /\ UNCHANGED <<seen, ops, lostDelete, feed, again, told, repeats, restarts>>
  BY DEF RetryStation
<1>8. DOMAIN stations' = DOMAIN stations
      /\ \A x \in DOMAIN stations : /\ stations'[x].via = stations[x].via
                                    /\ stations'[x].last = stations[x].last
  BY <1>1, <1>2, <1>6
<1>9. PassShape'
  BY <1>7, <1>8 DEF HubInv, PassShape
<1>10. OrphansExplained'
  <2>1. \A x \in Stations \ DOMAIN stations' : Flushed(retained', wire')[x] = Flushed(retained, wire)[x]
    BY <1>1, <1>6
  <2>2. ASSUME NEW x \in Stations, x \notin DOMAIN stations', Flushed(retained', wire')[x] # NoDoc
        PROVE  x \in pass'.gone \/ x \in lostDelete' \/ restarts' > 0
    <3>1. Flushed(retained, wire)[x] # NoDoc /\ x \notin DOMAIN stations
      BY <1>8, <2>1, <2>2
    <3>2. x \in pass.gone \/ x \in lostDelete \/ restarts > 0
      BY <3>1 DEF HubInv, OrphansExplained
    <3> QED BY <1>7, <3>2
  <2> QED BY <2>2 DEF OrphansExplained
<1>11. FeedRemembered' /\ AgesShape' /\ QueueShape'
  BY <1>7 DEF HubInv, FeedRemembered, AgesShape, QueueShape
<1>12. LastIsOnRecord'
  BY <1>7, <1>8 DEF HubInv, LastIsOnRecord, RepeatedForCause
<1> QED
  BY <1>6, <1>9, <1>10, <1>11, <1>12 DEF HubInv

\* A deletion that is neither confirmed nor held by the client is a lost one.
LEMMA DeletionKeepsTopics == ASSUME NEW c \in Stations PROVE HubInv /\ DeleteTopic(c) => HubInv'
<1> SUFFICES ASSUME HubInv, DeleteTopic(c) PROVE HubInv'
  OBVIOUS
<1>1. PICK pub \in Pubs : pub = [station |-> c, doc |-> NoDoc]
  BY DEF Pubs, Docs
<1>2. PICK o \in PublishOutcomes(Broker, pub) :
         /\ SetBroker(o)
         /\ lostDelete' = IF Flushed(o.topics, o.held)[c] = NoDoc
                          THEN lostDelete \ {c} ELSE lostDelete \cup {c}
  BY <1>1 DEF DeleteTopic
<1>3. /\ o.topics \in Topics /\ o.held \in Seq(Pubs) /\ pub.station = c
      /\ \A x \in Stations : x # c =>
            Flushed(o.topics, o.held)[x] = Flushed(retained, wire)[x]
  BY <1>1, <1>2, OutcomeShows DEF HubInv
<1>4. /\ pass' = [pass EXCEPT !.gone = pass.gone \ {c}] /\ c \in pass.gone
      /\ UNCHANGED <<stations, seen, ops, feed, again, told, repeats, restarts>>
      /\ retained' = o.topics /\ wire' = o.held
  BY <1>2 DEF DeleteTopic, SetBroker
<1>5. BrokerShape'
  BY <1>3, <1>4 DEF BrokerShape
<1>6. \A x \in Stations : x # c => Flushed(retained', wire')[x] = Flushed(retained, wire)[x]
  BY <1>3, <1>4
<1>7. c \notin DOMAIN stations /\ DOMAIN stations \subseteq Stations
  BY <1>4 DEF HubInv, PassShape, StationsShape
<1>8. CleanMeansShown'
  <2>1. ASSUME NEW x \in DOMAIN stations', ~ stations'[x].dirty
        PROVE  Flushed(retained', wire')[x] = DocOf(stations'[x])
    <3>1. x # c /\ x \in Stations /\ x \in DOMAIN stations /\ stations'[x] = stations[x]
      BY <1>4, <1>7, <2>1
    <3>2. Flushed(retained, wire)[x] = DocOf(stations[x])
      BY <2>1, <3>1 DEF HubInv, CleanMeansShown
    <3> QED BY <1>6, <3>1, <3>2
  <2> QED BY <2>1 DEF CleanMeansShown
<1>9. OrphansExplained'
  <2>1. ASSUME NEW x \in Stations, x \notin DOMAIN stations', Flushed(retained', wire')[x] # NoDoc
        PROVE  x \in pass'.gone \/ x \in lostDelete' \/ restarts' > 0
    <3>1. CASE x = c
      BY <1>2, <1>4, <2>1, <3>1
    <3>2. CASE x # c
      <4>1. Flushed(retained, wire)[x] # NoDoc /\ x \notin DOMAIN stations
        BY <1>4, <1>6, <2>1, <3>2
      <4>2. x \in pass.gone \/ x \in lostDelete \/ restarts > 0
        BY <4>1 DEF HubInv, OrphansExplained
      <4>3. pass.gone \ {c} = pass'.gone
        BY <1>4 DEF HubInv, PassShape
      <4> QED BY <1>2, <1>4, <3>2, <4>2, <4>3
    <3> QED BY <3>1, <3>2
  <2> QED BY <2>1 DEF OrphansExplained
<1>10. PassShape' /\ StationsShape'
  BY <1>4 DEF HubInv, PassShape, StationsShape
<1>11. FeedRemembered' /\ AgesShape' /\ QueueShape'
  BY <1>4 DEF HubInv, FeedRemembered, AgesShape, QueueShape
<1>12. LastIsOnRecord'
  BY <1>4 DEF HubInv, LastIsOnRecord, RepeatedForCause
<1> QED
  BY <1>5, <1>8, <1>9, <1>10, <1>11, <1>12 DEF HubInv

LEMMA MaintenanceKeeps == HubInv /\ MaintenanceBegins => HubInv'
<1> SUFFICES ASSUME HubInv, MaintenanceBegins PROVE HubInv'
  OBVIOUS
<1>1. /\ pass' = [gone |-> Stale, retry |-> Dirty]
      /\ stations' = [c \in DOMAIN stations \ Stale |-> stations[c]]
      /\ seen' = [d \in {e \in DOMAIN seen : seen[e] <= DigestWindow} |-> seen[d]]
      /\ told' = [e \in {f \in DOMAIN told : f[1] \notin Stale} |-> told[e]]
      /\ UNCHANGED <<ops, retained, wire, lostDelete, feed, again, repeats, restarts>>
      /\ WorkerFree
  BY DEF MaintenanceBegins, Forgotten, broker
<1>2. /\ DOMAIN stations' = DOMAIN stations \ Stale
      /\ \A x \in DOMAIN stations' : x \in DOMAIN stations /\ stations'[x] = stations[x]
      /\ Stale \subseteq DOMAIN stations /\ DOMAIN stations \subseteq Stations
      /\ Dirty \subseteq DOMAIN stations \ Stale
  BY <1>1 DEF Stale, Dirty, HubInv, StationsShape
<1>3. StationsShape'
  BY <1>1, <1>2 DEF HubInv, StationsShape
<1>4. PassShape'
  BY <1>1, <1>2 DEF PassShape
<1>5. BrokerShape' /\ QueueShape'
  BY <1>1 DEF HubInv, BrokerShape, QueueShape
<1>6. CleanMeansShown'
  BY <1>1, <1>2 DEF HubInv, CleanMeansShown
<1>7. OrphansExplained'
  <2>1. ASSUME NEW x \in Stations, x \notin DOMAIN stations', Flushed(retained', wire')[x] # NoDoc
        PROVE  x \in pass'.gone \/ x \in lostDelete' \/ restarts' > 0
    <3>1. CASE x \in DOMAIN stations
      BY <1>1, <1>2, <2>1, <3>1
    <3>2. CASE x \notin DOMAIN stations
      <4>1. Flushed(retained, wire)[x] # NoDoc
        BY <1>1, <2>1
      <4>2. x \in pass.gone \/ x \in lostDelete \/ restarts > 0
        BY <3>2, <4>1 DEF HubInv, OrphansExplained
      <4> QED BY <1>1, <4>2 DEF WorkerFree
    <3> QED BY <3>1, <3>2
  <2> QED BY <2>1 DEF OrphansExplained
<1>8. AgesShape' /\ FeedRemembered'
  <2>1. AgesShape'
    BY <1>1 DEF HubInv, AgesShape
  <2>2. ASSUME NEW d \in DOMAIN feed
        PROVE  feed[d] > DigestWindow \/ (d \in DOMAIN seen' /\ seen'[d] <= feed[d])
    <3>1. feed[d] \in Nat /\ DigestWindow \in Nat /\ (d \in DOMAIN seen => seen[d] \in Nat)
      BY HubAssumption DEF HubInv, AgesShape
    <3>2. feed[d] > DigestWindow \/ (d \in DOMAIN seen /\ seen[d] <= feed[d])
      BY DEF HubInv, FeedRemembered
    <3> QED BY <1>1, <3>1, <3>2
  <2> QED BY <1>1, <2>1, <2>2 DEF HubInv, FeedRemembered
<1>9. LastIsOnRecord'
  BY <1>1, <1>2 DEF HubInv, LastIsOnRecord, RepeatedForCause
<1> QED
  BY <1>3, <1>4, <1>5, <1>6, <1>7, <1>8, <1>9 DEF HubInv

LEMMA ArrivalKeeps == HubInv /\ HeldArrives => HubInv'
<1> SUFFICES ASSUME HubInv, HeldArrives PROVE HubInv'
  OBVIOUS
<1>1. /\ retained' = Put(retained, Head(wire)) /\ wire' = Tail(wire) /\ wire # <<>>
      /\ retained \in Topics /\ wire \in Seq(Pubs)
      /\ UNCHANGED <<stations, pass, seen, ops, lostDelete, feed, again, told, repeats, restarts>>
  BY DEF HeldArrives, registry, HubInv, BrokerShape
<1>2. Head(wire) \in Pubs /\ Tail(wire) \in Seq(Pubs)
  BY <1>1, QueueHead
<1>3. BrokerShape'
  BY <1>1, <1>2, PutShows DEF BrokerShape
<1>4. \A x \in Stations : Flushed(retained', wire')[x] = Flushed(retained, wire)[x]
  BY <1>1, FlushedHead
<1>5. CleanMeansShown'
  <2>1. ASSUME NEW x \in DOMAIN stations, ~ stations[x].dirty
        PROVE  Flushed(retained', wire')[x] = DocOf(stations[x])
    BY <1>4, <2>1 DEF HubInv, StationsShape, CleanMeansShown
  <2> QED BY <1>1, <2>1 DEF CleanMeansShown
<1>6. OrphansExplained'
  BY <1>1, <1>4, OthersStayExplained DEF HubInv
<1>7. StationsShape' /\ PassShape' /\ QueueShape' /\ AgesShape' /\ FeedRemembered' /\ LastIsOnRecord'
  BY <1>1 DEF HubInv, StationsShape, PassShape, QueueShape, AgesShape, FeedRemembered,
              LastIsOnRecord, RepeatedForCause
<1> QED
  BY <1>3, <1>5, <1>6, <1>7 DEF HubInv

LEMMA OlderFacts ==
  ASSUME NEW a \in Nat, NEW limit \in Nat
  PROVE  /\ Older(a, limit) \in Nat
         /\ a > limit => Older(a, limit) > limit
         /\ \A b \in Nat : a <= b => Older(a, limit) <= Older(b, limit) \/ Older(b, limit) > limit
BY DEF Older

LEMMA ClockKeeps == HubInv /\ Clock => HubInv'
<1> SUFFICES ASSUME HubInv, Clock PROVE HubInv'
  OBVIOUS
<1>1. /\ stations' = [c \in DOMAIN stations |->
                         [stations[c] EXCEPT !.age = Older(stations[c].age, StationTTL)]]
      /\ seen' = [d \in DOMAIN seen |-> Older(seen[d], DigestWindow)]
      /\ feed' = [d \in DOMAIN feed |-> Older(feed[d], DigestWindow)]
      /\ UNCHANGED <<pass, ops, retained, wire, lostDelete, again, told, repeats, restarts>>
      /\ StationTTL \in Nat /\ DigestWindow \in Nat
  BY HubAssumption DEF Clock, broker
<1>2. ASSUME NEW c \in DOMAIN stations
      PROVE  /\ stations'[c] \in Heard /\ DocOf(stations'[c]) = DocOf(stations[c])
             /\ stations'[c].via = stations[c].via /\ stations'[c].last = stations[c].last
             /\ stations'[c].dirty = stations[c].dirty
  <2>1. PICK rec \in Heard : rec = stations[c]
    BY DEF HubInv, StationsShape
  <2>2. PICK a \in Nat : a = Older(rec.age, StationTTL)
    BY <1>1, OlderFacts DEF Heard
  <2>3. stations'[c] = [rec EXCEPT !.age = a]
    BY <1>1, <2>1, <2>2
  <2> QED BY <2>1, <2>3 DEF Heard, DocOf
<1>3. DOMAIN stations' = DOMAIN stations /\ stations' = [c \in DOMAIN stations |-> stations'[c]]
  BY <1>1
<1>4. StationsShape'
  BY <1>2, <1>3 DEF HubInv, StationsShape
<1>5. PassShape' /\ QueueShape' /\ BrokerShape'
  BY <1>1, <1>3 DEF HubInv, PassShape, QueueShape, BrokerShape
<1>6. CleanMeansShown'
  <2>1. ASSUME NEW x \in DOMAIN stations, ~ stations'[x].dirty
        PROVE  Flushed(retained, wire)[x] = DocOf(stations'[x])
    BY <1>2, <2>1 DEF HubInv, CleanMeansShown
  <2>2. Flushed(retained', wire') = Flushed(retained, wire)
    BY <1>1
  <2> QED BY <1>3, <2>1, <2>2 DEF CleanMeansShown
<1>7. OrphansExplained'
  <2>1. Flushed(retained', wire') = Flushed(retained, wire)
    BY <1>1
  <2> QED BY <1>1, <1>3, <2>1, OthersStayExplained DEF HubInv
<1>8. AgesShape'
  BY <1>1, OlderFacts DEF HubInv, AgesShape
<1>9. FeedRemembered'
  <2>1. ASSUME NEW d \in DOMAIN feed
        PROVE  feed'[d] > DigestWindow \/ (d \in DOMAIN seen /\ seen'[d] <= feed'[d])
    <3>1. feed[d] \in Nat /\ feed'[d] = Older(feed[d], DigestWindow)
      BY <1>1 DEF HubInv, AgesShape
    <3>2. CASE feed[d] > DigestWindow
      BY <1>1, <3>1, <3>2, OlderFacts
    <3>3. CASE d \in DOMAIN seen /\ seen[d] <= feed[d]
      <4>1. seen[d] \in Nat /\ seen'[d] = Older(seen[d], DigestWindow)
        BY <1>1, <3>3 DEF HubInv, AgesShape
      <4> QED BY <1>1, <3>1, <3>3, <4>1, OlderFacts
    <3> QED BY <3>2, <3>3 DEF HubInv, FeedRemembered
  <2>2. DOMAIN feed' = DOMAIN feed /\ DOMAIN seen' = DOMAIN seen
    BY <1>1
  <2> QED BY <1>1, <2>1, <2>2 DEF HubInv, FeedRemembered
<1>10. LastIsOnRecord'
  BY <1>1, <1>2, <1>3 DEF HubInv, LastIsOnRecord, RepeatedForCause
<1> QED
  BY <1>4, <1>5, <1>6, <1>7, <1>8, <1>9, <1>10 DEF HubInv

\* Nothing is on record, and either nothing is shown or it is left over.
NewProcess ==
    /\ stations = <<>> /\ seen = <<>> /\ feed = <<>> /\ ops = <<>> /\ wire = <<>> /\ again = {}
    /\ pass = [gone |-> {}, retry |-> {}]
    /\ "last" \notin repeats /\ \A e \in DOMAIN told : told[e] # "last"
    /\ retained \in Topics /\ restarts \in Nat
    /\ retained = [c \in Stations |-> NoDoc] \/ restarts > 0

LEMMA NewProcessFits == NewProcess => HubInv
<1> SUFFICES ASSUME NewProcess PROVE HubInv
  OBVIOUS
<1>1. DOMAIN stations = {} /\ DOMAIN seen = {} /\ DOMAIN feed = {}
  BY DEF NewProcess
<1>2. StationsShape /\ AgesShape /\ QueueShape
  <2>1. stations = [c \in DOMAIN stations |-> stations[c]] /\ seen = [d \in DOMAIN seen |-> seen[d]]
        /\ feed = [d \in DOMAIN feed |-> feed[d]]
    BY DEF NewProcess
  <2> QED BY <1>1, <2>1 DEF NewProcess, StationsShape, AgesShape, QueueShape
<1>3. BrokerShape /\ PassShape
  BY <1>1 DEF NewProcess, BrokerShape, PassShape
<1>4. CleanMeansShown /\ FeedRemembered
  BY <1>1 DEF NewProcess, CleanMeansShown, FeedRemembered
<1>5. OrphansExplained
  <2>1. wire = <<>> /\ retained \in Topics
        /\ (retained = [c \in Stations |-> NoDoc] \/ restarts > 0)
    BY DEF NewProcess
  <2>2. \A c \in Stations : Flushed(retained, wire)[c] = retained[c]
    BY <2>1, FlushedNothing
  <2> QED BY <2>1, <2>2 DEF OrphansExplained
<1>6. LastIsOnRecord
  BY DEF NewProcess, LastIsOnRecord, RepeatedForCause
<1> QED
  BY <1>2, <1>3, <1>4, <1>5, <1>6 DEF HubInv

LEMMA HubBegins == HubInit => HubInv
<1>1. [c \in Stations |-> NoDoc] \in Topics
  BY DEF Topics, Docs
<1> QED
  BY <1>1, NewProcessFits DEF HubInit, NewProcess

LEMMA HubRestarts == HubInv /\ Restart => HubInv'
<1> SUFFICES ASSUME HubInv, Restart PROVE NewProcess'
  BY NewProcessFits, PTL
<1>1. restarts' > 0 /\ restarts' \in Nat
  <2>1. restarts \in Nat
    BY DEF HubInv, QueueShape
  <2> QED BY <2>1 DEF Restart
<1>2. "last" \notin repeats' /\ \A e \in DOMAIN told' : told'[e] # "last"
  <2>1. repeats' = repeats /\ told' = <<>>
    BY DEF Restart
  <2>2. "last" \notin repeats
    BY DEF HubInv, LastIsOnRecord, RepeatedForCause
  <2> QED BY <2>1, <2>2
<1> QED
  BY <1>1, <1>2 DEF HubInv, BrokerShape, Restart, NewProcess

LEMMA HubKeeps == HubInv /\ [HubNext]_hubVars => HubInv'
<1> SUFFICES ASSUME HubInv, [HubNext]_hubVars PROVE HubInv'
  OBVIOUS
<1>1. ASSUME NEW p \in Packets, NEW b \in Backends, Observe(p, b) PROVE HubInv'
  <2>1. /\ ops' = Append(ops, [p |-> p, via |-> b])
        /\ UNCHANGED <<stations, pass, seen, retained, wire, lostDelete, feed, again,
                       told, repeats, restarts>>
    BY <1>1 DEF Observe, registry, broker
  <2>2. QueueShape'
    <3>1. ops \in Seq([p : Packets, via : Backends])
          /\ [p |-> p, via |-> b] \in [p : Packets, via : Backends]
      BY DEF HubInv, QueueShape
    <3>2. ops' \in Seq([p : Packets, via : Backends])
      BY <2>1, <3>1, QueueAppend
    <3>3. restarts' \in Nat
      BY <2>1 DEF HubInv, QueueShape
    <3> QED BY <3>2, <3>3 DEF QueueShape
  <2> QED BY <2>1, <2>2 DEF HubInv, StationsShape, BrokerShape, PassShape, AgesShape,
             CleanMeansShown, OrphansExplained, FeedRemembered, LastIsOnRecord,
             RepeatedForCause
<1>2. CASE ObserveDropped \/ UNCHANGED hubVars
  BY <1>2 DEF ObserveDropped, hubVars, HubInv, StationsShape, BrokerShape, PassShape,
     QueueShape, AgesShape, CleanMeansShown, OrphansExplained, FeedRemembered, LastIsOnRecord,
     RepeatedForCause
<1>3. CASE ApplySkips
  <2>1. /\ ops' = Tail(ops) /\ ops # <<>>
        /\ UNCHANGED <<stations, pass, seen, retained, wire, lostDelete, feed, again,
                       told, repeats, restarts>>
    BY <1>3 DEF ApplySkips, registry, broker
  <2>2. QueueShape'
    BY <2>1, QueueHead DEF HubInv, QueueShape
  <2> QED BY <2>1, <2>2 DEF HubInv, StationsShape, BrokerShape, PassShape, AgesShape,
             CleanMeansShown, OrphansExplained, FeedRemembered, LastIsOnRecord,
             RepeatedForCause
<1>4. CASE Apply
  BY <1>4, ApplyKeeps
<1>5. CASE PublishSelf
  BY <1>5, PublishSelfKeeps
<1>6. CASE MaintenanceBegins
  BY <1>6, MaintenanceKeeps
<1>7. CASE HeldArrives
  BY <1>7, ArrivalKeeps
<1>8. CASE \E c \in Stations : DeleteTopic(c) \/ RetryStation(c)
  BY <1>8, DeletionKeepsTopics, RetryKeeps
<1>9. CASE Clock
  BY <1>9, ClockKeeps
<1>10. CASE Restart
  BY <1>10, HubRestarts
<1> QED
  BY <1>1, <1>2, <1>3, <1>4, <1>5, <1>6, <1>7, <1>8, <1>9, <1>10 DEF HubNext

(* The registry, the topics and the feed of the hub: whatever publications    *)
(* are lost or late, whatever the receivers hear, and however maintenance     *)
(* and restarts fall.                                                         *)
THEOREM HubSafe == HubSpec => []HubInv
BY HubBegins, HubKeeps, PTL DEF HubSpec

(* publishStation's mark: a station that is not dirty is shown as it is.      *)
THEOREM CleanStationsAreShown == HubSpec => []CleanMeansShown
<1>1. HubInv => CleanMeansShown
  BY DEF HubInv
<1> QED BY <1>1, HubSafe, PTL

(* maintenance: a topic without a record is due for deletion, or its deletion *)
(* was lost, or it is from before the last restart.                           *)
THEOREM OrphansHaveAReason == HubSpec => []OrphansExplained
<1>1. HubInv => OrphansExplained
  BY DEF HubInv
<1> QED BY <1>1, HubSafe, PTL

(* apply and seenDigests: once per window on the feed, and a message is raised *)
(* again through a receiver that has had it only after another packet of its  *)
(* station, or the end of its record.                                         *)
THEOREM PacketsAreHeardOnce == HubSpec => []HeardOnce
<1>1. HubInv => HeardOnce
  BY DEF HubInv, FeedRemembered, LastIsOnRecord, HeardOnce, FeedOncePerWindow
<1> QED BY <1>1, HubSafe, PTL

-----------------------------------------------------------------------------
(***************************************************************************)
(* The KISS stream of the radio session.                                   *)
(***************************************************************************)
Decoders == [buf : Seq(Bytes), esc : BOOLEAN, inFrame : BOOLEAN, wantCmd : BOOLEAN]

StreamShape ==
    /\ sent \in [kind : {"DATA", "CMD"}, payload : Seq(Bytes)]
    /\ left \in 0 .. (Len(sent.payload) + 3) /\ half \in BOOLEAN
    /\ half => left # 0 /\ Len(Unit) = 2
    /\ muddied \in BOOLEAN /\ dec \in Decoders

Between == left = 0 \/ At = 1

(* Where the decoder is in the frame that is being read, whatever its buffer   *)
(* holds: an opening FEND brings it in step from any state.                    *)
InStep ==
    ~ Between =>
        /\ dec.esc <=> half
        /\ cut = <<>>
        /\ At = 2 => dec.inFrame /\ dec.wantCmd
        /\ At > 2 /\ sent.kind = "CMD" => ~ dec.inFrame
        /\ At > 2 /\ sent.kind = "DATA" => dec.inFrame /\ ~ dec.wantCmd

(* The buffer holds what was read of the data frame, also after it broke off.  *)
BufferFollows ==
    ~ muddied =>
        /\ Between => dec.buf = cut /\ (cut # <<>> => dec.inFrame /\ ~ dec.wantCmd)
        /\ ~ Between /\ (At = 2 \/ sent.kind = "CMD") => dec.buf = <<>>
        /\ ~ Between /\ At > 2 /\ sent.kind = "DATA" =>
              Len(dec.buf) = At - 3 /\ \A i \in 1 .. (At - 3) : dec.buf[i] = sent.payload[i]

StreamInv == StreamShape /\ InStep /\ BufferFollows

\* Feed, one case of its switch at a time.
LEMMA FeedEnds ==
  ASSUME NEW d \in Decoders, NEW r, r = Feed(d, "FEND")
  PROVE  /\ r \in Decoders /\ r.inFrame /\ r.wantCmd /\ ~ r.esc
         /\ r.buf = IF Complete(d) THEN <<>> ELSE d.buf
<1>1. PICK q \in Seq(Bytes) : q = IF Complete(d) THEN <<>> ELSE d.buf
  <2>1. d.buf \in Seq(Bytes) /\ <<>> \in Seq(Bytes)
    BY DEF Decoders
  <2> QED BY <2>1
<1>2. r = [d EXCEPT !.buf = q, !.inFrame = TRUE, !.wantCmd = TRUE, !.esc = FALSE]
  BY <1>1 DEF Feed
<1> QED
  BY <1>1, <1>2 DEF Decoders

LEMMA FeedEscape ==
  ASSUME NEW d \in Decoders, ~ d.esc, NEW r, r = Feed(d, "FESC")
  PROVE  /\ r \in Decoders /\ r.esc /\ r.buf = d.buf
         /\ r.inFrame = d.inFrame /\ r.wantCmd = d.wantCmd
<1>1. r = [d EXCEPT !.esc = TRUE]
  BY DEF Feed
<1> QED
  BY <1>1 DEF Decoders

LEMMA FeedEscaped ==
  ASSUME NEW d \in Decoders, d.esc, NEW c \in Bytes, c \in {"FEND", "FESC"},
         NEW r, r = Feed(d, IF c = "FEND" THEN "TFEND" ELSE "TFESC")
  PROVE  /\ r \in Decoders /\ ~ r.esc /\ r.buf = Append(d.buf, c)
         /\ r.inFrame = d.inFrame /\ r.wantCmd = d.wantCmd
<1>1. PICK q \in Seq(Bytes) : q = Append(d.buf, c)
  <2>1. d.buf \in Seq(Bytes)
    BY DEF Decoders
  <2> QED BY <2>1, QueueAppend
<1>2. d.buf \o <<c>> = q
  BY <1>1 DEF Decoders
<1>3. r = [d EXCEPT !.esc = FALSE, !.buf = q]
  <2>1. CASE c = "FEND"
    BY <1>2, <2>1 DEF Feed
  <2>2. CASE c = "FESC"
    BY <1>2, <2>2 DEF Feed
  <2> QED BY <2>1, <2>2
<1> QED
  BY <1>1, <1>3 DEF Decoders

LEMMA FeedCommand ==
  ASSUME NEW d \in Decoders, ~ d.esc, d.wantCmd, NEW b, b \notin {"FEND", "FESC"},
         NEW r, r = Feed(d, b)
  PROVE  /\ r \in Decoders /\ ~ r.esc /\ r.buf = d.buf
         /\ b = "DATA" => r.inFrame = d.inFrame /\ ~ r.wantCmd
         /\ b # "DATA" => ~ r.inFrame /\ r.wantCmd
<1>1. r = IF b = "DATA" THEN [d EXCEPT !.wantCmd = FALSE] ELSE [d EXCEPT !.inFrame = FALSE]
  BY DEF Feed
<1> QED
  BY <1>1 DEF Decoders

LEMMA FeedPlain ==
  ASSUME NEW d \in Decoders, ~ d.esc, ~ d.wantCmd, NEW b \in Bytes, b \notin {"FEND", "FESC"},
         NEW r, r = Feed(d, b)
  PROVE  /\ r \in Decoders /\ ~ r.esc /\ ~ r.wantCmd /\ r.inFrame = d.inFrame
         /\ r.buf = IF d.inFrame THEN Append(d.buf, b) ELSE d.buf
<1>1. PICK q \in Seq(Bytes) : q = IF d.inFrame THEN Append(d.buf, b) ELSE d.buf
  <2>1. d.buf \in Seq(Bytes) /\ <<>> \in Seq(Bytes)
    BY DEF Decoders
  <2> QED BY <2>1, QueueAppend
<1>2. r = [d EXCEPT !.buf = q]
  BY <1>1 DEF Feed
<1> QED
  BY <1>1, <1>2 DEF Decoders

LEMMA Countdown ==
  ASSUME NEW n \in Nat
  PROVE  /\ \A l \in 1 .. (n + 3) : n + 4 - l \in 1 .. (n + 3) /\ l = n + 4 - (n + 4 - l)
         /\ \A l \in Nat : n + 4 - (l - 1) = (n + 4 - l) + 1
         /\ 0 \in 0 .. (n + 3)
OBVIOUS

LEMMA UnitIs ==
  ASSUME StreamShape, left # 0
  PROVE  /\ At \in 1 .. (Len(sent.payload) + 3) /\ Len(sent.payload) \in Nat
         /\ left = Len(sent.payload) + 4 - At
         /\ At = 1 \/ At = Len(sent.payload) + 3 => Unit = <<"FEND">> /\ Len(Unit) = 1
         /\ At = 2 => Unit = <<sent.kind>> /\ Len(Unit) = 1
         /\ At > 2 /\ At # Len(sent.payload) + 3 =>
               /\ Unit = Escaped(sent.payload[At - 2]) /\ sent.payload[At - 2] \in Bytes
               /\ Len(Unit) \in 1 .. 2
<1>1. /\ sent.payload \in Seq(Bytes) /\ Len(sent.payload) \in Nat
      /\ left \in 1 .. (Len(sent.payload) + 3)
  BY DEF StreamShape
<1>2. PICK n \in Nat : n = Len(sent.payload)
  BY <1>1
<1>3. PICK a \in 1 .. (n + 3) : a = At /\ left = n + 4 - a
  <2>1. left \in 1 .. (n + 3) /\ At = n + 4 - left
    BY <1>1, <1>2, Zenon DEF At
  <2>2. n + 4 - left \in 1 .. (n + 3) /\ left = n + 4 - (n + 4 - left)
    BY <2>1, Countdown
  <2> QED BY <2>1, <2>2, Zenon
<1>4. Unit = CASE a = 1 \/ a = n + 3 -> <<"FEND">>
               [] a = 2 -> <<sent.kind>>
               [] OTHER -> Escaped(sent.payload[a - 2])
  BY <1>1, <1>2, <1>3 DEF Unit, At, EncodeKISS
<1>5. a > 2 /\ a # n + 3 => sent.payload[a - 2] \in Bytes
  BY <1>1, <1>2, <1>3
<1>6. \A c : Len(Escaped(c)) \in 1 .. 2
  BY DEF Escaped
<1> QED
  BY <1>2, <1>3, <1>4, <1>5, <1>6

\* Between two bytes of an escape the unit stays; then the next one is due.
LEMMA ReadingMoves ==
  ASSUME StreamShape, ByteRead
  PROVE  /\ left # 0 /\ sent' = sent
         /\ half' => left' = left /\ At' = At /\ Unit' = Unit
         /\ ~ half' => left' = left - 1 /\ At' = At + 1
         /\ left' \in 0 .. (Len(sent'.payload) + 3)
<1>1. /\ left # 0 /\ left \in Nat /\ sent' = sent
      /\ half' = (~ half /\ Len(Unit) = 2)
      /\ left' = IF half' THEN left ELSE left - 1
  BY DEF ByteRead, StreamShape
<1>2. Len(sent.payload) \in Nat /\ sent.payload \in Seq(Bytes)
  BY DEF StreamShape
<1>3. half' => left' = left /\ At' = At /\ Unit' = Unit
  BY <1>1 DEF At, Unit
<1>4. ~ half' => left' = left - 1 /\ At' = At + 1
  <2>1. ~ half' => left' = left - 1
    BY <1>1
  <2>2. left' = left - 1 => At' = At + 1
    <3>1. Len(sent.payload) + 4 - (left - 1) = (Len(sent.payload) + 4 - left) + 1
      BY <1>1, <1>2, Countdown, Zenon
    <3>2. left' = left - 1 => At' = Len(sent.payload) + 4 - (left - 1)
      BY <1>1, Zenon DEF At
    <3> QED BY <3>1, <3>2, Zenon DEF At
  <2> QED BY <2>1, <2>2
<1>5. left' \in 0 .. (Len(sent'.payload) + 3)
  BY <1>1, <1>2 DEF StreamShape
<1> QED
  BY <1>1, <1>3, <1>4, <1>5

\* The byte that is due: a framing byte outside the payload, and in the payload
\* the byte itself or one half of its escape.
LEMMA ByteIs ==
  ASSUME StreamShape, left # 0
  PROVE  /\ At = 1 \/ At = Len(sent.payload) + 3 => NextByte = "FEND" /\ ~ half
         /\ At = 2 => NextByte = sent.kind /\ ~ half
         /\ At > 2 /\ At # Len(sent.payload) + 3 => \E c \in Bytes :
               /\ c = sent.payload[At - 2]
               /\ c \notin {"FEND", "FESC"} => NextByte = c /\ ~ half /\ Len(Unit) = 1
               /\ c \in {"FEND", "FESC"} =>
                     /\ Len(Unit) = 2
                     /\ NextByte = IF ~ half THEN "FESC"
                                   ELSE IF c = "FEND" THEN "TFEND" ELSE "TFESC"
<1>1. /\ At = 1 \/ At = Len(sent.payload) + 3 => Unit = <<"FEND">> /\ Len(Unit) = 1
      /\ At = 2 => Unit = <<sent.kind>> /\ Len(Unit) = 1
      /\ At > 2 /\ At # Len(sent.payload) + 3 =>
            Unit = Escaped(sent.payload[At - 2]) /\ sent.payload[At - 2] \in Bytes
  BY UnitIs
<1>2. half => Len(Unit) = 2
  BY DEF StreamShape
<1>3. At = 1 \/ At = Len(sent.payload) + 3 => NextByte = "FEND" /\ ~ half
  BY <1>1, <1>2 DEF NextByte
<1>4. At = 2 => NextByte = sent.kind /\ ~ half
  BY <1>1, <1>2 DEF NextByte
<1>5. ASSUME At > 2, At # Len(sent.payload) + 3
      PROVE  \E c \in Bytes :
               /\ c = sent.payload[At - 2]
               /\ c \notin {"FEND", "FESC"} => NextByte = c /\ ~ half /\ Len(Unit) = 1
               /\ c \in {"FEND", "FESC"} =>
                     /\ Len(Unit) = 2
                     /\ NextByte = IF ~ half THEN "FESC"
                                   ELSE IF c = "FEND" THEN "TFEND" ELSE "TFESC"
  <2>1. PICK c \in Bytes : c = sent.payload[At - 2] /\ Unit = Escaped(c)
    BY <1>1, <1>5
  <2>2. CASE c = "FEND"
    <3>1. Unit = <<"FESC", "TFEND">>
      BY <2>1, <2>2 DEF Escaped
    <3> QED BY <2>1, <2>2, <3>1 DEF NextByte
  <2>3. CASE c = "FESC"
    <3>1. Unit = <<"FESC", "TFESC">>
      BY <2>1, <2>3 DEF Escaped
    <3> QED BY <2>1, <2>3, <3>1 DEF NextByte
  <2>4. CASE c \notin {"FEND", "FESC"}
    <3>1. Unit = <<c>> /\ Len(Unit) = 1
      BY <2>1, <2>4 DEF Escaped
    <3> QED BY <1>2, <2>1, <2>4, <3>1 DEF NextByte
  <2> QED BY <2>2, <2>3, <2>4
<1> QED
  BY <1>3, <1>4, <1>5

\* What the buffer holds at a FEND is what is due, and it is complete.
LEMMA EndIsDue ==
  ASSUME StreamInv, left # 0, ~ muddied
  PROVE  FrameOut(dec, NextByte) = Due
<1>1. PICK n \in Nat : n = Len(sent.payload) /\ sent.payload \in Seq(Bytes)
  BY DEF StreamInv, StreamShape
<1>2. PICK a \in 1 .. (n + 3) : a = At
  BY <1>1, UnitIs DEF StreamInv
<1>3. /\ a = 1 \/ a = n + 3 => NextByte = "FEND"
      /\ a = 2 => NextByte = sent.kind
      /\ a > 2 /\ a # n + 3 => NextByte # "FEND"
  BY <1>1, <1>2, ByteIs DEF StreamInv
<1>4. dec \in Decoders /\ sent.kind \in {"DATA", "CMD"}
  BY DEF StreamInv, StreamShape
<1>5. CASE a = 1
  <2>1. dec.buf = cut /\ (cut # <<>> => dec.inFrame /\ ~ dec.wantCmd)
    BY <1>2, <1>5 DEF StreamInv, BufferFollows, Between
  <2> QED BY <1>2, <1>3, <1>5, <2>1 DEF FrameOut, Complete, Due
<1>6. CASE a > 1 /\ a # n + 3
  BY <1>1, <1>2, <1>3, <1>4, <1>6 DEF FrameOut, Due
<1>7. CASE a > 1 /\ a = n + 3
  <2>1. ~ Between /\ a > 2
    BY <1>2, <1>7 DEF Between
  <2>2. CASE sent.kind = "CMD"
    BY <1>1, <1>2, <1>7, <2>1, <2>2 DEF StreamInv, InStep, FrameOut, Complete, Due
  <2>3. CASE sent.kind = "DATA"
    <3>1. /\ dec.inFrame /\ ~ dec.wantCmd
          /\ Len(dec.buf) = n /\ \A i \in 1 .. n : dec.buf[i] = sent.payload[i]
      BY <1>2, <1>7, <2>1, <2>3 DEF StreamInv, InStep, BufferFollows
    <3>2. dec.buf = sent.payload
      <4>1. dec.buf \in Seq(Bytes)
        BY <1>4 DEF Decoders
      <4> QED BY <1>1, <3>1, <4>1
    <3> QED BY <1>1, <1>2, <1>3, <1>7, <2>3, <3>1, <3>2 DEF FrameOut, Complete, Due
  <2> QED BY <1>4, <2>2, <2>3
<1> QED
  BY <1>5, <1>6, <1>7

LEMMA ByteFollows ==
  ASSUME StreamInv, ByteRead
  PROVE  StreamInv'
<1>1. PICK b : b = NextByte
  OBVIOUS
<1>2. /\ dec' = Feed(dec, b) /\ sent' = sent
      /\ muddied' = (/\ muddied \/ (half /\ sent.kind # "DATA")
                     /\ FrameOut(dec, b) = <<>>)
      /\ cut' = IF At = 1 THEN <<>> ELSE cut
      /\ half' = (~ half /\ Len(Unit) = 2)
      /\ half \in BOOLEAN /\ sent.kind \in {"DATA", "CMD"} /\ sent.payload \in Seq(Bytes)
      /\ dec \in Decoders /\ muddied \in BOOLEAN
  BY <1>1 DEF ByteRead, StreamInv, StreamShape
<1>3. /\ left # 0 /\ sent' = sent
      /\ half' => left' = left /\ At' = At /\ Unit' = Unit
      /\ ~ half' => left' = left - 1 /\ At' = At + 1
      /\ left' \in 0 .. (Len(sent'.payload) + 3)
  BY ReadingMoves DEF StreamInv
<1>4. PICK n \in Nat : n = Len(sent.payload)
  BY <1>2
<1>5. PICK a \in 1 .. (n + 3) : a = At /\ left = n + 4 - a
  BY <1>3, <1>4, UnitIs DEF StreamInv
<1>6. /\ a = 1 \/ a = n + 3 => b = "FEND" /\ ~ half
      /\ a = 2 => b = sent.kind /\ ~ half
      /\ a > 2 /\ a # n + 3 => \E c \in Bytes :
            /\ c = sent.payload[a - 2]
            /\ c \notin {"FEND", "FESC"} => b = c /\ ~ half /\ Len(Unit) = 1
            /\ c \in {"FEND", "FESC"} =>
                  /\ Len(Unit) = 2
                  /\ b = IF ~ half THEN "FESC" ELSE IF c = "FEND" THEN "TFEND" ELSE "TFESC"
  BY <1>1, <1>3, <1>4, <1>5, ByteIs DEF StreamInv
<1>7. a = 1 \/ a = 2 \/ a = n + 3 => Len(Unit) = 1
  BY <1>3, <1>4, <1>5, UnitIs DEF StreamInv
<1>8. ASSUME dec' \in Decoders PROVE StreamShape'
  <2>1. half' => left' # 0 /\ Len(Unit)' = 2
    BY <1>2, <1>3
  <2>2. muddied' \in BOOLEAN /\ half' \in BOOLEAN
    BY <1>2
  <2> QED BY <1>2, <1>3, <1>8, <2>1, <2>2 DEF StreamInv, StreamShape
<1>9. a = 1 <=> Between
  BY <1>3, <1>5 DEF Between
<1>10. CASE a = 1
  <2>1. b = "FEND" /\ ~ half /\ ~ half'
    BY <1>2, <1>6, <1>7, <1>10
  <2>2. /\ dec' \in Decoders /\ dec'.inFrame /\ dec'.wantCmd /\ ~ dec'.esc
        /\ dec'.buf = IF Complete(dec) THEN <<>> ELSE dec.buf
    BY <1>2, <2>1, FeedEnds
  <2>3. At' = 2 /\ left' = n + 2 /\ cut' = <<>>
    BY <1>2, <1>3, <1>5, <1>10, <2>1
  <2>4. ~ Between' /\ InStep'
    BY <2>1, <2>2, <2>3 DEF InStep, Between
  <2>5. ~ muddied' => dec'.buf = <<>>
    <3>1. CASE muddied
      BY <1>2, <2>1, <2>2, <3>1 DEF FrameOut
    <3>2. CASE ~ muddied
      <4>1. dec.buf = cut /\ (cut # <<>> => dec.inFrame /\ ~ dec.wantCmd)
        BY <1>9, <1>10, <3>2 DEF StreamInv, BufferFollows
      <4> QED BY <2>2, <4>1 DEF Complete
    <3> QED BY <3>1, <3>2
  <2>6. BufferFollows'
    BY <2>3, <2>4, <2>5 DEF BufferFollows
  <2> QED BY <1>8, <2>2, <2>4, <2>6 DEF StreamInv
<1>11. CASE a = 2
  <2>1. b = sent.kind /\ ~ half /\ ~ half'
    BY <1>2, <1>6, <1>7, <1>11
  <2>2. dec.inFrame /\ dec.wantCmd /\ ~ dec.esc /\ cut = <<>>
    BY <1>5, <1>9, <1>11, <2>1 DEF StreamInv, InStep
  <2>3. b \notin {"FEND", "FESC"}
    BY <1>2, <2>1
  <2>4. /\ dec' \in Decoders /\ ~ dec'.esc /\ dec'.buf = dec.buf
        /\ sent.kind = "DATA" => dec'.inFrame /\ ~ dec'.wantCmd
        /\ sent.kind = "CMD" => ~ dec'.inFrame
    BY <1>2, <2>1, <2>2, <2>3, FeedCommand
  <2>5. At' = 3 /\ left' = n + 1 /\ cut' = <<>>
    BY <1>2, <1>3, <1>5, <1>11, <2>1, <2>2
  <2>6. ~ Between' /\ InStep'
    BY <1>2, <2>1, <2>4, <2>5 DEF InStep, Between
  <2>7. ~ muddied' => dec'.buf = <<>>
    <3>1. FrameOut(dec, b) = <<>>
      BY <2>3 DEF FrameOut
    <3>2. ~ muddied' => ~ muddied
      BY <1>2, <3>1
    <3>3. ~ muddied => dec.buf = <<>>
      BY <1>5, <1>9, <1>11 DEF StreamInv, BufferFollows
    <3> QED BY <2>4, <3>2, <3>3
  <2>8. BufferFollows'
    BY <1>2, <2>5, <2>6, <2>7 DEF BufferFollows
  <2> QED BY <1>8, <2>4, <2>6, <2>8 DEF StreamInv
<1>12. CASE a > 2 /\ a = n + 3
  <2>1. b = "FEND" /\ ~ half /\ ~ half'
    BY <1>2, <1>6, <1>7, <1>12
  <2>2. /\ dec' \in Decoders
        /\ dec'.buf = IF Complete(dec) THEN <<>> ELSE dec.buf
    BY <1>2, <2>1, FeedEnds
  <2>3. left' = 0 /\ cut' = <<>>
    <3>1. cut = <<>>
      BY <1>9, <1>12 DEF StreamInv, InStep
    <3> QED BY <1>2, <1>3, <1>5, <1>12, <2>1, <3>1
  <2>4. ~ muddied' => dec'.buf = <<>>
    <3>1. CASE muddied
      BY <1>2, <2>1, <2>2, <3>1 DEF FrameOut
    <3>2. CASE ~ muddied
      <4>1. CASE sent.kind = "CMD"
        BY <1>5, <1>9, <1>12, <2>2, <3>2, <4>1 DEF StreamInv, BufferFollows
      <4>2. CASE sent.kind = "DATA"
        <5>1. dec.inFrame /\ ~ dec.wantCmd
          BY <1>5, <1>9, <1>12, <4>2 DEF StreamInv, InStep
        <5> QED BY <2>2, <5>1 DEF Complete
      <4> QED BY <1>2, <4>1, <4>2
    <3> QED BY <3>1, <3>2
  <2>5. InStep' /\ BufferFollows'
    BY <2>3, <2>4 DEF InStep, BufferFollows, Between
  <2> QED BY <1>8, <2>2, <2>5 DEF StreamInv
<1>13. CASE a > 2 /\ a # n + 3
  <2>1. PICK c \in Bytes :
            /\ c = sent.payload[a - 2]
            /\ c \notin {"FEND", "FESC"} => b = c /\ ~ half /\ Len(Unit) = 1
            /\ c \in {"FEND", "FESC"} =>
                  /\ Len(Unit) = 2
                  /\ b = IF ~ half THEN "FESC" ELSE IF c = "FEND" THEN "TFEND" ELSE "TFESC"
    BY <1>6, <1>13
  <2>2. /\ dec.esc <=> half
        /\ cut = <<>> /\ cut' = <<>>
        /\ sent.kind = "CMD" => ~ dec.inFrame
        /\ sent.kind = "DATA" => dec.inFrame /\ ~ dec.wantCmd
    BY <1>2, <1>5, <1>9, <1>13 DEF StreamInv, InStep
  <2>3. b # "FEND" /\ FrameOut(dec, b) = <<>>
    BY <2>1 DEF FrameOut
  <2>4. muddied' <=> muddied \/ (half /\ sent.kind = "CMD")
    BY <1>2, <2>3
  <2>5. At' \in 3 .. (n + 3) /\ left' # 0 /\ ~ Between'
    BY <1>3, <1>5, <1>13 DEF Between
  <2>6. ASSUME dec' \in Decoders, dec'.esc <=> half',
               sent.kind = "CMD" => ~ dec'.inFrame,
               sent.kind = "DATA" => dec'.inFrame /\ ~ dec'.wantCmd
        PROVE  InStep'
    BY <1>2, <2>2, <2>5, <2>6 DEF InStep
  <2>7. ~ muddied =>
           /\ sent.kind = "CMD" => dec.buf = <<>>
           /\ sent.kind = "DATA" =>
                 Len(dec.buf) = a - 3 /\ \A i \in 1 .. (a - 3) : dec.buf[i] = sent.payload[i]
    BY <1>5, <1>9, <1>13 DEF StreamInv, BufferFollows
  <2>8. ASSUME ~ half', sent.kind = "DATA" => dec'.buf = Append(dec.buf, c),
               sent.kind = "CMD" => dec'.buf = dec.buf \/ half
        PROVE  BufferFollows'
    <3> SUFFICES ASSUME ~ muddied' PROVE BufferFollows'
      BY DEF BufferFollows
    <3>1. ~ muddied /\ (sent.kind = "CMD" => dec'.buf = <<>>)
      BY <2>4, <2>7, <2>8
    <3>2. At' = a + 1
      BY <1>3, <1>5, <2>8
    <3>3. sent.kind = "DATA" =>
             Len(dec'.buf) = a - 2 /\ \A i \in 1 .. (a - 2) : dec'.buf[i] = sent.payload[i]
      <4> SUFFICES ASSUME sent.kind = "DATA"
                   PROVE  /\ Len(dec'.buf) = a - 2
                          /\ \A i \in 1 .. (a - 2) : dec'.buf[i] = sent.payload[i]
        OBVIOUS
      <4>1. PICK q \in Seq(Bytes) : q = dec.buf /\ dec'.buf = Append(q, c)
        BY <1>2, <2>8 DEF Decoders
      <4>2. Len(q) = a - 3 /\ \A i \in 1 .. (a - 3) : q[i] = sent.payload[i]
        BY <2>7, <3>1, <4>1
      <4>3. Len(Append(q, c)) = a - 2 /\ Append(q, c)[a - 2] = c
            /\ \A i \in 1 .. (a - 3) : Append(q, c)[i] = q[i]
        BY <4>1, <4>2
      <4>4. \A i \in 1 .. (a - 2) : i \in 1 .. (a - 3) \/ i = a - 2
        BY <1>13
      <4> QED BY <2>1, <4>1, <4>2, <4>3, <4>4
    <3>4. PICK z : z = At'
      OBVIOUS
    <3>5. z > 2 /\ z # 2 /\ z - 3 = a - 2
      BY <1>13, <3>2, <3>4
    <3>6. sent'.kind = "CMD" => dec'.buf = <<>>
      BY <1>2, <3>1
    <3>7. sent'.kind = "DATA" =>
             Len(dec'.buf) = z - 3 /\ \A i \in 1 .. (z - 3) : dec'.buf[i] = sent'.payload[i]
      BY <1>2, <3>3, <3>5
    <3> QED BY <2>5, <3>4, <3>5, <3>6, <3>7 DEF BufferFollows
  <2>9. CASE c \notin {"FEND", "FESC"}
    <3>1. b = c /\ ~ half /\ ~ half'
      <4>1. b = c /\ ~ half /\ Len(Unit) = 1
        BY <2>1, <2>9
      <4> QED BY <1>2, <4>1
    <3>2. CASE dec.wantCmd
      <4>1. sent.kind = "CMD"
        BY <1>2, <2>2, <3>2
      <4>2. /\ dec' \in Decoders /\ ~ dec'.esc /\ dec'.buf = dec.buf
            /\ b = "DATA" => dec'.inFrame = dec.inFrame /\ ~ dec'.wantCmd
            /\ b # "DATA" => ~ dec'.inFrame /\ dec'.wantCmd
        BY <1>2, <2>2, <2>9, <3>1, <3>2, FeedCommand
      <4>3. ~ dec'.inFrame
        BY <2>2, <4>1, <4>2
      <4>4. StreamShape'
        BY <1>8, <4>2
      <4>5. InStep'
        BY <2>6, <3>1, <4>1, <4>2, <4>3
      <4>6. BufferFollows'
        BY <2>8, <3>1, <4>1, <4>2
      <4> QED BY <4>4, <4>5, <4>6 DEF StreamInv
    <3>3. CASE ~ dec.wantCmd
      <4>1. /\ dec' \in Decoders /\ ~ dec'.esc /\ ~ dec'.wantCmd /\ dec'.inFrame = dec.inFrame
            /\ dec'.buf = IF dec.inFrame THEN Append(dec.buf, c) ELSE dec.buf
        BY <1>2, <2>2, <2>9, <3>1, <3>3, FeedPlain
      <4>2. /\ sent.kind = "CMD" => ~ dec'.inFrame /\ dec'.buf = dec.buf
            /\ sent.kind = "DATA" => dec'.inFrame /\ dec'.buf = Append(dec.buf, c)
        BY <2>2, <4>1
      <4>3. StreamShape'
        BY <1>8, <4>1
      <4>4. InStep'
        BY <2>6, <3>1, <4>1, <4>2
      <4>5. BufferFollows'
        BY <2>8, <3>1, <4>2
      <4> QED BY <4>3, <4>4, <4>5 DEF StreamInv
    <3> QED BY <3>2, <3>3
  <2>10. CASE c \in {"FEND", "FESC"} /\ ~ half
    <3>1. b = "FESC" /\ half'
      BY <1>2, <2>1, <2>10
    <3>2. /\ dec' \in Decoders /\ dec'.esc /\ dec'.buf = dec.buf
          /\ dec'.inFrame = dec.inFrame /\ dec'.wantCmd = dec.wantCmd
      BY <1>2, <2>2, <2>10, <3>1, FeedEscape
    <3>3. At' = a
      BY <1>3, <1>5, <3>1
    <3>4. BufferFollows'
      BY <1>2, <1>13, <2>4, <2>5, <2>7, <3>2, <3>3 DEF BufferFollows
    <3>5. StreamShape'
      BY <1>8, <3>2
    <3>6. /\ sent.kind = "CMD" => ~ dec'.inFrame
          /\ sent.kind = "DATA" => dec'.inFrame /\ ~ dec'.wantCmd
      BY <2>2, <3>2
    <3>7. InStep'
      BY <2>6, <3>1, <3>2, <3>6
    <3> QED BY <3>4, <3>5, <3>7 DEF StreamInv
  <2>11. CASE c \in {"FEND", "FESC"} /\ half
    <3>1. b = (IF c = "FEND" THEN "TFEND" ELSE "TFESC") /\ ~ half'
      BY <1>2, <2>1, <2>11
    <3>2. /\ dec' \in Decoders /\ ~ dec'.esc /\ dec'.buf = Append(dec.buf, c)
          /\ dec'.inFrame = dec.inFrame /\ dec'.wantCmd = dec.wantCmd
      BY <1>2, <2>2, <2>11, <3>1, FeedEscaped
    <3>3. StreamShape'
      BY <1>8, <3>2
    <3>4. /\ sent.kind = "CMD" => ~ dec'.inFrame
          /\ sent.kind = "DATA" => dec'.inFrame /\ ~ dec'.wantCmd
      BY <2>2, <3>2
    <3>5. InStep'
      BY <2>6, <3>1, <3>2, <3>4
    <3>6. BufferFollows'
      BY <2>8, <2>11, <3>1, <3>2
    <3> QED BY <3>3, <3>5, <3>6 DEF StreamInv
  <2> QED BY <2>9, <2>10, <2>11, <1>2
<1> QED
  BY <1>10, <1>11, <1>12, <1>13

\* Outside a frame, and at the beginning of a session, there is nothing to keep
\* in step with.
NoStream ==
    /\ dec = FreshDecoder /\ sent = NoFrame /\ left = 0 /\ half = FALSE
    /\ muddied = FALSE /\ cut = <<>>

LEMMA NoStreamFits == NoStream => StreamInv
<1> SUFFICES ASSUME NoStream PROVE StreamInv
  OBVIOUS
<1>1. dec \in Decoders /\ dec.buf = <<>>
  BY DEF NoStream, FreshDecoder, Decoders
<1>2. StreamShape
  <2>1. sent = [kind |-> "DATA", payload |-> <<>>] /\ left = 0 /\ half = FALSE
        /\ muddied = FALSE
    BY DEF NoStream, NoFrame
  <2>2. sent.payload = <<>> /\ <<>> \in Seq(Bytes) /\ Len(sent.payload) = 0
    BY <2>1
  <2>3. sent \in [kind : {"DATA", "CMD"}, payload : Seq(Bytes)]
    BY <2>1, <2>2
  <2>4. left \in 0 .. (Len(sent.payload) + 3)
    BY <2>1, <2>2
  <2> QED BY <1>1, <2>1, <2>3, <2>4, Zenon DEF StreamShape
<1> QED
  BY <1>1, <1>2 DEF StreamInv, InStep, BufferFollows, Between, NoStream

LEMMA FrameFollows ==
  ASSUME StreamInv, NEW kind \in {"DATA", "CMD"}, NEW p \in Payloads, FrameStarts(kind, p)
  PROVE  StreamInv'
<1>1. /\ left = 0 /\ sent' = [kind |-> kind, payload |-> p] /\ left' = Len(p) + 3
      /\ UNCHANGED <<dec, half, cut, muddied>>
  BY DEF FrameStarts
<1>2. p \in Seq(Bytes) /\ Len(p) \in Nat
  BY SessionAssumption
<1>3. sent'.payload = p /\ sent'.kind = kind /\ ~ half
  BY <1>1 DEF StreamInv, StreamShape
<1>4. StreamShape'
  BY <1>1, <1>2, <1>3 DEF StreamInv, StreamShape
<1>5. At' = 1
  BY <1>1, <1>2, <1>3 DEF At
<1>6. Between /\ Between'
  BY <1>1, <1>5 DEF Between
<1> QED
  BY <1>1, <1>4, <1>6 DEF StreamInv, InStep, BufferFollows

\* A frame breaks off: the buffer is what was read of it.
LEMMA CutFollows ==
  ASSUME StreamInv, FrameCut
  PROVE  StreamInv'
<1>1. /\ left # 0 /\ At > 1 /\ left' = 0 /\ half' = FALSE /\ UNCHANGED <<dec, sent, muddied>>
      /\ cut' = IF sent.kind = "DATA" THEN SubSeq(sent.payload, 1, At - 3) ELSE <<>>
  BY DEF FrameCut, StreamInv, StreamShape
<1>2. PICK n \in Nat : n = Len(sent.payload) /\ sent.payload \in Seq(Bytes)
  BY DEF StreamInv, StreamShape
<1>3. PICK a \in 2 .. (n + 3) : a = At
  BY <1>1, <1>2, UnitIs DEF StreamInv
<1>4. ~ Between /\ Between'
  BY <1>1 DEF Between
<1>5. StreamShape'
  <2>1. left' \in 0 .. (Len(sent'.payload) + 3) /\ ~ half' /\ half' \in BOOLEAN
    <3>1. sent' = sent /\ left' = 0 /\ half' = FALSE
      BY <1>1
    <3>2. 0 \in 0 .. (n + 3)
      BY <1>2
    <3> QED BY <1>2, <3>1, <3>2
  <2> QED BY <1>1, <2>1 DEF StreamInv, StreamShape
<1>6. InStep'
  BY <1>4 DEF InStep
<1>7. dec.buf \in Seq(Bytes)
  BY DEF StreamInv, StreamShape, Decoders
<1>8. ASSUME ~ muddied PROVE dec.buf = cut' /\ (cut' # <<>> => dec.inFrame /\ ~ dec.wantCmd)
  <2>1. CASE sent.kind = "CMD"
    BY <1>1, <1>4, <1>8, <2>1 DEF StreamInv, BufferFollows
  <2>2. CASE sent.kind = "DATA" /\ a = 2
    <3>1. cut' = <<>>
      <4>1. cut' = SubSeq(sent.payload, 1, a - 3) /\ a - 3 < 1
        BY <1>1, <1>3, <2>2
      <4> QED BY <1>2, <2>2, <4>1
    <3> QED BY <1>3, <1>4, <1>8, <2>2, <3>1 DEF StreamInv, BufferFollows
  <2>3. CASE sent.kind = "DATA" /\ a > 2
    <3>1. /\ dec.inFrame /\ ~ dec.wantCmd
          /\ Len(dec.buf) = a - 3 /\ \A i \in 1 .. (a - 3) : dec.buf[i] = sent.payload[i]
      BY <1>3, <1>4, <1>8, <2>3 DEF StreamInv, InStep, BufferFollows
    <3>2. cut' = SubSeq(sent.payload, 1, a - 3) /\ a - 3 \in 0 .. n
      BY <1>1, <1>3, <2>3
    <3>3. /\ cut' \in Seq(Bytes) /\ Len(cut') = a - 3
          /\ \A i \in 1 .. (a - 3) : cut'[i] = sent.payload[i]
      BY <1>2, <3>2
    <3>4. dec.buf = cut'
      BY <1>7, <3>1, <3>3
    <3> QED BY <3>1, <3>4
  <2>4. sent.kind \in {"DATA", "CMD"}
    BY DEF StreamInv, StreamShape
  <2> QED BY <1>3, <2>1, <2>2, <2>3, <2>4
<1>9. BufferFollows'
  BY <1>1, <1>4, <1>8 DEF BufferFollows
<1> QED
  BY <1>5, <1>6, <1>9 DEF StreamInv

LEMMA StreamKeeps == StreamInv /\ [SessNext]_sessVars => StreamInv'
<1> SUFFICES ASSUME StreamInv, [SessNext]_sessVars PROVE StreamInv'
  OBVIOUS
<1>1. ASSUME NEW kind \in {"DATA", "CMD"}, NEW p \in Payloads, FrameStarts(kind, p)
      PROVE  StreamInv'
  BY <1>1, FrameFollows
<1>2. CASE ByteRead \/ FrameCut
  BY <1>2, ByteFollows, CutFollows
<1>3. CASE UNCHANGED stream
  <2>1. UNCHANGED <<dec, sent, left, half, cut, muddied>>
    BY <1>3 DEF stream
  <2>2. At' = At /\ Unit' = Unit
    BY <2>1 DEF At, Unit
  <2> QED BY <2>1, <2>2 DEF StreamInv, StreamShape, InStep, BufferFollows, Between
<1>4. ASSUME NEW l \in Links, StreamEnds(l) PROVE StreamInv'
  <2>1. CASE UNCHANGED stream
    BY <1>3, <2>1
  <2>2. CASE NoStream'
    BY <2>2, NoStreamFits, PTL
  <2> QED BY <1>4, <2>1, <2>2 DEF StreamEnds, NoStream
<1>5. ASSUME NEW l \in Links,
             DialFails(l) \/ Dialled(l) \/ Registered(l) \/ SessionOver(l) \/ BackoffEnds(l)
      PROVE  StreamInv'
  BY <1>3, <1>5 DEF DialFails, Dialled, Registered, SessionOver, BackoffEnds
<1>6. ASSUME NEW l \in Links, ReadTimesOut(l) \/ LinkFails(l) PROVE StreamInv'
  BY <1>3, <1>4, <1>6 DEF ReadTimesOut, LinkFails, Deregistered
<1>7. CASE Quit
  BY <1>3, <1>4, <1>7 DEF Quit, Deregistered, Links
<1>8. CASE LineRead
  BY <1>3, <1>8 DEF LineRead
<1>9. CASE UNCHANGED sessVars
  BY <1>3, <1>9 DEF sessVars, stream
<1> QED
  BY <1>1, <1>2, <1>5, <1>6, <1>7, <1>8, <1>9 DEF SessNext

(* KISSDecoder.Feed against EncodeKISS, for payloads of any bytes and frames  *)
(* that break off anywhere: each byte brings out exactly the frame that is    *)
(* due with it, unless an escape of a skipped frame is in the buffer.         *)
THEOREM FramesComeOutWhole == SessSpec => []DecodedUnlessMuddied
<1>1. SessInit => StreamInv
  BY NoStreamFits DEF SessInit, NoStream
<1>2. StreamInv => DecodedUnlessMuddied
  <2>1. StreamInv /\ left > 0 => left # 0
    BY DEF StreamInv, StreamShape
  <2> QED BY <2>1, EndIsDue DEF DecodedUnlessMuddied
<1> QED
  BY <1>1, <1>2, StreamKeeps, PTL DEF SessSpec
=============================================================================
