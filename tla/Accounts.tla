------------------------------ MODULE Accounts ------------------------------
(***************************************************************************)
(* Accounts, sessions and reset links (server-game/src/app/auth.rs, the    *)
(* account statements of persistence.rs, and the two account operations of *)
(* admin.rs that delete nothing).                                          *)
(*                                                                         *)
(* A handler is a sequence of database statements and password hashes with *)
(* an await between any two; a call keeps what it read and what it has yet *)
(* to do.  It may fail, or its caller may go away, at every await.  A hash *)
(* runs on the blocking pool under one of a few permits, and goes on when  *)
(* its caller is gone.                                                     *)
(*                                                                         *)
(* How long sessions are served, and what deleting an account takes with   *)
(* it, is in module Upkeep; here a session just ends.  Passwords and hashes *)
(* are the passwords; a name is what fold_display_name makes of it.        *)
(***************************************************************************)
EXTENDS Naturals, Sequences, FiniteSets, SequencesExt

CONSTANTS
    Ids,            \* ids of accounts, each inserted at most once
    Names,          \* folded display names
    Passwords,
    Links,          \* tokens of reset links, each issued at most once
    None,           \* no account, name, password, link
    Callers,        \* calls that may overlap
    Permits,        \* hashes that may run at once
    MaxSessions     \* bound: sessions at a time

ASSUME AccountsAssumption ==
    /\ None \notin Ids \cup Names \cup Passwords \cup Links
    /\ Permits \in Nat \ {0} /\ MaxSessions \in Nat
    /\ IsFiniteSet(Callers)

VARIABLES
    name,       \* players.display_name_folded, None before the account is made
    password,   \* players.password_hash
    sessions,   \* rows of sessions, with the password each was opened with
    links,      \* rows of password_reset_tokens
    calls,      \* calls under way
    free,       \* permits of hash_limit
    orphans,    \* hashes whose caller is gone
    halfway,    \* history: accounts whose last change of password was not
                \* followed by the end of their sessions
    used        \* history: how far a reset with each link has got

vars == <<name, password, sessions, links, calls, free, orphans, halfway, used>>
rows == <<name, password, sessions, links>>
history == <<halfway, used>>

Accounts == {p \in Ids : name[p] # None}
Called(n) == {p \in Accounts : name[p] = n}

-----------------------------------------------------------------------------
\* What each handler does after its first await, in its order.

\* Mutant: the sessions go before the password does.
ChangeRevokingFirst == <<"find", "verify", "hash", "revoke", "store">>
ChangeSteps == <<"find", "verify", "hash", "store", "revoke">>

\* Mutant: the link is spent before the password is stored.
ResetSpendingFirst == <<"hash", "consume", "store", "revoke">>
ResetSteps == <<"hash", "store", "consume", "revoke">>

Steps ==
    [register |-> <<"hash", "insert", "open">>,
     login    |-> <<"verify", "open">>,
     change   |-> ChangeSteps,
     rename   |-> <<"look", "rename">>,
     forgot   |-> <<"clear", "issue">>,
     reset    |-> ResetSteps,
     signout  |-> <<"revoke">>,
     assist   |-> <<"hash", "store">>]

Idle == [kind |-> "none", todo |-> <<>>]

\* "working" is a hash that has its permit; "seen" the password read with the
\* account; "secret" the one to be set; "again" says that a reset
\* with this link had been answered when the call began.
NewCall(kind) ==
    [kind |-> kind, todo |-> Steps[kind], working |-> FALSE, player |-> None,
     name |-> None, secret |-> None, seen |-> None, link |-> None, again |-> FALSE]

Begins(c, call) == calls[c] = Idle /\ calls' = [calls EXCEPT ![c] = call]

\* The next thing a call does, and going on from it with what it has learnt.
At(c, step) == calls[c] # Idle /\ Head(calls[c].todo) = step
Onward(c, call) ==
    calls' = [calls EXCEPT ![c] =
                IF Len(call.todo) = 1 THEN Idle
                ELSE [call EXCEPT !.todo = Tail(@), !.working = FALSE]]
Proceeds(c) == Onward(c, calls[c])
Refused(c) == calls' = [calls EXCEPT ![c] = Idle]

\* A call that has replaced a password and not yet ended the sessions.
Replacing(call) ==
    /\ call.kind \in {"change", "reset"}
    /\ Contains(call.todo, "revoke") /\ ~Contains(call.todo, "store")

Init ==
    /\ name = [p \in Ids |-> None] /\ password = [p \in Ids |-> None]
    /\ sessions = {}
    /\ links = [t \in Links |-> [player |-> None, expired |-> FALSE, consumed |-> FALSE]]
    /\ calls = [c \in Callers |-> Idle]
    /\ free = Permits /\ orphans = 0
    /\ halfway = {} /\ used = [t \in Links |-> "no"]

-----------------------------------------------------------------------------
\* The handlers up to their first await, which is a read.

\* register_player, when the name is free.
Register(c) ==
    /\ \E n \in Names, s \in Passwords :
         /\ Called(n) = {}
         /\ Begins(c, [NewCall("register") EXCEPT !.name = n, !.secret = s])
    /\ UNCHANGED <<rows, free, orphans, history>>

\* login_player.  An unknown name is verified against the decoy.
Login(c) ==
    /\ \/ \E n \in Names : Called(n) = {} /\ Begins(c, NewCall("login"))
       \/ \E p \in Accounts :
            Begins(c, [NewCall("login") EXCEPT !.player = p, !.seen = password[p]])
    /\ UNCHANGED <<rows, free, orphans, history>>

\* change_password and update_player_details, with the session of the caller.
ChangePassword(c) ==
    /\ \E s \in sessions, w \in Passwords :
         Begins(c, [NewCall("change") EXCEPT !.player = s.player, !.secret = w])
    /\ UNCHANGED <<rows, free, orphans, history>>

UpdateDetails(c) ==
    /\ \E s \in sessions, n \in Names :
         Begins(c, [NewCall("rename") EXCEPT !.player = s.player, !.name = n])
    /\ UNCHANGED <<rows, free, orphans, history>>

\* request_password_reset: an address that several accounts may share.
RequestReset(c) ==
    /\ \E p \in Accounts : Begins(c, [NewCall("forgot") EXCEPT !.player = p])
    /\ UNCHANGED <<rows, free, orphans, history>>

\* reset_password, with a link that is there, unspent and in time.
Good(l) == l.player # None /\ ~l.consumed /\ ~l.expired
ResetPassword(c) ==
    /\ \E t \in Links, w \in Passwords :
         /\ Good(links[t])
         /\ Begins(c, [NewCall("reset") EXCEPT !.player = links[t].player, !.link = t,
                         !.secret = w, !.again = used[t] = "answered"])
    /\ UNCHANGED <<rows, free, orphans, history>>

\* admin_sign_out_user and admin_reset_password.
AdminSignOut(c) ==
    /\ \E p \in Accounts : Begins(c, [NewCall("signout") EXCEPT !.player = p])
    /\ UNCHANGED <<rows, free, orphans, history>>

AdminResetPassword(c) ==
    /\ \E p \in Accounts, w \in Passwords :
         Begins(c, [NewCall("assist") EXCEPT !.player = p, !.secret = w])
    /\ UNCHANGED <<rows, free, orphans, history>>

-----------------------------------------------------------------------------
\* Password work: with_hash_permit.

Hashes(c) == At(c, "hash") \/ At(c, "verify")
Working(c) == calls[c] # Idle /\ calls[c].working

Acquire(c) ==
    /\ Hashes(c) /\ ~Working(c)
    /\ free > 0 /\ free' = free - 1
    /\ calls' = [calls EXCEPT ![c].working = TRUE]
    /\ UNCHANGED <<rows, orphans, history>>

\* HASH_PERMIT_WAIT is over.
Busy(c) ==
    /\ Hashes(c) /\ ~Working(c) /\ free = 0
    /\ Refused(c)
    /\ UNCHANGED <<rows, free, orphans, history>>

Hash(c) ==
    /\ At(c, "hash") /\ Working(c)
    /\ free' = free + 1 /\ Proceeds(c)
    /\ UNCHANGED <<rows, orphans, history>>

\* The password presented against the one read.
Verify(c) ==
    /\ At(c, "verify") /\ Working(c)
    /\ free' = free + 1
    /\ \E tried \in Passwords :
         IF calls[c].seen # tried THEN Refused(c)
         ELSE Onward(c, [calls[c] EXCEPT !.seen = IF calls[c].kind = "login" THEN @ ELSE None])
    /\ UNCHANGED <<rows, orphans, history>>

OrphanEnds ==
    /\ orphans > 0 /\ orphans' = orphans - 1 /\ free' = free + 1
    /\ UNCHANGED <<rows, calls, history>>

-----------------------------------------------------------------------------
\* The statements.

Keep == UNCHANGED <<free, orphans>>

\* The unique index on display_name_folded, for a row p.
NameFree(n, p) == Called(n) \subseteq {p}

\* create_player.
Insert(c) ==
    /\ At(c, "insert")
    /\ \E p \in Ids \ Accounts :
         LET call == calls[c] IN
         IF NameFree(call.name, p)
         THEN /\ name' = [name EXCEPT ![p] = call.name]
              /\ password' = [password EXCEPT ![p] = call.secret]
              /\ Onward(c, [call EXCEPT !.player = p, !.name = None, !.secret = None, !.seen = call.secret])
         ELSE Refused(c) /\ UNCHANGED <<name, password>>
    /\ UNCHANGED <<sessions, links, history>> /\ Keep

\* create_session.  "late" says that the password has been replaced since the
\* account was read.
Open(c) ==
    /\ At(c, "open") /\ Cardinality(sessions) < MaxSessions
    /\ LET call == calls[c] IN
       sessions' = sessions \cup {[player |-> call.player, password |-> call.seen,
                                   late |-> call.seen # password[call.player]]}
    /\ Proceeds(c)
    /\ UNCHANGED <<name, password, links, history>> /\ Keep

\* get_player_by_id.
Find(c) ==
    /\ At(c, "find")
    /\ Onward(c, [calls[c] EXCEPT !.seen = password[calls[c].player]])
    /\ UNCHANGED <<rows, history>> /\ Keep

\* update_player_password.  A reset of the administrator's ends no session.
Store(c) ==
    /\ At(c, "store")
    /\ LET call == calls[c] IN
       /\ password' = [password EXCEPT ![call.player] = call.secret]
       /\ halfway' = IF call.kind = "assist" THEN halfway \cup {call.player} ELSE halfway
       /\ used' = IF call.kind = "reset" /\ used[call.link] = "no"
                  THEN [used EXCEPT ![call.link] = "stored"] ELSE used
    /\ Proceeds(c)
    /\ UNCHANGED <<name, sessions, links>> /\ Keep

\* consume_password_reset_token, of a row that may have been deleted meanwhile.
Consume(c) ==
    /\ At(c, "consume")
    /\ links' = [links EXCEPT ![calls[c].link].consumed = @ \/ links[calls[c].link].player # None]
    /\ Proceeds(c)
    /\ UNCHANGED <<name, password, sessions, history>> /\ Keep

\* invalidate_sessions_for_player, the last thing its callers do.
Revoke(c) ==
    /\ At(c, "revoke")
    /\ sessions' = {s \in sessions : s.player # calls[c].player}
    /\ halfway' = halfway \ {calls[c].player}
    /\ used' = IF calls[c].kind = "reset"
               THEN [used EXCEPT ![calls[c].link] = "answered"] ELSE used
    /\ Proceeds(c)
    /\ UNCHANGED <<name, password, links>> /\ Keep

\* update_player_details: the name is looked up, then written.
Look(c) ==
    /\ At(c, "look")
    /\ IF NameFree(calls[c].name, calls[c].player) THEN Proceeds(c) ELSE Refused(c)
    /\ UNCHANGED <<rows, history>> /\ Keep

Rename(c) ==
    /\ At(c, "rename")
    /\ LET call == calls[c] IN
       name' = IF NameFree(call.name, call.player)
               THEN [name EXCEPT ![call.player] = call.name] ELSE name
    /\ Refused(c)
    /\ UNCHANGED <<password, sessions, links, history>> /\ Keep

\* invalidate_password_reset_tokens_for_player deletes the unspent links, and
\* create_password_reset_token adds one.
Clear(c) ==
    /\ At(c, "clear")
    /\ links' = [t \in Links |->
                   IF links[t].player = calls[c].player /\ ~links[t].consumed
                   THEN [links[t] EXCEPT !.player = None, !.expired = FALSE] ELSE links[t]]
    /\ Proceeds(c)
    /\ UNCHANGED <<name, password, sessions, history>> /\ Keep

Issue(c) ==
    /\ At(c, "issue")
    /\ \E t \in Links :
         /\ links[t].player = None /\ used[t] = "no"
         /\ links' = [links EXCEPT ![t].player = calls[c].player]
    /\ Proceeds(c)
    /\ UNCHANGED <<name, password, sessions, history>> /\ Keep

\* logout, and a session that idles out.
SessionEnds ==
    /\ \E s \in sessions : sessions' = sessions \ {s}
    /\ UNCHANGED <<name, password, links, calls, free, orphans, history>>

LinkExpires ==
    /\ \E t \in Links : ~links[t].expired /\ links[t].player # None
                        /\ links' = [links EXCEPT ![t].expired = TRUE]
    /\ UNCHANGED <<name, password, sessions, calls, free, orphans, history>>

-----------------------------------------------------------------------------
\* What goes wrong.

Abandoned(dropped) ==
    halfway' = halfway \cup {calls[c].player : c \in {d \in dropped : Replacing(calls[d])}}

\* Mutant: the handler holds the permit, and lets go of it when it is dropped.
LeftByHandler(c) == free' = free + 1 /\ orphans' = orphans + 1

\* The permit went with the closure.
Left(c) == free' = free /\ orphans' = orphans + 1

\* A statement fails, or the caller goes away and the call is dropped; a hash
\* that has begun goes on without it.
CallFails(c) ==
    /\ calls[c] # Idle
    /\ Refused(c)
    /\ Abandoned({c})
    /\ IF Working(c) THEN Left(c) ELSE Keep
    /\ UNCHANGED <<rows, used>>

\* The process stops and starts again.
Crash ==
    /\ Abandoned({c \in Callers : calls[c] # Idle})
    /\ calls' = [c \in Callers |-> Idle]
    /\ free' = Permits /\ orphans' = 0
    /\ UNCHANGED <<rows, used>>

Next ==
    \/ \E c \in Callers :
         \/ Register(c) \/ Login(c) \/ ChangePassword(c) \/ UpdateDetails(c)
         \/ RequestReset(c) \/ ResetPassword(c) \/ AdminSignOut(c) \/ AdminResetPassword(c)
         \/ Acquire(c) \/ Busy(c) \/ Hash(c) \/ Verify(c)
         \/ Insert(c) \/ Open(c) \/ Find(c) \/ Store(c) \/ Consume(c) \/ Revoke(c)
         \/ Look(c) \/ Rename(c) \/ Clear(c) \/ Issue(c)
         \/ CallFails(c)
    \/ OrphanEnds \/ SessionEnds \/ LinkExpires \/ Crash

Spec == Init /\ [][Next]_vars

-----------------------------------------------------------------------------
Calls ==
    [kind : DOMAIN Steps, todo : UNION {Suffixes(Steps[kind]) : kind \in DOMAIN Steps},
     working : BOOLEAN, player : Ids \cup {None}, name : Names \cup {None},
     secret : Passwords \cup {None}, seen : Passwords \cup {None},
     link : Links \cup {None}, again : BOOLEAN]

TypeOK ==
    /\ name \in [Ids -> Names \cup {None}] /\ password \in [Ids -> Passwords \cup {None}]
    /\ sessions \subseteq [player : Ids, password : Passwords, late : BOOLEAN]
    /\ links \in [Links -> [player : Ids \cup {None}, expired : BOOLEAN, consumed : BOOLEAN]]
    /\ calls \in [Callers -> Calls \cup {Idle}]
    /\ free \in 0..Permits /\ orphans \in 0..Permits
    /\ halfway \subseteq Ids /\ used \in [Links -> {"no", "stored", "answered"}]

\* A session was opened with the password the account has now, except while a
\* change is between its two statements, after one that got no further, after
\* a reset of the administrator's, and when the login had read the account
\* before the change (update_player_password, then
\* invalidate_sessions_for_player).
KeysAreCurrent ==
    \A s \in sessions :
      \/ s.password = password[s.player]
      \/ s.late
      \/ s.player \in halfway
      \/ \E c \in Callers :
           calls[c] # Idle /\ calls[c].player = s.player /\ Replacing(calls[c])

\* A reset link is spent only once the password it was for is stored, so a reset
\* that fails half way can be repeated; and once a reset has been answered, none
\* that begins later gets anywhere with the same link (reset_password).
LinkIsSpentByItsReset ==
    /\ \A t \in Links : links[t].consumed => used[t] # "no"
    /\ \A c \in Callers : calls[c] # Idle => ~calls[c].again

\* Every permit is free or with a hash that is running, also when the callers
\* of running hashes go away, so that no more hashes run than there are permits
\* (with_hash_permit).
HashingIsBounded ==
    free + orphans + Cardinality({c \in Callers : Working(c)}) = Permits

-----------------------------------------------------------------------------
\* The inductive invariant: the properties, with what they rest on.

AccountsHavePasswords == \A p \in Accounts : password[p] \in Passwords
SessionsHaveAccounts == \A s \in sessions : s.player \in Accounts
LinksHaveAccounts == \A t \in Links : links[t].player \in Accounts \cup {None}

\* A link that no reset can begin with again.
Spent(t) == links[t].player = None \/ links[t].consumed
AnsweredIsSpent == \A t \in Links : used[t] = "answered" => Spent(t)

\* What a call under way has learnt and done, by what it has yet to do.
Identified(call) == call.player \in Accounts /\ call.seen \in Passwords
InOrder(call) ==
    /\ call.todo \in Suffixes(Steps[call.kind]) \ {<< >>}
    /\ call.working => Head(call.todo) \in {"hash", "verify"}
    /\ IF call.kind = "register"
       THEN IF Head(call.todo) = "open" THEN Identified(call)
            ELSE call.name \in Names /\ call.secret \in Passwords
       ELSE IF call.kind = "login"
       THEN Identified(call) \/ (call.seen = None /\ Head(call.todo) = "verify")
       ELSE call.player \in Accounts
    /\ call.kind = "rename" => call.name \in Names
    /\ call.kind \in {"change", "reset", "assist"} => call.secret \in Passwords
    /\ call.kind = "reset" =>
         /\ call.link \in Links
         /\ Head(call.todo) \in {"consume", "revoke"} => used[call.link] # "no"
         /\ Head(call.todo) = "revoke" => Spent(call.link)
CallsAreInOrder == \A c \in Callers : calls[c] # Idle => InOrder(calls[c])

IInv ==
    /\ TypeOK
    /\ AccountsHavePasswords /\ SessionsHaveAccounts /\ LinksHaveAccounts
    /\ AnsweredIsSpent /\ CallsAreInOrder
    /\ KeysAreCurrent /\ LinkIsSpentByItsReset /\ HashingIsBounded
=============================================================================
