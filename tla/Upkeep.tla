------------------------------- MODULE Upkeep -------------------------------
(***************************************************************************)
(* What time does to the service: turns that run out, reminders, finished  *)
(* games that are deleted, sessions that end, and the account an           *)
(* administrator waits to delete (app/sweeps_game.rs, app/sweeps_capacity  *)
(* .rs, app/admin.rs, app/auth.rs and player_id_for_token).  There is no   *)
(* scheduler: the sweeps run inside list_games, so when anybody calls it.  *)
(*                                                                         *)
(* One account and one game at a time, of two seats: the account's and     *)
(* another player's.  A call names the game it is about, so the next game  *)
(* is looked at once no call on the last one is under way.  Every stored   *)
(* time is modelled by its age, which grows with Tick up to the point      *)
(* where nothing tells it from older.                                      *)
(***************************************************************************)
EXTENDS Integers

CONSTANTS
    TurnLimit,   \* move_time_limit_seconds
    KeepFor,     \* the seven days a finished game is kept
    IdleWindow,  \* SESSION_IDLE_WINDOW_SECS
    Lifetime,    \* SESSION_MAX_LIFETIME_SECS
    Throttle,    \* LAST_SEEN_BUMP_THROTTLE_SECS
    MaxGames,    \* bounds: games created,
    MaxTurns,    \* turns of a game,
    MaxTouches,  \* chat messages in, and removals of, a game that is over,
    MaxSignIns,  \* sign-ins
    MaxCrashes   \* and restarts

ASSUME TimesAssumption ==
    /\ {TurnLimit, KeepFor, IdleWindow, Lifetime} \subseteq Nat \ {0}
    /\ Throttle \in Nat /\ Throttle < IdleWindow
    /\ {MaxGames, MaxTouches, MaxSignIns, MaxCrashes} \subseteq Nat
    /\ MaxTurns \in Nat \ {0}

VARIABLES
    game,      \* the session in AppState::games, or NoGame
    stored,    \* its snapshot in the database, or NoGame
    endedAge,  \* age of games.ended_at
    overAge,   \* how long ago the game was over
    unsaved,   \* a handler has yet to save what it changed
    made,      \* games created so far
    creating,  \* where a create_game call is
    stale,     \* expire_old_terminal_games has listed the game
    dropping,  \* admin_delete_game has deleted the row, not the session
    mails,     \* reminders sent for each turn of the game
    account,   \* the player's row exists
    session,   \* its session, or NoSession
    signIns,   \* sign-ins so far
    login,     \* login_player has verified the password
    deleting,  \* where admin_delete_user is
    overtaken, \* an administrator deleted what a call under way had read
               \* (create_game, login_player, a save between the two steps of
               \* admin_delete_game), or a restart cut admin_delete_user off
               \* from release_player: nothing holds these apart, and the
               \* properties do not claim what they then break
    crashes    \* restarts so far

gameVars == <<game, stored, endedAge, overAge, unsaved, made, creating, stale, dropping, mails>>
accountVars == <<account, session, signIns, login, deleting>>
vars == <<gameVars, accountVars, overtaken, crashes>>

Ends == {"finished", "aborted"}
NoGame == [status |-> "none", turn |-> 0, age |-> 0, reminded |-> -1,
           refers |-> FALSE, touches |-> 0]
NewGame == [NoGame EXCEPT !.status = "waiting", !.refers = TRUE]
\* Of a game that is over only the end counts: its clock stands.
Over(g, end) == [NoGame EXCEPT !.status = end, !.refers = g.refers,
                               !.touches = g.touches]
NoSession == [live |-> FALSE, age |-> 0, idle |-> 0, unused |-> 0]

Init ==
    /\ game = NoGame /\ stored = NoGame
    /\ endedAge = 0 /\ overAge = 0 /\ unsaved = FALSE /\ made = 0
    /\ creating = "no" /\ stale = FALSE /\ dropping = FALSE
    /\ mails = [t \in 0 .. MaxTurns |-> 0]
    /\ account = TRUE /\ session = NoSession /\ signIns = 0
    /\ login = FALSE /\ deleting = "no"
    /\ overtaken = FALSE /\ crashes = 0

-----------------------------------------------------------------------------
(* Time.                                                                   *)

Older(age, bound) == IF age > bound THEN age ELSE age + 1
OlderGame(g) ==
    IF g.status = "active" THEN [g EXCEPT !.age = Older(@, TurnLimit - 1)] ELSE g

Tick ==
    /\ game' = OlderGame(game)
    /\ stored' = OlderGame(stored)
    /\ endedAge' = IF stored.status \in Ends THEN Older(endedAge, KeepFor) ELSE 0
    /\ overAge' = IF game.status \in Ends THEN Older(overAge, KeepFor) ELSE 0
    /\ session' = IF session.live
                  THEN [session EXCEPT !.age = Older(@, Lifetime),
                                       !.idle = Older(@, IdleWindow),
                                       !.unused = Older(@, IdleWindow)]
                  ELSE session
    /\ UNCHANGED <<unsaved, made, creating, stale, dropping, mails, account,
                   signIns, login, deleting, overtaken, crashes>>

-----------------------------------------------------------------------------
(* Saving.                                                                 *)

\* save_game stamps ended_at with every save of a game that is over.
EndedBy(g) == IF g.status \in Ends THEN 0 ELSE endedAge

Save(g) ==
    /\ stored' = g
    /\ endedAge' = EndedBy(g)
    /\ overtaken' = (overtaken \/ dropping)

InMemory == game.status # "none"

\* A handler changed the game under the lock and saves it only when it has
\* the lock again (submit_action, start_game).
ChangedUnsaved(g) ==
    /\ game' = g
    /\ overAge' = IF g.status \in Ends /\ game.status \notin Ends THEN 0 ELSE overAge
    /\ unsaved' = TRUE
    /\ UNCHANGED <<stored, endedAge, overtaken>>

\* A handler that saves before it releases the lock.
Changed(g) ==
    /\ game' = g
    /\ overAge' = IF g.status \in Ends /\ game.status \notin Ends THEN 0 ELSE overAge
    /\ Save(g)
    /\ UNCHANGED unsaved

FinalSave ==
    /\ unsaved
    /\ unsaved' = FALSE
    /\ IF InMemory THEN Save(game) ELSE UNCHANGED <<stored, endedAge, overtaken>>
    /\ UNCHANGED <<game, overAge, made, creating, stale, dropping, mails,
                   accountVars, crashes>>

-----------------------------------------------------------------------------
(* Sessions.                                                               *)

\* Mutant: only the absolute limit is looked at.
AcceptedIfYoung(s) == s.live /\ s.age < Lifetime

\* player_id_for_token: refused from expires_at on and after the idle window.
Accepted(s) == s.live /\ s.age < Lifetime /\ s.idle <= IdleWindow

\* last_seen_at is only rewritten when it is older than the throttle.
Used(s) ==
    [s EXCEPT !.idle = IF @ > Throttle THEN 0 ELSE @, !.unused = 0]

\* Any authenticated request of the account.
Use ==
    /\ Accepted(session)
    /\ session' = Used(session)
    /\ UNCHANGED <<gameVars, account, signIns, login, deleting, overtaken, crashes>>

\* login_player up to the password check, and the insertion of the session
\* (one session at a time here).
LogIn ==
    /\ account /\ ~login
    /\ signIns < MaxSignIns
    /\ login' = TRUE
    /\ signIns' = signIns + 1
    /\ UNCHANGED <<gameVars, account, session, deleting, overtaken, crashes>>

CreateSession ==
    /\ login
    /\ ~session.live
    /\ login' = FALSE
    /\ session' = [NoSession EXCEPT !.live = TRUE]
    /\ UNCHANGED <<gameVars, account, signIns, deleting, overtaken, crashes>>

\* logout, change_password and admin_sign_out_user.
SignOut ==
    /\ session.live
    /\ session' = NoSession
    /\ UNCHANGED <<gameVars, account, signIns, login, deleting, overtaken, crashes>>

\* delete_expired_sessions.
SweepSessions ==
    /\ session.live
    /\ session.age > Lifetime \/ session.idle > IdleWindow
    /\ session' = NoSession
    /\ UNCHANGED <<gameVars, account, signIns, login, deleting, overtaken, crashes>>

-----------------------------------------------------------------------------
(* The game.                                                               *)

\* create_game: by the account, or by another player who invites it; then
\* the row; then the session in memory.
CreateCheck ==
    /\ made < MaxGames
    /\ creating = "no" /\ ~InMemory /\ stored = NoGame
    /\ ~unsaved /\ ~stale /\ ~dropping
    /\ Accepted(session) \/ account
    /\ creating' = "checked"
    /\ made' = made + 1
    /\ mails' = [t \in 0 .. MaxTurns |-> 0]
    /\ UNCHANGED <<unsaved, game, stored, endedAge, overAge, stale, dropping, accountVars,
                   overtaken, crashes>>

CreateSave ==
    /\ creating = "checked"
    /\ creating' = "saved"
    /\ stored' = NewGame
    /\ UNCHANGED <<unsaved, game, endedAge, overAge, made, stale, dropping, mails,
                   accountVars, overtaken, crashes>>

CreateInsert ==
    /\ creating = "saved"
    /\ creating' = "no"
    /\ game' = NewGame
    /\ UNCHANGED <<unsaved, stored, endedAge, overAge, made, stale, dropping, mails,
                   accountVars, overtaken, crashes>>

calmVars == <<made, creating, stale, dropping, mails, accountVars, crashes>>

\* start_game.
Start ==
    /\ game.status = "waiting"
    /\ ChangedUnsaved([game EXCEPT !.status = "active", !.turn = 1, !.age = 0])
    /\ UNCHANGED calmVars

\* submit_action: another turn, or the end.
Move ==
    /\ game.status = "active"
    /\ \/ /\ game.turn < MaxTurns
          /\ ChangedUnsaved([game EXCEPT !.turn = @ + 1, !.age = 0])
       \/ ChangedUnsaved(Over(game, "finished"))
    /\ UNCHANGED calmVars

\* post_chat_message, and remove_game_for_player of a game that is over.
Touch ==
    /\ InMemory
    /\ IF game.status \in Ends
       THEN game.touches < MaxTouches /\ Changed([game EXCEPT !.touches = @ + 1])
       ELSE Changed(game)
    /\ UNCHANGED calmVars

\* abort_game, force_resign_seat and admin_force_end_game.
Stop ==
    /\ game.status \in {"waiting", "active"}
    /\ \E end \in Ends : Changed(Over(game, end))
    /\ UNCHANGED calmVars

-----------------------------------------------------------------------------
(* The sweeps of list_games.                                               *)

Overdue(g) == g.status = "active" /\ g.age >= TurnLimit

\* expire_overdue_turns: of two seats one stays, so the game is over.
ExpireTurns ==
    /\ Overdue(game)
    /\ Changed(Over(game, "finished"))
    /\ UNCHANGED calmVars

\* Mutant: no note is made of the reminder.
NotedReminderNever(g) == g

\* reminder_sent_turn.
NotedReminder(g) == [g EXCEPT !.reminded = g.turn]

\* send_move_time_reminders: a third of the limit or less remains.
Remind ==
    /\ game.status = "active"
    /\ game.reminded # game.turn
    /\ 3 * (TurnLimit - game.age) <= TurnLimit
    /\ Changed(NotedReminder(game))
    /\ mails' = [mails EXCEPT ![game.turn] = @ + 1]
    /\ UNCHANGED <<made, creating, stale, dropping, accountVars, crashes>>

\* Mutant: listed a little before the seven days are over.
ListedEarly(g) == g.status \in Ends /\ endedAge >= KeepFor

\* list_terminal_game_ids_older_than.
Listed(g) == g.status \in Ends /\ endedAge > KeepFor

\* expire_old_terminal_games: the query, and the deletion under the lock.
ListStale ==
    /\ ~stale /\ Listed(stored)
    /\ stale' = TRUE
    /\ UNCHANGED <<unsaved, game, stored, endedAge, overAge, made, creating, dropping,
                   mails, accountVars, overtaken, crashes>>

DeleteStale ==
    /\ stale
    /\ stale' = FALSE
    /\ stored' = NoGame /\ game' = NoGame /\ endedAge' = 0 /\ overAge' = 0
    /\ UNCHANGED <<unsaved, made, creating, dropping, mails, accountVars,
                   overtaken, crashes>>

\* list_games makes all of them before it answers, whoever calls it.
Sweeps == ExpireTurns \/ Remind \/ ListStale \/ DeleteStale \/ SweepSessions

-----------------------------------------------------------------------------
(* The administrator.                                                      *)

\* admin_delete_game: the row without the lock, then the session.
DropRow ==
    /\ ~dropping /\ stored # NoGame
    /\ dropping' = TRUE
    /\ stored' = NoGame /\ endedAge' = 0
    /\ overtaken' = (overtaken \/ creating # "no")
    /\ UNCHANGED <<unsaved, game, overAge, made, creating, stale, mails, accountVars, crashes>>

DropSession ==
    /\ dropping
    /\ dropping' = FALSE
    /\ game' = NoGame /\ overAge' = 0
    /\ UNCHANGED <<unsaved, stored, endedAge, made, creating, stale, mails, accountVars,
                   overtaken, crashes>>

Unreferenced == ~game.refers

\* admin_delete_user: first the games, ...
DeleteCheckGames ==
    /\ account /\ deleting = "no"
    /\ Unreferenced
    /\ deleting' = "games"
    /\ UNCHANGED <<gameVars, account, session, signIns, login, overtaken, crashes>>

\* Mutant: any session counts, however old.
SignedInEver(s) == s.live

\* ... then the sessions (has_live_session), ...
SignedIn(s) == s.live /\ s.age <= Lifetime /\ s.idle <= IdleWindow

DeleteCheckSession ==
    /\ deleting = "games"
    /\ deleting' = IF SignedIn(session) THEN "no" ELSE "session"
    /\ UNCHANGED <<gameVars, account, session, signIns, login, overtaken, crashes>>

\* ... then delete_player, ...
DeletePlayer ==
    /\ deleting = "session"
    /\ deleting' = "release"
    /\ account' = FALSE /\ session' = NoSession
    /\ overtaken' = (overtaken \/ login \/ creating # "no")
    /\ UNCHANGED <<gameVars, signIns, login, crashes>>

\* Mutant: the games in memory keep the account's seats.
ReleasedNever(g) == g

\* release_player.
Released(g) == [g EXCEPT !.refers = FALSE]

\* ... and the seats it still holds in memory.
DeleteRelease ==
    /\ deleting = "release"
    /\ deleting' = "no"
    /\ IF game.refers
       THEN Changed(Released(game))
       ELSE UNCHANGED <<game, stored, endedAge, overAge, unsaved, overtaken>>
    /\ UNCHANGED <<made, creating, stale, dropping, mails, account, session,
                   signIns, login, crashes>>

-----------------------------------------------------------------------------

\* The process restarts from the snapshots.
Crash ==
    /\ crashes < MaxCrashes
    /\ crashes' = crashes + 1
    /\ game' = stored
    /\ overAge' = IF stored.status \in Ends THEN overAge ELSE 0
    /\ unsaved' = FALSE /\ creating' = "no" /\ stale' = FALSE /\ dropping' = FALSE
    /\ login' = FALSE /\ deleting' = "no"
    /\ overtaken' = (overtaken \/ deleting = "release")
    /\ UNCHANGED <<stored, endedAge, made, mails, account, session, signIns>>

DeleteUser ==
    DeleteCheckGames \/ DeleteCheckSession \/ DeletePlayer \/ DeleteRelease

Next ==
    \/ Tick
    \/ Use \/ LogIn \/ CreateSession \/ SignOut
    \/ CreateCheck \/ CreateSave \/ CreateInsert
    \/ Start \/ Move \/ Touch \/ Stop \/ FinalSave
    \/ Sweeps
    \/ DropRow \/ DropSession
    \/ DeleteUser
    \/ Crash

Spec == Init /\ [][Next]_vars

\* Time passes, a call under way gets on, somebody keeps listing their games,
\* and the administrator keeps trying.
Fairness ==
    /\ WF_vars(Tick) /\ WF_vars(FinalSave) /\ WF_vars(DropSession)
    /\ WF_vars(CreateSave \/ CreateInsert)
    /\ WF_vars(ExpireTurns) /\ WF_vars(ListStale \/ DeleteStale)
    /\ WF_vars(DeleteUser)

FairSpec == Spec /\ Fairness

-----------------------------------------------------------------------------
(* Properties.                                                             *)

Game == [status : {"none", "waiting", "active"} \cup Ends, turn : 0 .. MaxTurns,
         age : 0 .. TurnLimit, reminded : -1 .. MaxTurns, refers : BOOLEAN,
         touches : 0 .. MaxTouches]

TypeOK ==
    /\ game \in Game /\ stored \in Game
    /\ endedAge \in 0 .. KeepFor + 1 /\ overAge \in 0 .. KeepFor + 1
    /\ made \in 0 .. MaxGames
    /\ creating \in {"no", "checked", "saved"}
    /\ {unsaved, stale, dropping, account, login, overtaken} \subseteq BOOLEAN
    /\ mails \in [0 .. MaxTurns -> 0 .. 2]
    /\ session \in [live : BOOLEAN, age : 0 .. Lifetime + 1,
                    idle : 0 .. IdleWindow + 1, unused : 0 .. IdleWindow + 1]
    /\ signIns \in 0 .. MaxSignIns
    /\ deleting \in {"no", "games", "session", "release"}
    /\ crashes \in 0 .. MaxCrashes

\* RET-4: "a game is removed no sooner than RET-1 allows", seven days after
\* it ended, although what the sweep listed it deletes without another look.
RemovedNoSooner ==
    [][stale /\ ~stale' /\ InMemory /\ ~overtaken /\ crashes' = crashes =>
          overAge > KeepFor]_vars

\* TIME-4: the player on turn is "emailed once", over overlapping sweeps,
\* moves a restart undid and reminders it did not.
RemindedOnce == \A t \in DOMAIN mails : mails[t] <= 1

\* ACC-1: no request is served on a session unused for longer than the
\* window, although last_seen_at is not kept up to date.
ServedInTime ==
    [][session.live /\ session'.live /\ session'.unused < session.unused =>
          session.unused <= IdleWindow /\ session.age < Lifetime]_vars

\* DEL-2: once the account is gone no game refers to it, in memory or after
\* a restart, unless a call that had read it was still under way.
DeletedIsUnreferenced ==
    ~account /\ deleting = "no" /\ ~overtaken => ~game.refers /\ ~stored.refers

\* TIME-2 and RET-1: "a game always ends eventually" and then goes, aborted
\* ones included, if somebody uses the service at all: once its start is
\* saved, for a restart before that undoes it.
StartedGamesGo == stored.status \in {"active"} \cup Ends ~> ~InMemory

\* DEL-4: "no account can be held open forever": once no unstarted game is
\* left to hold it (RET-3 is "not built yet, and DEL-4 depends on it"), an
\* administrator who keeps trying gets it deleted.
DeletableInTheEnd ==
    <>[](game.status # "waiting" /\ ~overtaken) => <>(~account)

\* Neither a game nor an account stays for ever.
NothingIsForEver == StartedGamesGo /\ DeletableInTheEnd

-----------------------------------------------------------------------------
(* The inductive invariant: the properties, with what they rest on.        *)

\* While a game is created there is none in memory, and nobody was reminded.
Creating ==
    creating # "no" =>
        /\ game = NoGame /\ ~stale /\ ~unsaved
        /\ stored \in IF creating = "saved" THEN {NewGame, NoGame} ELSE {NoGame}
        /\ \A t \in DOMAIN mails : mails[t] = 0

\* A turn reminded of is noted, or over, in memory and in the snapshot: a move
\* that a restart may undo is saved with the first reminder of its turn.
Past(g, t) ==
    /\ g.status # "waiting"
    /\ g.status = "active" => g.turn > t \/ (g.turn = t /\ g.reminded = t)
Reminded ==
    \A t \in DOMAIN mails :
        mails[t] = 0 \/ (mails[t] = 1 /\ Past(game, t) /\ Past(stored, t))

\* A game over in the snapshot is over in memory, and was so first; one that is
\* listed for deletion has been over for the time it is kept.
Ending ==
    ~overtaken =>
        /\ stored.status \in Ends => game.status \in Ends /\ endedAge <= overAge
        /\ stale /\ InMemory => game.status \in Ends /\ overAge > KeepFor
        /\ dropping => stored = NoGame /\ creating = "no"

\* The snapshot refers to nobody whom memory does not; and an account that is
\* gone has left no call or session that could refer to it again.
Referring ==
    /\ \A g \in {game, stored} : g.status = "none" => g = NoGame
    /\ ~overtaken =>
          /\ creating = "no" /\ stored.refers => game.refers
          /\ ~account =>
                /\ creating = "no" /\ ~login /\ ~session.live
                /\ deleting \in {"no", "release"}
                /\ deleting = "no" => ~game.refers

\* last_seen_at is never later than the last request.
SeenIsOld == session.live => session.unused <= session.idle

IInv == TypeOK /\ Creating /\ Reminded /\ Ending /\ Referring /\ SeenIsOld
=============================================================================
