------------------------------- MODULE Screen -------------------------------
(***************************************************************************)
(* What the client shows (ui/src/app.rs): the game on screen, the tasks    *)
(* that receive its events, and the requests whose answers replace it.     *)
(*                                                                         *)
(* Everything between two awaits of the code is one action.  Requests are  *)
(* a set of records, answered in any order or not at all.  The session and *)
(* the recovery from an outage are those of module Connection, reduced to  *)
(* what they do to the screen; composing a move is in module Composer.     *)
(* The contents of the games list and the messages are left out.           *)
(***************************************************************************)
EXTENDS Naturals, FiniteSets

CONSTANTS
    GameIds,        \* ids of games
    None,           \* no game
    MaxSessions,    \* bound: sessions the user signs in with
    MaxVersion,     \* bound: the version a game may reach
    MaxActs         \* bound: requests the user asks for, and recoveries

ASSUME ScreenAssumption ==
    None \notin GameIds /\ {MaxSessions, MaxVersion, MaxActs} \subseteq Nat \ {0}

VARIABLES
    version,    \* server: the version of each game
    acts,       \* things the user has done, and recoveries
    issued,     \* sessions signed in with so far, whose tokens are 1, 2, ...
    session,    \* signal session: the token signed in with
    onScreen,   \* signal game: what is on screen
    feed,       \* signal websocket_game_id
    loops,      \* the subscription tasks
    requests,   \* requests sent and not yet answered
    recon       \* what a running recovery task captured when it began

screenVars == <<version, acts, issued, session, onScreen, feed, loops, requests, recon>>

NoToken == 0
Token == 0..MaxSessions

\* What a request is for.  "load" lists the games and is followed by "game",
\* the two halves of load_summaries_and_game; "open" and "unread" are asked for
\* by the games list and by the chat indicator.
Loads == {"game", "open", "unread"}
Changes == {"act", "join"}
Kinds == Loads \cup Changes \cup {"load", "remove"}

View == [game : GameIds, version : 1..MaxVersion, viewer : Token]
NotRecovering == [token |-> NoToken, game |-> None]

-----------------------------------------------------------------------------
\* A request keeps the version its game had when it was sent, and when the
\* server has done what it asks, the version that resulted.
Request(kind, game, token) ==
    [kind |-> kind, game |-> game, token |-> token, done |-> FALSE,
     version |-> IF game = None THEN 0 ELSE version[game]]

Acting == acts < MaxActs /\ acts' = acts + 1
Post(r) ==
    /\ session # NoToken /\ Acting
    /\ requests' = requests \cup {r}
    /\ UNCHANGED <<version, issued, session, onScreen, feed, loops, recon>>

Showing(g) == onScreen # None /\ onScreen.game = g

\* Mutant: whatever arrives is shown.
ShouldApplyAny(new) == TRUE

\* should_apply_update and apply_game_update.
ShouldApply(new) == ~(Showing(new.game) /\ new.version <= onScreen.version)
Apply(new) == onScreen' = IF ShouldApply(new) THEN new ELSE onScreen

-----------------------------------------------------------------------------
\* The server: other players move, and a change asked for by this client is
\* made some time before its answer arrives.

Moved(g) == version[g] < MaxVersion /\ version' = [version EXCEPT ![g] = @ + 1]

OthersMove(g) ==
    /\ Moved(g)
    /\ UNCHANGED <<acts, issued, session, onScreen, feed, loops, requests, recon>>

Serve(r) ==
    /\ r.kind \in Changes /\ ~r.done /\ Moved(r.game)
    /\ requests' = (requests \ {r}) \cup {[r EXCEPT !.done = TRUE, !.version = @ + 1]}
    /\ UNCHANGED <<acts, issued, session, onScreen, feed, loops, recon>>

-----------------------------------------------------------------------------
\* The answers, each in the continuation of the handler that waits for it.

Done(r, more) == requests' = (requests \ {r}) \cup more

\* Refused or lost: the handler reports it and changes nothing else.
Refused(r) ==
    /\ Done(r, {})
    /\ UNCHANGED <<version, acts, issued, session, onScreen, feed, loops, recon>>

\* load_summaries_and_game, called by bootstrap, by a login and by the recovery
\* task, which asks for the game it captured, goes on with a game of the list.
ReceiveList(r) ==
    /\ r.kind = "load"
    /\ \E g \in GameIds : r.game \in {None, g} /\ Done(r, {Request("game", g, r.token)})
    /\ UNCHANGED <<version, acts, issued, session, onScreen, feed, loops, recon>>

\* A game loaded, in a state the server had since the request was sent.  The
\* chat indicator writes the signal itself.
ReceiveGame(r) ==
    /\ r.kind \in Loads
    /\ Done(r, {})
    /\ feed' = IF r.kind = "open" THEN None ELSE feed
    /\ \E v \in r.version..version[r.game] :
         LET new == [game |-> r.game, version |-> v, viewer |-> r.token]
         IN IF r.kind = "unread" THEN onScreen' = new ELSE Apply(new)
    /\ UNCHANGED <<version, acts, issued, session, loops, recon>>

\* The state after a move, a message or a change of the seats.
Result(r) == [game |-> r.game, version |-> r.version, viewer |-> r.token]
ReceiveAct(r) ==
    /\ r.kind = "act" /\ r.done
    /\ Done(r, {}) /\ Apply(Result(r))
    /\ UNCHANGED <<version, acts, issued, session, feed, loops, recon>>

\* A game joined or created, which may be started at once.
ReceiveJoin(r) ==
    /\ r.kind = "join" /\ r.done
    /\ Done(r, {}) \/ Done(r, {Request("act", r.game, r.token)})
    /\ Apply(Result(r)) /\ feed' = None
    /\ UNCHANGED <<version, acts, issued, session, loops, recon>>

\* A finished game is off the user's list.
ReceiveRemove(r) ==
    /\ r.kind = "remove"
    /\ Done(r, {})
    /\ onScreen' = IF Showing(r.game) THEN None ELSE onScreen
    /\ UNCHANGED <<version, acts, issued, session, feed, loops, recon>>

-----------------------------------------------------------------------------
\* The user.

\* A login, or at the start the stored token.
SignIn ==
    /\ session = NoToken /\ issued < MaxSessions
    /\ issued' = issued + 1 /\ session' = issued'
    /\ requests' = requests \cup {Request("load", None, issued')}
    /\ UNCHANGED <<version, acts, onScreen, feed, loops, recon>>

\* clear_session_state, called wherever a session ends.
SignOut ==
    /\ session # NoToken
    /\ session' = NoToken /\ onScreen' = None /\ feed' = None
    /\ UNCHANGED <<version, acts, issued, loops, requests, recon>>

OpenGame(g) == Post(Request("open", g, session))
OpenUnread(g) == ~Showing(g) /\ Post(Request("unread", g, session))
Change(g) == Showing(g) /\ Post(Request("act", g, session))
Join(g) == Post(Request("join", g, session))
RemoveGame(g) == Post(Request("remove", g, session))

-----------------------------------------------------------------------------
\* The tasks that run by themselves.

\* The recovery task captures the session and the game when the server is lost
\* and loads them when it is found, whatever has happened in between.
LoseServer ==
    /\ recon = NotRecovering /\ session # NoToken /\ Acting
    /\ recon' = [token |-> session, game |-> IF onScreen = None THEN None ELSE onScreen.game]
    /\ UNCHANGED <<version, issued, session, onScreen, feed, loops, requests>>

FindServer ==
    /\ recon # NotRecovering /\ recon' = NotRecovering
    /\ requests' = requests \cup {Request("load", recon.game, recon.token)}
    /\ UNCHANGED <<version, acts, issued, session, onScreen, feed, loops>>

\* Another game is on screen: a subscription task for it, which keeps the
\* session of this moment.  Its field at is the version up to which events have
\* come, or 0 while it is not connected.
Subscribe ==
    /\ onScreen # None /\ feed # onScreen.game
    /\ feed' = onScreen.game
    /\ loops' = loops \cup {[game |-> onScreen.game, token |-> session, at |-> 0]}
    /\ UNCHANGED <<version, acts, issued, session, onScreen, requests, recon>>

With(l, more) == loops' = (loops \ {l}) \cup more

\* One turn of the task, which ends when another game is selected.
Dial(l) ==
    /\ l.at = 0
    /\ With(l, IF feed # l.game THEN {} ELSE {[l EXCEPT !.at = version[l.game]]})
    /\ UNCHANGED <<version, acts, issued, session, onScreen, feed, requests, recon>>

\* Mutant: the task ends when its connection does.
HangupForGood(l) ==
    /\ l.at # 0
    /\ With(l, {})
    /\ UNCHANGED <<version, acts, issued, session, onScreen, feed, requests, recon>>

\* The connection breaks, or the server closes it on a receiver that lags; the
\* task dials again after a while.
Hangup(l) ==
    /\ l.at # 0
    /\ With(l, {[l EXCEPT !.at = 0]})
    /\ UNCHANGED <<version, acts, issued, session, onScreen, feed, requests, recon>>

\* An event: the task ends if another game is selected by now.
Event(l) ==
    /\ l.at # 0 /\ l.at < version[l.game]
    /\ IF feed # l.game THEN With(l, {}) /\ UNCHANGED onScreen
       ELSE /\ With(l, {[l EXCEPT !.at = @ + 1]})
            /\ Apply([game |-> l.game, version |-> l.at + 1, viewer |-> l.token])
    /\ UNCHANGED <<version, acts, issued, session, feed, requests, recon>>

-----------------------------------------------------------------------------
ScreenInit ==
    /\ version = [g \in GameIds |-> 1] /\ acts = 0 /\ issued = 0
    /\ session = NoToken /\ onScreen = None /\ feed = None
    /\ loops = {} /\ requests = {} /\ recon = NotRecovering

User ==
    \/ SignIn \/ SignOut
    \/ \E g \in GameIds : OpenGame(g) \/ OpenUnread(g) \/ Change(g) \/ Join(g) \/ RemoveGame(g)
Receive(r) ==
    Refused(r) \/ ReceiveList(r) \/ ReceiveGame(r) \/ ReceiveAct(r) \/ ReceiveJoin(r)
    \/ ReceiveRemove(r)
Tasks ==
    \/ LoseServer \/ FindServer \/ Subscribe
    \/ \E l \in loops : Dial(l) \/ Hangup(l) \/ Event(l)
ScreenNext ==
    \/ User \/ Tasks
    \/ \E g \in GameIds : OthersMove(g)
    \/ \E r \in requests : Serve(r) \/ Receive(r)

ScreenSpec == ScreenInit /\ [][ScreenNext]_screenVars

-----------------------------------------------------------------------------
\* Properties.

ScreenTypeOK ==
    /\ version \in [GameIds -> 1..MaxVersion] /\ acts \in 0..MaxActs
    /\ issued \in Token /\ session \in {NoToken, issued}
    /\ onScreen \in View \cup {None} /\ feed \in GameIds \cup {None}
    /\ loops \subseteq [game : GameIds, token : Token, at : 0..MaxVersion]
    /\ requests \subseteq [kind : Kinds, game : GameIds \cup {None}, token : Token,
                           version : 0..MaxVersion, done : BOOLEAN]
    /\ recon \in [token : Token, game : GameIds \cup {None}]

\* should_apply_update guards every way a game reaches the screen but one:
\* while a game stays there, only the chat indicator's load may put an older
\* version of it back.  Answers and events come in any order.
VersionsOnlyGrow ==
    [][(onScreen # None /\ onScreen' # None /\ onScreen # onScreen')
       => \/ onScreen'.game # onScreen.game \/ onScreen'.version > onScreen.version
          \/ \E r \in requests \ requests' : r.kind = "unread" /\ r.game = onScreen.game]_screenVars

\* A subscription task gives up only when another game is selected, and one is
\* started only when websocket_game_id changes: while it names a game, some
\* task for that game is there to receive its events, or to dial again.
FeedIsTended == feed # None => \E l \in loops : l.game = feed

-----------------------------------------------------------------------------
\* The inductive invariant.

\* A request for a game names one, and carries a version the game has had.
RequestsAreInOrder ==
    \A r \in requests :
        /\ r.kind # "load" => r.game \in GameIds
        /\ r.game \in GameIds => r.version \in 1..version[r.game]

ScreenInv == ScreenTypeOK /\ RequestsAreInOrder /\ FeedIsTended
=============================================================================
