----------------------------- MODULE Connection -----------------------------
(***************************************************************************)
(* The client's session and what it knows of the server (ui/src/app.rs):   *)
(* signing in and out, the stored token, the 401 that ends a session, the  *)
(* IS_ONLINE flag and the task that recovers from an outage, against a     *)
(* server that may be out of reach, or up and refusing what it limits      *)
(* (server-game/src/app/throttle.rs).  What is on screen is in Screen.     *)
(*                                                                         *)
(* Everything between two awaits of the code is one action.  Requests are  *)
(* a set of records: their answers arrive in any order.  A session that    *)
(* the server has ended stays ended, so a request is judged when its       *)
(* answer arrives.                                                         *)
(***************************************************************************)
EXTENDS Naturals

CONSTANTS
    MaxSessions,    \* bound: sessions the server makes
    MaxActs,        \* bound: requests the user asks for, and logins
    MaxOutages      \* bound: outages, and requests refused for asking too often

ASSUME ConnectionAssumption == {MaxSessions, MaxActs, MaxOutages} \subseteq Nat \ {0}

VARIABLES
    issued,     \* server: sessions made, whose tokens are 1, 2, ...
    live,       \* server: the sessions it accepts
    service,    \* "up", "busy" (the limit of the service is reached), or "down"
    outages,    \* outages so far, and requests refused for asking too often
    acts,       \* things the user has done
    stored,     \* the session token in local storage, or in the tab's own
    session,    \* signal session: the token signed in with
    requests,   \* requests sent and not yet answered
    invalid,    \* SESSION_INVALID
    online,     \* IS_ONLINE
    woken,      \* IS_ONLINE was written and the reconnect effect has not run
    recon       \* is_reconnecting: the recovery task and the token it captured

server == <<issued, live, service, outages>>
signedIn == <<stored, session, invalid>>
link == <<online, woken, recon>>
vars == <<issued, live, service, outages, acts, stored, session, requests,
          invalid, online, woken, recon>>

NoToken == 0
Token == 0..MaxSessions

\* What a request is for.  "hello" and "validate" start the client; "get" is
\* the games-list poll or any other GET; load_summaries_and_game is one request
\* "load", or "reload" for the recovery task, since its two halves fail alike;
\* "health" ends a recovery; "post" is any other POST, or the request for a
\* word list, whose status is not looked at either.
Posts == {"validate", "post", "logout"}
\* The only route the limits leave alone.
Open == {"hello", "health"}
Kinds == Posts \cup Open \cup {"get", "load", "reload"}
Request(kind, token) == [kind |-> kind, token |-> token]
Idle == [phase |-> "no", token |-> NoToken]

TypeOK ==
    /\ issued \in Token /\ live \subseteq 1..issued
    /\ service \in {"up", "busy", "down"} /\ outages \in 0..MaxOutages /\ acts \in 0..MaxActs
    /\ stored \in Token /\ session \in Token /\ invalid \in BOOLEAN
    /\ requests \subseteq [kind : Kinds, token : Token]
    /\ online \in BOOLEAN /\ woken \in BOOLEAN
    /\ recon \in [phase : {"no", "probing", "loading"}, token : Token]

-----------------------------------------------------------------------------
\* mark_offline writes the signal each time, mark_online only to change it.
MarkOffline == online' = FALSE /\ woken' = TRUE
MarkOnline == online' = TRUE /\ woken' = (woken \/ ~online)

\* The server: a session runs out or is ended elsewhere, and outages.

EndSession(t) ==
    /\ t \in live /\ live' = live \ {t}
    /\ UNCHANGED <<issued, service, outages, acts, signedIn, requests, link>>

Outage ==
    /\ service = "up" /\ outages < MaxOutages
    /\ service' \in {"busy", "down"} /\ outages' = outages + 1
    /\ UNCHANGED <<issued, live, acts, signedIn, requests, link>>

Recover ==
    /\ service # "up" /\ service' = "up"
    /\ UNCHANGED <<issued, live, outages, acts, signedIn, requests, link>>

\* Beyond the limit of the service as a whole, which lies outermost, a request
\* may be turned away with a 503.
TurnedAway(r) == service = "down" \/ (service = "busy" /\ r.kind \notin Open)

\* A GET without a good session is a 401; a POST is refused, and the helpers
\* for POST do not look at the status.
Answer(r) ==
    IF r.kind \in Open \/ r.token \in live THEN "ok"
    ELSE IF r.kind \in Posts THEN "refused" ELSE "401"

-----------------------------------------------------------------------------
\* The answers, each in the continuation of the handler that waits for it;
\* a is the answer, or "lost".

Done(r, more) == requests' = (requests \ {r}) \cup more

\* What fails is reported and left at that, also in load_summaries_and_game.
\* The recovery task goes on to its last request whatever came of this one.
ReceiveLoad(r) ==
    /\ r.kind \notin Open \cup {"validate"}
    /\ Done(r, IF r.kind = "reload" THEN {Request("health", NoToken)} ELSE {})
    /\ UNCHANGED <<stored, session, recon>>

\* The stored token turns out good, or is dropped.
ReceiveValidate(r, a) ==
    /\ r.kind = "validate"
    /\ IF a = "ok"
       THEN session' = r.token /\ UNCHANGED stored /\ Done(r, {Request("load", r.token)})
       ELSE stored' = NoToken /\ UNCHANGED session /\ Done(r, {})
    /\ UNCHANGED recon

\* The version check at the start goes on to the stored token; the one that
\* ends a recovery lets the next one begin.
ReceiveOpen(r) ==
    /\ r.kind \in Open
    /\ Done(r, IF r.kind = "hello" /\ stored # NoToken THEN {Request("validate", stored)} ELSE {})
    /\ recon' = IF r.kind = "health" THEN Idle ELSE recon
    /\ UNCHANGED <<stored, session>>

Handle(r, a) == ReceiveLoad(r) \/ ReceiveValidate(r, a) \/ ReceiveOpen(r)

\* Mutant: the loads look at the status, the poll of the games list does not.
FlaggedByLoads(r, a) ==
    IF a = "401" /\ r.kind # "get" THEN TRUE
    ELSE IF r.kind = "validate" /\ a = "ok" THEN FALSE ELSE invalid

\* get_json_auth and its siblings: whatever the answer, the server is there;
\* a 401 on a GET that carried a token says that the session is gone.
Flagged(r, a) ==
    CASE a = "401" /\ r.token # NoToken -> TRUE
      [] r.kind = "validate" /\ a = "ok" -> FALSE
      [] OTHER -> invalid

Receive(r) ==
    /\ service # "down"
    /\ Handle(r, Answer(r)) /\ MarkOnline
    /\ live' = IF r.kind = "logout" THEN live \ {r.token} ELSE live
    /\ invalid' = Flagged(r, Answer(r))
    /\ UNCHANGED <<issued, service, outages, acts>>

\* The session, or the address, has asked too often: a 429, which is neither a
\* sign of an outage nor of the end of the session.
Throttled(r) ==
    /\ service # "down" /\ r.kind \notin Open
    /\ outages < MaxOutages /\ outages' = outages + 1
    /\ Handle(r, "refused") /\ MarkOnline
    /\ UNCHANGED <<issued, live, service, acts, invalid>>

\* No answer at all, one of a proxy that cannot reach the server, or a 503 of
\* the server itself: the client makes no difference.
Fail(r) ==
    /\ TurnedAway(r)
    /\ Handle(r, "lost") /\ MarkOffline
    /\ UNCHANGED <<server, acts, invalid>>

-----------------------------------------------------------------------------
\* The user.

Acting == acts < MaxActs /\ acts' = acts + 1

\* save_authenticated writes both stores, so no older token is left in either.
Remember(t) == stored' = t

\* What the client does with a new session.
Authenticated(t) ==
    /\ Remember(t) /\ session' = t /\ invalid' = FALSE
    /\ requests' = requests \cup {Request("load", t)}

\* A new session: the login form, which is shown while there is none.
Login ==
    /\ service # "down" /\ session = NoToken /\ issued < MaxSessions /\ Acting
    /\ issued' = issued + 1 /\ live' = live \cup {issued'}
    /\ Authenticated(issued') /\ MarkOnline
    /\ UNCHANGED <<service, outages, recon>>

\* An attempt to sign in is given up after eight seconds, or is turned away; it
\* is made again a few times before the form says so.  A session the server may
\* have made all the same is known to nobody.
AttemptFails ==
    /\ session = NoToken /\ Acting /\ MarkOffline
    /\ UNCHANGED <<server, signedIn, requests, recon>>

\* clear_session_state and clear_tokens, called wherever a session ends.
Clear == session' = NoToken /\ Remember(NoToken)

Logout ==
    /\ session # NoToken /\ Acting /\ Clear
    /\ requests' = requests \cup {Request("logout", session)}
    /\ UNCHANGED <<server, invalid, link>>

\* The server ends every session of an account whose password changes.
PasswordChanged ==
    /\ service # "down" /\ session \in live /\ Acting /\ Clear
    /\ live' = live \ {session} /\ MarkOnline
    /\ UNCHANGED <<issued, service, outages, requests, invalid, recon>>

Post ==
    /\ session # NoToken /\ Acting
    /\ requests' = requests \cup {Request("post", session)}
    /\ UNCHANGED <<server, signedIn, link>>

-----------------------------------------------------------------------------
\* The tasks and effects that run by themselves.

\* The games list is asked for every ten seconds, one request at a time.
Poll ==
    /\ session # NoToken
    /\ \A r \in requests : r.kind # "get"
    /\ requests' = requests \cup {Request("get", session)}
    /\ UNCHANGED <<server, acts, signedIn, link>>

\* The effect that ends a session some request was told is gone.
SessionGone ==
    /\ invalid /\ session # NoToken /\ Clear
    /\ UNCHANGED <<server, acts, requests, invalid, link>>

\* A subscription to game events dials every two seconds.  Without a connection
\* the desktop knows at once, and the browser only after it has marked itself
\* online; a server that does not accept the session refuses it as well.
Dial ==
    /\ session # NoToken
    /\ IF service = "up" /\ session \in live THEN MarkOnline ELSE MarkOffline \/ MarkOnline
    /\ UNCHANGED <<server, acts, signedIn, requests, recon>>

\* Mutant: nothing is recovered while nobody is signed in.
ReconnectSignedIn ==
    /\ woken /\ woken' = FALSE
    /\ recon' = IF online \/ recon.phase # "no" \/ session = NoToken THEN recon
                ELSE [phase |-> "probing", token |-> session]
    /\ UNCHANGED <<server, acts, signedIn, requests, online>>

\* The effect on IS_ONLINE starts the recovery task unless one is running.
ReconnectEffect ==
    /\ woken /\ woken' = FALSE
    /\ recon' = IF online \/ recon.phase # "no" THEN recon
                ELSE [phase |-> "probing", token |-> session]
    /\ UNCHANGED <<server, acts, signedIn, requests, online>>

\* check_server_reachable, a request nothing limits: it wants a good status.
Reachable == service # "down"

\* The probe that finds the server, after any number that do not.
Probe ==
    /\ recon.phase = "probing" /\ Reachable
    /\ recon' = [recon EXCEPT !.phase = "loading"]
    /\ requests' = requests \cup {IF recon.token = NoToken THEN Request("health", NoToken)
                                  ELSE Request("reload", recon.token)}
    /\ online' = TRUE /\ woken' = TRUE
    /\ UNCHANGED <<server, acts, signedIn>>

-----------------------------------------------------------------------------
Init ==
    /\ issued \in {0, 1} /\ stored = issued /\ live \in SUBSET (1..issued)
    /\ service \in {"up", "down"} /\ outages = (IF service = "up" THEN 0 ELSE 1)
    /\ acts = 0
    /\ session = NoToken /\ requests = {Request("hello", NoToken)}
    /\ invalid = FALSE /\ online = TRUE /\ woken = FALSE /\ recon = Idle

User == Login \/ AttemptFails \/ Logout \/ PasswordChanged \/ Post
Server == (\E t \in live : EndSession(t)) \/ Outage \/ Recover
Answered(k) == \E r \in requests : r.kind = k /\ (Receive(r) \/ Throttled(r) \/ Fail(r))
Tasks == Poll \/ SessionGone \/ Dial \/ ReconnectEffect \/ Probe
Next == User \/ Server \/ Tasks \/ \E k \in Kinds : Answered(k)

Spec == Init /\ [][Next]_vars

\* Requests are answered or fail, the timers of the poll and of the recovery
\* task fire, effects run, and the server is brought back.  No fairness for the
\* user, and none is needed for the subscriptions.
Fairness ==
    /\ \A k \in Kinds : WF_vars(Answered(k))
    /\ WF_vars(Recover) /\ WF_vars(Poll) /\ WF_vars(SessionGone)
    /\ WF_vars(ReconnectEffect) /\ WF_vars(Probe)
FairSpec == Spec /\ Fairness

-----------------------------------------------------------------------------
\* Properties.

\* A session that the server has ended does not stay: some request of it meets
\* the 401 and it is cleared, whatever else was in flight.
DeadSessionEnds == \A t \in 1..MaxSessions : (session = t /\ t \notin live) ~> (session # t)

\* The recovery task always ends with a request that says what IS_ONLINE is,
\* so no failure in the middle of it leaves the client offline for good.
ComesBackOnline == ~online ~> online
=============================================================================
