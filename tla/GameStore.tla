----------------------------- MODULE GameStore -----------------------------
(***************************************************************************)
(* One game as the server keeps it, saves it and announces it: the session *)
(* in AppState::games, its snapshot in the database, the broadcast channel *)
(* and the clients that watch (crates/server-game/src/app/games.rs,        *)
(* events.rs, sweeps_game.rs; should_apply_update in crates/ui/src/app.rs).*)
(* A handler is cut where it releases the games lock or awaits outside it; *)
(* between two of its steps any other handler, a crash or a failure may    *)
(* come.                                                                   *)
(*                                                                         *)
(* Abstracted: what a move does to the game (module GameSession) is here a *)
(* new entry of its log, numbered by the restarts before it, a choice of who*)
(* is on turn next, and whether it ended the game; redaction is left out.  *)
(***************************************************************************)
EXTENDS Integers, Sequences, FiniteSets, SequencesExt

CONSTANTS
    Requests,    \* requests that may be under way at once
    Clients,     \* clients watching the game
    MaxMoves,    \* bound: the MaxMoves-th move ends the game
    MaxNotes,    \* bound on the chat messages
    QueueSize,   \* the broadcast channel's capacity (64 in the code)
    MaxCrashes,  \* bound on the restarts
    MaxReplies,  \* bound on the responses on their way
    CanFail      \* whether a save or a handler may fail

ASSUME BoundsAssumption ==
    /\ MaxMoves \in Nat \ {0} /\ MaxNotes \in Nat /\ MaxCrashes \in Nat
    /\ MaxReplies \in Nat \ {0}
    /\ QueueSize \in Nat \ {0}
    /\ CanFail \in BOOLEAN

VARIABLES
    game,     \* the session in memory
    saved,    \* the session as the database's snapshot has it
    settled,  \* how often settle_ratings ran for this game
    deltas,   \* rating_history has this game's rows
    calls,    \* handlers under way
    stream,   \* stream[c]: events c's socket has yet to deliver
    linked,   \* linked[c]: c's socket is subscribed
    view,     \* view[c]: the game c shows
    replies,  \* HTTP responses on their way
    behind,   \* behind[c]: an event went out while c was not subscribed
    crashes,  \* restarts so far
    lost      \* a change was made that no save or no event followed

serverVars == <<game, saved, settled, deltas>>
clientVars == <<stream, linked, view, replies, behind>>
vars == <<serverVars, calls, clientVars, crashes, lost>>

Statuses == {"Waiting", "Active", "Finished"}

NewGame == [status |-> "Waiting", turn |-> "nobody", log |-> << >>,
            notes |-> 0, hidden |-> FALSE, version |-> 0]

\* to_dto: what a client is shown; the rating change is attached later.
ToDto(g) == [status |-> g.status, log |-> g.log, notes |-> g.notes,
             version |-> g.version, deltas |-> FALSE]
NoDto == ToDto(NewGame)

Init ==
    /\ game = NewGame
    /\ saved = NewGame
    /\ settled = 0
    /\ deltas = FALSE
    /\ calls = {}
    /\ stream = [c \in Clients |-> << >>]
    /\ linked = [c \in Clients |-> FALSE]
    /\ view = [c \in Clients |-> ToDto(NewGame)]
    /\ replies = {}
    /\ behind = [c \in Clients |-> FALSE]
    /\ crashes = 0
    /\ lost = FALSE

-----------------------------------------------------------------------------
(* The session.                                                            *)

\* mark_changed.
Bumped(g) == [g EXCEPT !.version = @ + 1]

\* What a move may leave behind: the game over, or another turn, which stays
\* the engine's when a seat that was not on turn left.
Moved(g, turns) ==
    LET after == [Bumped(g) EXCEPT !.log = Append(@, crashes)]
    IN  {[after EXCEPT !.status = "Finished", !.turn = "nobody"]}
        \cup IF Len(g.log) + 1 < MaxMoves
             THEN {[after EXCEPT !.turn = t] : t \in turns}
             ELSE {}

\* Mutant: chat does not count as a change.
NotedUnmarked(g) == [g EXCEPT !.notes = @ + 1]

Noted(g) == [Bumped(g) EXCEPT !.notes = @ + 1]

EngineOnTurn == game.status = "Active" /\ game.turn = "engine"

-----------------------------------------------------------------------------
(* Saving and announcing.                                                  *)

\* save_game's single-fire gate.
Settles(g) == g.status = "Finished" /\ saved.status # "Finished" /\ settled = 0

\* save_game: one transaction for the snapshot and the rating step, which
\* writes rows unless fewer than two seats are ranked.
SaveGame(g) ==
    /\ saved' = g
    /\ settled' = IF Settles(g) THEN settled + 1 ELSE settled
    /\ \E ranked \in BOOLEAN : deltas' = (deltas \/ (Settles(g) /\ ranked))

Unsaved == CanFail /\ ~lost /\ lost' = TRUE /\ UNCHANGED <<saved, settled, deltas>>

\* Mutant: the change is read off the session and not off rating_history.
AttachUnread(dto) == [dto EXCEPT !.deltas = dto.status = "Finished"]

\* attach_rating_deltas.
Attach(dto) == [dto EXCEPT !.deltas = dto.status = "Finished" /\ deltas]

\* A send reaches every subscribed socket; one that is QueueSize events
\* behind is told it lagged, and stream_events closes it.
Lags(c) == linked[c] /\ Len(stream[c]) >= QueueSize
Broadcast(dto) ==
    /\ stream' = [c \in Clients |-> IF linked[c] /\ ~Lags(c)
                                    THEN Append(stream[c], dto) ELSE << >>]
    /\ linked' = [c \in Clients |-> linked[c] /\ ~Lags(c)]
    /\ behind' = [c \in Clients |-> (behind[c] \/ ~linked[c] \/ Lags(c))]

\* A response to c; `whole` marks that of get_game.
Reply(c, dto, whole) == [client |-> c, dto |-> dto, whole |-> whole]

-----------------------------------------------------------------------------
(* Handlers.                                                               *)

Free(r) == \A c \in calls : c.request # r
Call(r, step, dto, full) ==
    [request |-> r, step |-> step, dto |-> dto, full |-> full, announced |-> FALSE]
Begin(c) == calls' = calls \cup {c}
Step(c, d) == calls' = (calls \ {c}) \cup {d}

\* start_game, up to the release of the lock: nothing is saved yet.
Start(r) ==
    /\ Free(r)
    /\ game.status = "Waiting"
    /\ \E t \in {"human", "engine"} :
          game' = [Bumped(game) EXCEPT !.status = "Active", !.turn = t]
    /\ Begin(Call(r, "engines", NoDto, TRUE))
    /\ UNCHANGED <<saved, settled, deltas, clientVars, crashes, lost>>

\* submit_action, up to the release of the lock.  Only a resignation
\* is accepted while an engine is on turn.
Act(r) ==
    /\ Free(r)
    /\ game.status = "Active"
    /\ game' \in Moved(game, IF game.turn = "engine" THEN {"engine"}
                                     ELSE {"human", "engine"})
    /\ Begin(Call(r, "engines", NoDto, TRUE))
    /\ UNCHANGED <<saved, settled, deltas, clientVars, crashes, lost>>

\* suggest_move: the server makes the best move of the human on turn.
Suggest(r) == game.turn = "human" /\ Act(r)

\* maybe_run_engine_turn: the engine's choice, or a pass when its time is up,
\* is a move like any other.
EngineMoves == Moved(game, {"human", "engine"})

\* One round of run_engine_turns under the lock.
EngineTurn(c) ==
    /\ c.step = "engines"
    /\ IF EngineOnTurn
       THEN /\ game' \in EngineMoves
            /\ Step(c, [c EXCEPT !.dto = ToDto(game'),
                                 !.step = IF game'.status = "Finished"
                                          THEN "finish" ELSE "announce"])
       ELSE Step(c, [c EXCEPT !.step = "save"]) /\ UNCHANGED game
    /\ UNCHANGED <<saved, settled, deltas, clientVars, crashes, lost>>

\* The engine's last move is saved, under the shared lock, before it is
\* announced with the rating change.
EngineFinish(c) ==
    /\ c.step = "finish"
    /\ SaveGame(game)
    /\ Step(c, [c EXCEPT !.step = "announce",
                         !.dto.deltas = deltas'])
    /\ UNCHANGED <<game, clientVars, crashes, lost>>

\* The loop's own broadcast; any other engine move is not saved yet.
EngineAnnounce(c) ==
    /\ c.step = "announce"
    /\ Broadcast(c.dto)
    /\ Step(c, [c EXCEPT !.announced = TRUE, !.dto = NoDto,
                         !.step = IF c.dto.status = "Finished"
                                  THEN "save" ELSE "engines"])
    /\ UNCHANGED <<serverVars, view, replies, crashes, lost>>

\* Mutant: nothing left to save once the loop has announced a move.
FinalSaveUnannounced(c) ==
    /\ c.step = "save"
    /\ IF c.announced THEN UNCHANGED <<saved, settled, deltas>> ELSE SaveGame(game)
    /\ Step(c, [c EXCEPT !.step = "tell", !.dto = ToDto(game)])
    /\ UNCHANGED <<game, clientVars, crashes, lost>>

\* The handler takes the lock again and saves what the session is by now.
FinalSave(c) ==
    /\ c.step = "save"
    /\ SaveGame(game)
    /\ Step(c, [c EXCEPT !.step = "tell", !.dto = ToDto(game)])
    /\ UNCHANGED <<game, clientVars, crashes, lost>>

\* Mutant: a handler never announces, as if the loop always had.
AnnouncesNever(c) == FALSE

Announces(c) == ~c.announced

\* The end of a handler: rating changes are attached (not by chat), the event
\* goes out unless the loop announced one, and the response is sent or lost.
Tell(c) ==
    /\ c.step = "tell"
    /\ LET dto == IF c.full THEN Attach(c.dto) ELSE c.dto
       IN  /\ IF Announces(c) THEN Broadcast(dto)
              ELSE UNCHANGED <<stream, linked, behind>>
           /\ \/ UNCHANGED replies
             \/ /\ Cardinality(replies) < MaxReplies
                /\ \E w \in Clients : replies' = replies \cup {Reply(w, dto, FALSE)}
    /\ calls' = calls \ {c}
    /\ UNCHANGED <<serverVars, view, crashes, lost>>

\* post_chat_message: open in every status, saved under the lock.
Chat(r) ==
    /\ Free(r)
    /\ game.notes < MaxNotes
    /\ game' = Noted(game)
    /\ \/ /\ SaveGame(game')
          /\ Begin(Call(r, "tell", ToDto(game'), FALSE))
          /\ UNCHANGED lost
       \/ Unsaved /\ UNCHANGED calls
    /\ UNCHANGED <<clientVars, crashes>>

\* apply_move_timeout and force_resign, under the lock: neither runs the
\* engine that may now be on turn.
Retire(r) ==
    /\ Free(r)
    /\ game.status = "Active"
    /\ game' \in Moved(game, {"human", "engine"})
    /\ UNCHANGED <<clientVars, crashes>>

SaveAndTell(r) ==
    /\ SaveGame(game')
    /\ Begin(Call(r, "tell", ToDto(game'), TRUE))
    /\ UNCHANGED lost

\* expire_overdue_turn(s): announced even when its save failed.
Expire(r) ==
    /\ Retire(r)
    /\ SaveAndTell(r) \/ (Unsaved /\ Begin(Call(r, "tell", ToDto(game'), TRUE)))

\* force_resign_seat; a game it ends stands for abort_game's too.
ForceResign(r) ==
    /\ Retire(r)
    /\ SaveAndTell(r) \/ (Unsaved /\ UNCHANGED calls)

\* remove_game_for_player: saved and never announced.
RemoveForPlayer ==
    /\ game.status = "Finished"
    /\ ~game.hidden
    /\ game' = [Bumped(game) EXCEPT !.hidden = TRUE]
    /\ (SaveGame(game') /\ UNCHANGED lost) \/ Unsaved
    /\ UNCHANGED <<calls, clientVars, crashes>>

\* get_game, as the client calls it on opening a game and on reconnecting.
Load(c) ==
    /\ Cardinality(replies) < MaxReplies
    /\ \A m \in replies : m.client = c => ~m.whole
    /\ replies' = replies \cup {Reply(c, Attach(ToDto(game)), TRUE)}
    /\ behind' = [behind EXCEPT ![c] = FALSE]
    /\ UNCHANGED <<serverVars, calls, stream, linked, view, crashes, lost>>

\* A handler stops at an await: an engine or the database failed, or its
\* caller hung up.  Memory keeps what it did.
CallFails(c) ==
    /\ CanFail
    /\ ~lost
    /\ calls' = calls \ {c}
    /\ lost' = TRUE
    /\ UNCHANGED <<serverVars, clientVars, crashes>>

\* load_game.
Loaded == saved

\* The process restarts from the snapshots; every socket and call is gone.
Crash ==
    /\ crashes < MaxCrashes
    /\ crashes' = crashes + 1
    /\ game' = Loaded
    /\ calls' = {}
    /\ replies' = {}
    /\ stream' = [c \in Clients |-> << >>]
    /\ linked' = [c \in Clients |-> FALSE]
    /\ behind' = [c \in Clients |-> TRUE]
    /\ lost' = TRUE
    /\ UNCHANGED <<saved, settled, deltas, view>>

-----------------------------------------------------------------------------
(* Clients.                                                                *)

\* should_apply_update, for the game already shown.
Newer(shown, dto) == dto.version > shown.version

Shown(c, dto) == IF Newer(view[c], dto) THEN [view EXCEPT ![c] = dto] ELSE view

\* subscribe_to_game_events: nothing sent before it is replayed.
Subscribe(c) ==
    /\ ~linked[c]
    /\ linked' = [linked EXCEPT ![c] = TRUE]
    /\ UNCHANGED <<serverVars, calls, stream, view, replies, behind, crashes, lost>>

Receive(c) ==
    /\ stream[c] # << >>
    /\ view' = Shown(c, Head(stream[c]))
    /\ stream' = [stream EXCEPT ![c] = Tail(@)]
    /\ UNCHANGED <<serverVars, calls, linked, replies, behind, crashes, lost>>

\* The connection drops.
Disconnect(c) ==
    /\ linked[c]
    /\ linked' = [linked EXCEPT ![c] = FALSE]
    /\ stream' = [stream EXCEPT ![c] = << >>]
    /\ behind' = [behind EXCEPT ![c] = @ \/ stream[c] # << >>]
    /\ UNCHANGED <<serverVars, calls, view, replies, crashes, lost>>

\* A response arrives; or get_game's is lost (Tell lets the others be).
Respond(m) ==
    /\ replies' = replies \ {m}
    /\ \/ view' = Shown(m.client, m.dto) /\ UNCHANGED behind
       \/ /\ m.whole
          /\ behind' = [behind EXCEPT ![m.client] = TRUE]
          /\ UNCHANGED view
    /\ UNCHANGED <<serverVars, calls, stream, linked, crashes, lost>>

Next ==
    \/ \E r \in Requests :
          \/ Start(r)
          \/ Act(r)
          \/ Suggest(r)
          \/ Chat(r)
          \/ Expire(r)
          \/ ForceResign(r)
    \/ \E c \in calls :
          \/ EngineTurn(c)
          \/ EngineFinish(c)
          \/ EngineAnnounce(c)
          \/ FinalSave(c)
          \/ Tell(c)
          \/ CallFails(c)
    \/ RemoveForPlayer
    \/ Crash
    \/ \E c \in Clients : Load(c) \/ Subscribe(c) \/ Receive(c) \/ Disconnect(c)
    \/ \E m \in replies : Respond(m)

Spec == Init /\ [][Next]_vars

-----------------------------------------------------------------------------
(* Properties.                                                             *)

Session == [status : Statuses, turn : {"human", "engine", "nobody"}, log : Seq(Nat),
            notes : Nat, hidden : BOOLEAN, version : Nat]
Dto == [status : Statuses, log : Seq(Nat), notes : Nat, version : Nat,
        deltas : BOOLEAN]
CallRecord == [request : Requests, step : {"engines", "finish", "announce", "save", "tell"},
               dto : Dto, full : BOOLEAN, announced : BOOLEAN]

TypeOK ==
    /\ game \in Session /\ saved \in Session
    /\ settled \in Nat /\ deltas \in BOOLEAN
    /\ calls \subseteq CallRecord
    /\ stream \in [Clients -> Seq(Dto)]
    /\ linked \in [Clients -> BOOLEAN]
    /\ view \in [Clients -> Dto]
    /\ replies \subseteq [client : Clients, dto : Dto, whole : BOOLEAN]
    /\ behind \in [Clients -> BOOLEAN]
    /\ crashes \in 0 .. MaxCrashes /\ lost \in BOOLEAN

\* The snapshot is never ahead of memory nor beside it, whatever saves
\* failed, overlapped or were cut off and however often the server restarted;
\* and with no handler under way and none cut off every move is saved,
\* although the handlers and the engine loop save only at their end.
DiskIsBehind ==
    /\ IsPrefix(saved.log, game.log)
    /\ saved.version <= game.version
    /\ calls = {} /\ ~lost => saved = game

InFlight == {c.dto : c \in calls} \cup {m.dto : m \in replies}
            \cup (UNION {ToSet(stream[c]) : c \in Clients})
            \cup {view[c] : c \in Clients}

\* The rating step runs at most once per game, over every repeated save,
\* failed save and restart, and its change is only ever shown of a result the
\* database has: no restart brings the game back to life after it.
DeltasAreDurable ==
    /\ settled <= 1
    /\ \A d \in InFlight : d.deltas =>
        /\ saved.status = "Finished"
        /\ saved.log = d.log
        /\ settled = 1

\* Until a restart undoes a move, a version names one state of the game,
\* and whatever is on its way is part of its history: what the client's
\* "only a strictly greater version wins" rests on.
VersionNamesOneState ==
    crashes = 0 =>
        \A d \in InFlight :
            /\ IsPrefix(d.log, game.log)
            /\ \A e \in InFlight \cup {ToDto(game)} :
                  d.version = e.version =>
                      d.log = e.log /\ d.notes = e.notes /\ d.status = e.status

Settled(c) == calls = {} /\ stream[c] = << >> /\ replies = {}

\* A subscribed client that missed nothing while it was not shows the game,
\* chat included, once all is delivered: the events sent outside the lock in
\* any order, and the ones a handler leaves to the engine loop, are enough.
CaughtUp ==
    \A c \in Clients :
        linked[c] /\ ~behind[c] /\ Settled(c) /\ ~lost =>
            view[c].log = game.log /\ view[c].notes = game.notes

-----------------------------------------------------------------------------
(* The inductive invariant: the properties, with what they rest on.        *)

\* What is not saved, some handler has yet to save, unless one was cut off.
SomebodySaves == lost \/ saved = game \/ \E c \in calls : c.step # "tell"

\* A result that is saved, or on its way from a handler, is the game's.
EndIsKept ==
    /\ saved.status = "Finished" => game.status = "Finished" /\ saved.log = game.log
    /\ \A c \in calls :
          /\ c.step = "finish" => c.dto.status = "Finished"
          /\ c.dto.status = "Finished" => game.status = "Finished" /\ c.dto.log = game.log
RatedAtTheEnd ==
    /\ deltas => settled = 1
    /\ settled = 1 => saved.status = "Finished"

\* Before a restart, what there is to see of the game grows with its version.
Known == InFlight \cup {NoDto, ToDto(game)}
HistoryGrows ==
    /\ crashes # 0 => lost
    /\ crashes = 0 =>
          \A d, e \in Known :
             /\ d.version <= game.version
             /\ d.version <= e.version => IsPrefix(d.log, e.log) /\ d.notes <= e.notes
             /\ d.version = e.version => d.status = e.status

\* A client that missed nothing shows the game, or what shows it is on its way
\* to it, or some handler has yet to announce it.
Current(d) == d.log = game.log /\ d.notes = game.notes
Carries(c) ==
    \/ c.step \in {"engines", "save"} /\ ~c.announced
    \/ c.step \in {"finish", "announce"} /\ Current(c.dto)
    \/ c.step = "tell" /\ ~c.announced /\ Current(c.dto)
Served(c) ==
    \/ Current(view[c])
    \/ \E i \in DOMAIN stream[c] : Current(stream[c][i])
    \/ \E m \in replies : m.client = c /\ Current(m.dto)
    \/ \E k \in calls : Carries(k)
NobodyIsForgotten == lost \/ \A c \in Clients : behind[c] \/ Served(c)

IInv ==
    /\ TypeOK
    /\ DiskIsBehind /\ SomebodySaves
    /\ DeltasAreDurable /\ EndIsKept /\ RatedAtTheEnd
    /\ HistoryGrows
    /\ NobodyIsForgotten
=============================================================================
