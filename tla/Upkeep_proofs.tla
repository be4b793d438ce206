--------------------------- MODULE Upkeep_proofs ---------------------------
(* Theorems about Upkeep, for every limit and every bound.                 *)
EXTENDS Upkeep, TLAPS

-----------------------------------------------------------------------------
(* Games and ages.                                                         *)

LEMMA Times ==
    /\ TurnLimit \in Nat /\ TurnLimit > 0 /\ KeepFor \in Nat /\ KeepFor > 0
    /\ IdleWindow \in Nat /\ IdleWindow > 0 /\ Lifetime \in Nat /\ Lifetime > 0
    /\ MaxTurns \in Nat /\ MaxTurns > 0 /\ MaxGames \in Nat /\ MaxTouches \in Nat
    /\ MaxSignIns \in Nat /\ MaxCrashes \in Nat
  BY TimesAssumption

LEMMA OlderIs ==
    ASSUME NEW bound \in Nat, NEW age \in 0 .. bound + 1
    PROVE  /\ Older(age, bound) \in 0 .. bound + 1 /\ age <= Older(age, bound)
           /\ age > bound => Older(age, bound) > bound
  BY DEF Older

LEMMA OlderInStep ==
    ASSUME NEW bound \in Nat, NEW a \in 0 .. bound + 1, NEW b \in 0 .. bound + 1, a <= b
    PROVE  Older(a, bound) <= Older(b, bound)
  BY DEF Older

LEMMA NoGameIs ==
    /\ NoGame \in Game /\ NoGame.status = "none" /\ NoGame.refers = FALSE
    /\ NewGame \in Game /\ NewGame.status = "waiting" /\ NewGame.refers = TRUE
<1>1. NoGame \in Game
  BY Times DEF NoGame, Game
<1>2. NoGame.status = "none" /\ NoGame.refers = FALSE
  BY DEF NoGame
<1>3. NewGame \in Game
  BY <1>1 DEF NewGame, Game
<1>4. NewGame.status = "waiting" /\ NewGame.refers = TRUE
  BY <1>1 DEF NewGame, Game
<1> QED
  BY <1>1, <1>2, <1>3, <1>4

\* What a handler makes of a game it keeps: the seats refer to whom they did, a
\* game that is over stays over, and a reminder stays noted.
Follows(g, h) ==
    /\ h \in Game /\ h.refers = g.refers
    /\ g.status \in Ends => h.status \in Ends
    /\ g.status # "none" => h.status # "none"
    /\ \A t \in 0 .. MaxTurns : Past(g, t) => Past(h, t)

LEMMA FollowsItself == ASSUME NEW g \in Game PROVE Follows(g, g)
  BY DEF Follows

LEMMA OlderGameIs ==
    ASSUME NEW g \in Game
    PROVE  /\ Follows(g, OlderGame(g)) /\ OlderGame(g).status = g.status
           /\ g.status # "active" => OlderGame(g) = g
<1>1. CASE g.status = "active"
  <2>1. PICK n \in 0 .. TurnLimit : n = Older(g.age, TurnLimit - 1)
    BY Times DEF Older, Game
  <2>2. OlderGame(g) = [g EXCEPT !.age = n]
    BY <1>1, <2>1 DEF OlderGame
  <2>3. /\ OlderGame(g) \in Game /\ OlderGame(g).status = g.status
        /\ OlderGame(g).refers = g.refers /\ OlderGame(g).turn = g.turn
        /\ OlderGame(g).reminded = g.reminded
    BY <2>2 DEF Game
  <2> QED
    BY <1>1, <2>3 DEF Follows, Past
<1>2. CASE g.status # "active"
  BY <1>2, FollowsItself DEF OlderGame
<1> QED
  BY <1>1, <1>2

LEMMA OverIs ==
    ASSUME NEW g \in Game, NEW end \in Ends
    PROVE  Follows(g, Over(g, end)) /\ Over(g, end).status = end
<1>1. NoGame \in Game
  BY NoGameIs
<1>2. Over(g, end) \in Game
  BY <1>1 DEF Over, Game
<1>3. Over(g, end).status = end /\ Over(g, end).refers = g.refers
  BY <1>1 DEF Over, Game
<1> QED
  BY <1>2, <1>3 DEF Follows, Past, Ends

LEMMA TouchedIs ==
    ASSUME NEW g \in Game, g.touches < MaxTouches
    PROVE  Follows(g, [g EXCEPT !.touches = @ + 1])
<1>1. PICK n \in 0 .. MaxTouches : n = g.touches + 1
  BY Times DEF Game
<1>2. PICK h : h = [g EXCEPT !.touches = n]
  OBVIOUS
<1>3. h \in Game /\ h.status = g.status /\ h.refers = g.refers /\ h.turn = g.turn /\ h.reminded = g.reminded
  BY <1>2 DEF Game
<1>4. h = [g EXCEPT !.touches = @ + 1]
  BY <1>1, <1>2
<1> QED
  BY <1>3, <1>4 DEF Follows, Past

\* The next turn, or the same one with its reminder noted.
LEMMA MovedIs ==
    ASSUME NEW g \in Game, g.status = "active", g.turn < MaxTurns
    PROVE  Follows(g, [g EXCEPT !.turn = @ + 1, !.age = 0])
<1>1. PICK n \in 0 .. MaxTurns : n = g.turn + 1
  BY Times DEF Game
<1>0. PICK z \in 0 .. TurnLimit : z = 0
  BY Times
<1>2. PICK h : h = [g EXCEPT !.turn = n, !.age = z]
  OBVIOUS
<1>3. h \in Game /\ h.status = g.status /\ h.refers = g.refers /\ h.turn = n /\ h.reminded = g.reminded
  <2>1. h \in Game
    BY <1>2 DEF Game
  <2> QED
    BY <1>2, <2>1 DEF Game
<1>4. h = [g EXCEPT !.turn = @ + 1, !.age = 0]
  BY <1>0, <1>1, <1>2
<1>5. g.turn \in Nat /\ n > g.turn
  BY <1>1 DEF Game
<1>6. \A t \in 0 .. MaxTurns : Past(g, t) => Past(h, t)
  BY <1>3, <1>5 DEF Past
<1> QED
  BY <1>3, <1>4, <1>6 DEF Follows

LEMMA NotedIs ==
    ASSUME NEW g \in Game, g.status = "active"
    PROVE  Follows(g, NotedReminder(g)) /\ Past(NotedReminder(g), g.turn)
<1>1. PICK h : h = [g EXCEPT !.reminded = g.turn]
  OBVIOUS
<1>2. h \in Game
  <2>1. g.turn \in -1 .. MaxTurns
    BY Times DEF Game
  <2> QED
    BY <1>1, <2>1 DEF Game
<1>3. h.status = g.status /\ h.refers = g.refers /\ h.turn = g.turn /\ h.reminded = g.turn
  BY <1>1 DEF Game
<1>4. g.turn \in Nat
  BY DEF Game
<1> QED
  BY <1>1, <1>2, <1>3, <1>4 DEF Follows, Past, NotedReminder

LEMMA StartedIs ==
    ASSUME NEW g \in Game, g.status = "waiting"
    PROVE  LET h == [g EXCEPT !.status = "active", !.turn = 1, !.age = 0]
           IN  h \in Game /\ h.refers = g.refers /\ h.status = "active"
<1>1. 1 \in 0 .. MaxTurns /\ 0 \in 0 .. TurnLimit
  BY Times
<1> QED
  BY <1>1 DEF Game

LEMMA ReleasedIs ==
    ASSUME NEW g \in Game
    PROVE  LET h == Released(g)
           IN  /\ h \in Game /\ h.refers = FALSE /\ h.status = g.status
               /\ \A t : Past(g, t) => Past(h, t)
<1>1. PICK h : h = [g EXCEPT !.refers = FALSE]
  OBVIOUS
<1>2. h \in Game
  BY <1>1 DEF Game
<1>3. h.status = g.status /\ h.refers = FALSE /\ h.turn = g.turn /\ h.reminded = g.reminded
  BY <1>1 DEF Game
<1> QED
  BY <1>1, <1>2, <1>3 DEF Released, Past


-----------------------------------------------------------------------------
(* The game's steps.                                                       *)

\* A state of the clocks, of the account and of the counters.
Clocks == endedAge \in 0 .. KeepFor + 1 /\ overAge \in 0 .. KeepFor + 1
Sessions == [live : BOOLEAN, age : 0 .. Lifetime + 1,
             idle : 0 .. IdleWindow + 1, unused : 0 .. IdleWindow + 1]

LEMMA Typed ==
    ASSUME TypeOK
    PROVE  /\ game \in Game /\ stored \in Game /\ Clocks /\ session \in Sessions
           /\ unsaved \in BOOLEAN /\ stale \in BOOLEAN /\ dropping \in BOOLEAN
           /\ account \in BOOLEAN /\ login \in BOOLEAN /\ overtaken \in BOOLEAN
           /\ made \in 0 .. MaxGames /\ creating \in {"no", "checked", "saved"}
           /\ mails \in [0 .. MaxTurns -> 0 .. 2] /\ signIns \in 0 .. MaxSignIns
           /\ deleting \in {"no", "games", "session", "release"}
           /\ crashes \in 0 .. MaxCrashes
  BY DEF TypeOK, Clocks, Sessions

LEMMA TypedNext ==
    ASSUME game' \in Game, stored' \in Game, Clocks', session' \in Sessions,
           unsaved' \in BOOLEAN, stale' \in BOOLEAN, dropping' \in BOOLEAN,
           account' \in BOOLEAN, login' \in BOOLEAN, overtaken' \in BOOLEAN,
           made' \in 0 .. MaxGames, creating' \in {"no", "checked", "saved"},
           mails' \in [0 .. MaxTurns -> 0 .. 2], signIns' \in 0 .. MaxSignIns,
           deleting' \in {"no", "games", "session", "release"},
           crashes' \in 0 .. MaxCrashes
    PROVE  TypeOK'
  BY DEF TypeOK, Clocks, Sessions

\* What a handler makes of a game in memory, saved at once or later.
LEMMA GameSteps ==
    ASSUME IInv, NEW g \in Game, InMemory, g.status # "none",
           Changed(g) \/ ChangedUnsaved(g),
           game.status \in Ends => g.status \in Ends,
           UNCHANGED <<made, creating, stale, dropping, account, session, signIns, login, crashes>>,
           deleting' \in {"no", "games", "session", "release"},
           mails' \in [0 .. MaxTurns -> 0 .. 2],
           \A t \in 0 .. MaxTurns :
              mails'[t] = 0 \/ (mails'[t] = 1 /\ Past(g, t) /\ (Past(stored, t) \/ Changed(g)))
    PROVE  /\ TypeOK' /\ Creating' /\ Reminded' /\ Ending' /\ SeenIsOld'
           /\ game' = g /\ (Changed(g) => stored' = g) /\ (ChangedUnsaved(g) => stored' = stored)
           /\ overtaken => overtaken'
<1>1. TypeOK /\ Creating /\ Reminded /\ Ending /\ SeenIsOld
  BY DEF IInv
<1>2. creating = "no"
  BY <1>1, NoGameIs, Typed DEF Creating, InMemory
<1>3. /\ game' = g /\ (Changed(g) => stored' = g) /\ (ChangedUnsaved(g) => stored' = stored)
      /\ overtaken => overtaken'
  <2>1. game' = g /\ (Changed(g) => stored' = g) /\ (ChangedUnsaved(g) => stored' = stored)
    BY DEF Changed, ChangedUnsaved, Save
  <2>2. overtaken' = overtaken \/ overtaken' = (overtaken \/ dropping)
    BY DEF Changed, ChangedUnsaved, Save
  <2>3. overtaken => overtaken'
    BY <2>2, Zenon
  <2> QED
    BY <2>1, <2>3
<1>4. TypeOK'
  <2>1. stored' \in Game
    BY <1>1, <1>3, Typed
  <2>2. Clocks'
    <3>1. overAge' = overAge \/ overAge' = 0
      BY DEF Changed, ChangedUnsaved
    <3>2. endedAge' = endedAge \/ endedAge' = 0
      BY DEF Changed, ChangedUnsaved, Save, EndedBy
    <3> QED
      BY <1>1, <3>1, <3>2, Typed, Times DEF Clocks
  <2>3. unsaved' \in BOOLEAN /\ overtaken' \in BOOLEAN
    <3>1. unsaved' = unsaved \/ unsaved' = TRUE
      BY DEF Changed, ChangedUnsaved
    <3>2. overtaken' = overtaken \/ overtaken' = (overtaken \/ dropping)
      BY DEF Changed, ChangedUnsaved, Save
    <3>3. (overtaken \/ dropping) \in BOOLEAN
      OBVIOUS
    <3> QED
      BY <1>1, <3>1, <3>2, <3>3, Typed
  <2> QED
    BY <1>1, <1>3, <2>1, <2>2, <2>3, Typed, TypedNext
<1>5. Creating'
  BY <1>2 DEF Creating
<1>6. Reminded'
  <2>1. DOMAIN mails' = 0 .. MaxTurns
    OBVIOUS
  <2>2. ASSUME NEW t \in 0 .. MaxTurns
        PROVE  mails'[t] = 0 \/ (mails'[t] = 1 /\ Past(game', t) /\ Past(stored', t))
    <3>1. CASE Changed(g)
      BY <1>3, <3>1
    <3>2. CASE ~Changed(g)
      BY <1>3, <3>2
    <3> QED
      BY <3>1, <3>2
  <2> QED
    BY <2>1, <2>2 DEF Reminded
<1>7. Ending'
  <2>1. SUFFICES ASSUME ~overtaken'
                 PROVE  /\ stored'.status \in Ends => game'.status \in Ends /\ endedAge' <= overAge'
                        /\ stale' /\ InMemory' => game'.status \in Ends /\ overAge' > KeepFor
                        /\ dropping' => stored' = NoGame /\ creating' = "no"
    BY DEF Ending
  <2>2. /\ stored.status \in Ends => game.status \in Ends /\ endedAge <= overAge
        /\ stale => game.status \in Ends /\ overAge > KeepFor
        /\ dropping => stored = NoGame
    BY <1>1, <1>3, <2>1 DEF Ending
  <2>3. game.status \in Ends => overAge' = overAge
    BY DEF Changed, ChangedUnsaved
  <2>4. CASE Changed(g)
    <3>1. stored' = g /\ game' = g /\ ~dropping /\ (g.status \in Ends => endedAge' = 0)
      BY <2>1, <2>4 DEF Changed, Save, EndedBy
    <3>2. overAge' \in Nat
      BY <1>4, Typed, Times DEF TypeOK
    <3> QED
      BY <2>2, <2>3, <3>1, <3>2
  <2>5. CASE ChangedUnsaved(g)
    <3>1. stored' = stored /\ game' = g /\ endedAge' = endedAge
      BY <2>5 DEF ChangedUnsaved
    <3> QED
      BY <1>2, <2>2, <2>3, <3>1
  <2> QED
    BY <2>4, <2>5
<1>8. SeenIsOld'
  BY <1>1 DEF SeenIsOld
<1> QED
  BY <1>3, <1>4, <1>5, <1>6, <1>7, <1>8


LEMMA ReferringStays ==
    ASSUME IInv, NEW g \in Game, Changed(g) \/ ChangedUnsaved(g), g.refers = game.refers,
           g.status # "none",
           UNCHANGED <<creating, account, session, login, deleting>>
    PROVE  Referring'
<1>1. game' = g /\ (stored' = g \/ stored' = stored) /\ (overtaken => overtaken')
  <2>1. game' = g /\ (stored' = g \/ stored' = stored)
    BY DEF Changed, ChangedUnsaved, Save
  <2>2. overtaken' = overtaken \/ overtaken' = (overtaken \/ dropping)
    BY DEF Changed, ChangedUnsaved, Save
  <2>3. overtaken => overtaken'
    BY <2>2, Zenon
  <2> QED
    BY <2>1, <2>3
<1> QED
  BY <1>1 DEF IInv, Referring

\* A handler that keeps the game, and no mail is sent.
LEMMA KeptSteps ==
    ASSUME IInv, NEW g, Follows(game, g), InMemory, Changed(g) \/ ChangedUnsaved(g),
           UNCHANGED calmVars
    PROVE  IInv'
<1>1. TypeOK /\ Reminded
  BY DEF IInv
<1>2. UNCHANGED <<made, creating, stale, dropping, mails, account, session, signIns, login,
                  deleting, crashes>>
  BY DEF calmVars, accountVars
<1>3. /\ g \in Game /\ g.status # "none" /\ g.refers = game.refers
      /\ game.status \in Ends => g.status \in Ends
  BY DEF Follows, InMemory
<1>4. \A t \in 0 .. MaxTurns :
         mails'[t] = 0 \/ (mails'[t] = 1 /\ Past(g, t) /\ (Past(stored, t) \/ Changed(g)))
  <2>1. DOMAIN mails = 0 .. MaxTurns
    BY <1>1, Typed
  <2> QED
    BY <1>1, <1>2, <2>1 DEF Reminded, Follows
<1>5. /\ mails' \in [0 .. MaxTurns -> 0 .. 2]
      /\ deleting' \in {"no", "games", "session", "release"}
  BY <1>1, <1>2, Typed
<1>6. TypeOK' /\ Creating' /\ Reminded' /\ Ending' /\ SeenIsOld'
  BY <1>2, <1>3, <1>4, <1>5, GameSteps
<1>7. Referring'
  BY <1>2, <1>3, ReferringStays
<1> QED
  BY <1>6, <1>7 DEF IInv

LEMMA MoveKeeps == ASSUME IInv, Move PROVE IInv'
<1>1. game \in Game /\ game.status = "active" /\ UNCHANGED calmVars /\ InMemory
  BY Typed DEF IInv, Move, InMemory
<1>2. CASE /\ game.turn < MaxTurns
           /\ ChangedUnsaved([game EXCEPT !.turn = @ + 1, !.age = 0])
  BY <1>1, <1>2, MovedIs, KeptSteps
<1>3. CASE ChangedUnsaved(Over(game, "finished"))
  <2>1. Follows(game, Over(game, "finished"))
    BY <1>1, OverIs DEF Ends
  <2> QED
    BY <1>1, <1>3, <2>1, KeptSteps
<1> QED
  BY <1>2, <1>3 DEF Move

LEMMA TouchKeeps == ASSUME IInv, Touch PROVE IInv'
<1>1. game \in Game /\ UNCHANGED calmVars /\ InMemory
  BY Typed DEF IInv, Touch
<1>2. CASE game.touches < MaxTouches /\ Changed([game EXCEPT !.touches = @ + 1])
  BY <1>1, <1>2, TouchedIs, KeptSteps
<1>3. CASE Changed(game)
  BY <1>1, <1>3, FollowsItself, KeptSteps
<1> QED
  BY <1>2, <1>3 DEF Touch

LEMMA StopKeeps == ASSUME IInv, Stop \/ ExpireTurns PROVE IInv'
<1>1. game \in Game /\ UNCHANGED calmVars /\ InMemory
  BY Typed DEF IInv, Stop, ExpireTurns, Overdue, InMemory
<1>2. PICK end \in Ends : Changed(Over(game, end))
  BY DEF Stop, ExpireTurns, Ends
<1>3. Follows(game, Over(game, end))
  BY <1>1, OverIs
<1> QED
  BY <1>1, <1>2, <1>3, KeptSteps

LEMMA StartKeeps == ASSUME IInv, Start PROVE IInv'
<1>1. TypeOK /\ Reminded /\ game \in Game /\ game.status = "waiting"
  BY Typed DEF IInv, Start
<1>2. UNCHANGED <<made, creating, stale, dropping, mails, account, session, signIns, login,
                  deleting, crashes>>
  BY DEF Start, calmVars, accountVars
<1>3. PICK g \in Game : /\ ChangedUnsaved(g) /\ g.refers = game.refers
                        /\ g.status = "active"
  BY <1>1, StartedIs DEF Start
<1>4. \A t \in 0 .. MaxTurns : mails'[t] = 0
  <2>1. DOMAIN mails = 0 .. MaxTurns /\ \A t : ~Past(game, t)
    BY <1>1, Typed DEF Past
  <2> QED
    BY <1>1, <1>2, <2>1 DEF Reminded
<1>5. /\ mails' \in [0 .. MaxTurns -> 0 .. 2]
      /\ deleting' \in {"no", "games", "session", "release"}
  BY <1>1, <1>2, Typed
<1>6. InMemory /\ game.status \notin Ends
  BY <1>1 DEF InMemory, Ends
<1>7. TypeOK' /\ Creating' /\ Reminded' /\ Ending' /\ SeenIsOld'
  BY <1>2, <1>3, <1>4, <1>5, <1>6, GameSteps
<1>8. Referring'
  BY <1>2, <1>3, ReferringStays
<1> QED
  BY <1>7, <1>8 DEF IInv

LEMMA RemindKeeps == ASSUME IInv, Remind PROVE IInv'
<1>1. TypeOK /\ Reminded /\ game \in Game /\ game.status = "active" /\ game.reminded # game.turn
  BY Typed DEF IInv, Remind
<1>2. UNCHANGED <<made, creating, stale, dropping, account, session, signIns, login,
                  deleting, crashes>>
  BY DEF Remind, accountVars
<1>3. PICK g \in Game : g = NotedReminder(game) /\ Follows(game, g) /\ Past(g, game.turn)
  BY <1>1, NotedIs DEF Follows
<1>4. Changed(g) /\ mails' = [mails EXCEPT ![game.turn] = @ + 1]
  BY <1>3 DEF Remind
<1>5. mails[game.turn] = 0 /\ game.turn \in 0 .. MaxTurns
  <2>1. game.turn \in 0 .. MaxTurns /\ DOMAIN mails = 0 .. MaxTurns
    BY <1>1, Typed DEF Game
  <2>2. ~Past(game, game.turn)
    BY <1>1, <2>1, Times DEF Past
  <2> QED
    BY <1>1, <2>1, <2>2 DEF Reminded
<1>6. mails \in [0 .. MaxTurns -> 0 .. 2]
  BY <1>1, Typed
<1>7. mails' = [mails EXCEPT ![game.turn] = 1]
  BY <1>4, <1>5
<1>8. mails' \in [0 .. MaxTurns -> 0 .. 2] /\ mails'[game.turn] = 1
      /\ \A t \in 0 .. MaxTurns : t # game.turn => mails'[t] = mails[t]
  BY <1>5, <1>6, <1>7
<1>9. \A t \in 0 .. MaxTurns :
         mails'[t] = 0 \/ (mails'[t] = 1 /\ Past(g, t) /\ (Past(stored, t) \/ Changed(g)))
  <2> SUFFICES ASSUME NEW t \in 0 .. MaxTurns
               PROVE  mails'[t] = 0 \/ (mails'[t] = 1 /\ Past(g, t) /\ Changed(g))
    OBVIOUS
  <2>1. CASE t = game.turn
    BY <1>3, <1>4, <1>8, <2>1
  <2>2. CASE t # game.turn
    BY <1>1, <1>3, <1>4, <1>6, <1>8, <2>2 DEF Reminded, Follows
  <2> QED
    BY <2>1, <2>2
<1>10. InMemory /\ g.status # "none" /\ g.refers = game.refers
       /\ (game.status \in Ends => g.status \in Ends)
  BY <1>1, <1>3 DEF InMemory, Follows
<1>11. deleting' \in {"no", "games", "session", "release"}
  BY <1>1, <1>2, Typed
<1>12. TypeOK' /\ Creating' /\ Reminded' /\ Ending' /\ SeenIsOld'
  BY <1>2, <1>4, <1>8, <1>9, <1>10, <1>11, GameSteps
<1>13. Referring'
  BY <1>2, <1>4, <1>10, ReferringStays
<1> QED
  BY <1>12, <1>13 DEF IInv

LEMMA ReleaseKeeps == ASSUME IInv, DeleteRelease PROVE IInv'
<1>1. TypeOK /\ Creating /\ Reminded /\ Ending /\ Referring /\ SeenIsOld /\ game \in Game
  BY Typed DEF IInv
<1>2. /\ UNCHANGED <<made, creating, stale, dropping, mails, account, session, signIns, login,
                     crashes>>
      /\ deleting = "release" /\ deleting' = "no"
  BY DEF DeleteRelease
<1>3. CASE game.refers
  <2>1. PICK g \in Game : /\ g = Released(game) /\ g.refers = FALSE /\ g.status = game.status
                          /\ \A t : Past(game, t) => Past(g, t)
    BY <1>1, ReleasedIs
  <2>2. Changed(g) /\ InMemory /\ g.status # "none"
    BY <1>1, <1>3, <2>1, NoGameIs DEF DeleteRelease, Referring, InMemory
  <2>3. \A t \in 0 .. MaxTurns :
           mails'[t] = 0 \/ (mails'[t] = 1 /\ Past(g, t) /\ (Past(stored, t) \/ Changed(g)))
    <3>1. DOMAIN mails = 0 .. MaxTurns
      BY <1>1, Typed
    <3> QED
      BY <1>1, <1>2, <2>1, <3>1 DEF Reminded
  <2>4. /\ mails' \in [0 .. MaxTurns -> 0 .. 2]
        /\ deleting' \in {"no", "games", "session", "release"}
    BY <1>1, <1>2, Typed
  <2>5. /\ TypeOK' /\ Creating' /\ Reminded' /\ Ending' /\ SeenIsOld'
        /\ game' = g /\ stored' = g /\ (overtaken => overtaken')
    BY <1>2, <2>1, <2>2, <2>3, <2>4, GameSteps
  <2>6. Referring'
    BY <1>1, <1>2, <2>1, <2>2, <2>5 DEF Referring
  <2> QED
    BY <2>5, <2>6 DEF IInv
<1>4. CASE ~game.refers
  <2>1. UNCHANGED <<game, stored, endedAge, overAge, unsaved, overtaken>>
    BY <1>4 DEF DeleteRelease
  <2>2. TypeOK'
    BY <1>1, <1>2, <2>1 DEF TypeOK
  <2>3. Creating' /\ Reminded' /\ Ending' /\ SeenIsOld'
    BY <1>1, <1>2, <2>1 DEF Creating, Reminded, Ending, SeenIsOld, InMemory
  <2>4. Referring'
    BY <1>1, <1>2, <1>4, <2>1 DEF Referring
  <2> QED
    BY <2>2, <2>3, <2>4 DEF IInv
<1> QED
  BY <1>3, <1>4


-----------------------------------------------------------------------------
(* Time, saves, the making of a game and its deletion.                     *)

LEMMA TickKeeps == ASSUME IInv, Tick PROVE IInv'
<1>1. /\ TypeOK /\ Creating /\ Reminded /\ Ending /\ Referring /\ SeenIsOld
      /\ game \in Game /\ stored \in Game /\ Clocks /\ session \in Sessions
  BY Typed DEF IInv
<1>2. /\ UNCHANGED <<unsaved, made, creating, stale, dropping, mails, account, signIns, login,
                     deleting, overtaken, crashes>>
      /\ game' = OlderGame(game) /\ stored' = OlderGame(stored)
  BY DEF Tick
<1>3. /\ Follows(game, game') /\ game'.status = game.status
      /\ game.status # "active" => game' = game
      /\ Follows(stored, stored') /\ stored'.status = stored.status
      /\ stored.status # "active" => stored' = stored
  BY <1>1, <1>2, OlderGameIs
<1>4. /\ Clocks' /\ (stored.status \in Ends /\ game.status \in Ends /\ endedAge <= overAge => endedAge' <= overAge')
      /\ game.status \in Ends /\ overAge > KeepFor => overAge' > KeepFor
  <2>1. /\ Older(endedAge, KeepFor) \in 0 .. KeepFor + 1 /\ Older(overAge, KeepFor) \in 0 .. KeepFor + 1
        /\ overAge > KeepFor => Older(overAge, KeepFor) > KeepFor
    BY <1>1, Times, OlderIs DEF Clocks
  <2>2. endedAge <= overAge => Older(endedAge, KeepFor) <= Older(overAge, KeepFor)
    BY <1>1, Times, OlderInStep DEF Clocks
  <2>3. 0 \in 0 .. KeepFor + 1
    BY Times
  <2>4. /\ endedAge' = IF stored.status \in Ends THEN Older(endedAge, KeepFor) ELSE 0
        /\ overAge' = IF game.status \in Ends THEN Older(overAge, KeepFor) ELSE 0
    BY DEF Tick
  <2> QED
    BY <2>1, <2>2, <2>3, <2>4 DEF Clocks
<1>5. session' \in Sessions /\ session'.live = session.live /\ SeenIsOld'
  <2>1. CASE session.live
    <3>1. /\ session.age \in 0 .. Lifetime + 1 /\ session.idle \in 0 .. IdleWindow + 1
          /\ session.unused \in 0 .. IdleWindow + 1 /\ session.unused <= session.idle
      BY <1>1, <2>1 DEF Sessions, SeenIsOld
    <3>2. PICK age \in 0 .. Lifetime + 1 : age = Older(session.age, Lifetime)
      BY <3>1, Times, OlderIs
    <3>3. PICK idle \in 0 .. IdleWindow + 1 : idle = Older(session.idle, IdleWindow)
      BY <3>1, Times, OlderIs
    <3>4. PICK unused \in 0 .. IdleWindow + 1 : unused = Older(session.unused, IdleWindow)
      BY <3>1, Times, OlderIs
    <3>5. unused <= idle
      BY <3>1, <3>3, <3>4, Times, OlderInStep
    <3>6. session' = [session EXCEPT !.age = age, !.idle = idle, !.unused = unused]
      BY <2>1, <3>2, <3>3, <3>4 DEF Tick
    <3>7. /\ session' \in Sessions /\ session'.live = session.live
          /\ session'.idle = idle /\ session'.unused = unused
      BY <1>1, <3>6 DEF Sessions
    <3> QED
      BY <3>5, <3>7 DEF SeenIsOld
  <2>2. CASE ~session.live
    BY <1>1, <2>2 DEF Tick, SeenIsOld
  <2> QED
    BY <2>1, <2>2
<1>6. TypeOK'
  BY <1>1, <1>2, <1>3, <1>4, <1>5, Typed, TypedNext DEF Follows
<1>7. Creating'
  <2>1. creating # "no" => game' = game /\ stored' = stored
    BY <1>1, <1>3, NoGameIs DEF Creating
  <2> QED
    BY <1>1, <1>2, <2>1 DEF Creating
<1>8. Reminded'
  <2>1. DOMAIN mails = 0 .. MaxTurns
    BY <1>1, Typed
  <2> QED
    BY <1>1, <1>2, <1>3, <2>1 DEF Reminded, Follows
<1>9. Ending'
  <2>1. SUFFICES ASSUME ~overtaken
                 PROVE  /\ stored'.status \in Ends => game'.status \in Ends /\ endedAge' <= overAge'
                        /\ stale' /\ InMemory' => game'.status \in Ends /\ overAge' > KeepFor
                        /\ dropping' => stored' = NoGame /\ creating' = "no"
    BY <1>2 DEF Ending
  <2>2. /\ stored.status \in Ends => game.status \in Ends /\ endedAge <= overAge
        /\ stale /\ InMemory => game.status \in Ends /\ overAge > KeepFor
        /\ dropping => stored = NoGame /\ creating = "no"
    BY <1>1, <2>1 DEF Ending
  <2> QED
    BY <1>2, <1>3, <1>4, <2>2, NoGameIs DEF InMemory
<1>10. Referring'
  BY <1>1, <1>2, <1>3, <1>5 DEF Referring, Follows
<1> QED
  BY <1>5, <1>6, <1>7, <1>8, <1>9, <1>10 DEF IInv

LEMMA FinalSaveKeeps == ASSUME IInv, FinalSave PROVE IInv'
<1>1. /\ TypeOK /\ Creating /\ Reminded /\ Ending /\ Referring /\ SeenIsOld
      /\ game \in Game /\ stored \in Game
  BY Typed DEF IInv
<1>2. /\ UNCHANGED <<game, overAge, made, creating, stale, dropping, mails, account, session,
                     signIns, login, deleting, crashes>>
      /\ unsaved /\ unsaved' = FALSE
  BY DEF FinalSave, accountVars
<1>3. creating = "no"
  BY <1>1, <1>2 DEF Creating
<1>4. CASE InMemory
  <2>1. /\ stored' = game /\ endedAge' = (IF game.status \in Ends THEN 0 ELSE endedAge)
        /\ overtaken' = (overtaken \/ dropping)
    BY <1>4 DEF FinalSave, Save, EndedBy
  <2>2. overtaken' \in BOOLEAN /\ (overtaken => overtaken') /\ (dropping => overtaken')
    BY <2>1, Zenon
  <2>3. TypeOK'
    <3>1. Clocks /\ 0 \in 0 .. KeepFor + 1
      BY <1>1, Typed, Times
    <3>2. endedAge' = 0 \/ endedAge' = endedAge
      BY <2>1
    <3>3. Clocks' /\ unsaved' \in BOOLEAN
      BY <1>2, <3>1, <3>2 DEF Clocks
    <3> QED
      BY <1>1, <1>2, <2>1, <2>2, <3>3, Typed, TypedNext
  <2>4. Creating' /\ SeenIsOld' /\ Reminded'
    BY <1>1, <1>2, <1>3, <2>1 DEF Creating, SeenIsOld, Reminded
  <2>5. Ending'
    <3>1. overAge \in Nat
      BY <1>1, Typed, Times DEF Clocks
    <3> QED
      BY <1>1, <1>2, <1>3, <2>1, <2>2, <3>1 DEF Ending, InMemory
  <2>6. Referring'
    BY <1>1, <1>2, <2>1, <2>2 DEF Referring
  <2> QED
    BY <2>3, <2>4, <2>5, <2>6 DEF IInv
<1>5. CASE ~InMemory
  <2>1. UNCHANGED <<stored, endedAge, overtaken>>
    BY <1>5 DEF FinalSave
  <2>2. TypeOK'
    BY <1>1, <1>2, <2>1, Typed, TypedNext DEF Clocks
  <2>3. Creating' /\ SeenIsOld' /\ Reminded'
    BY <1>1, <1>2, <1>3, <2>1 DEF Creating, SeenIsOld, Reminded
  <2>4. Ending' /\ Referring'
    BY <1>1, <1>2, <2>1 DEF Ending, Referring, InMemory
  <2> QED
    BY <2>2, <2>3, <2>4 DEF IInv
<1> QED
  BY <1>4, <1>5

LEMMA CreateKeeps == ASSUME IInv, CreateCheck \/ CreateSave \/ CreateInsert PROVE IInv'
<1>1. /\ TypeOK /\ Creating /\ Reminded /\ Ending /\ Referring /\ SeenIsOld
      /\ game \in Game /\ stored \in Game
  BY Typed DEF IInv
<1>2. UNCHANGED <<unsaved, endedAge, overAge, stale, dropping, account, session, signIns,
                  login, deleting, overtaken, crashes>>
  BY DEF CreateCheck, CreateSave, CreateInsert, accountVars
<1>3. DOMAIN mails = 0 .. MaxTurns
  BY <1>1, Typed
<1>4. CASE CreateCheck
  <2>1. /\ UNCHANGED <<game, stored>> /\ made < MaxGames /\ made' = made + 1
        /\ creating = "no" /\ creating' = "checked" /\ stored = NoGame
        /\ game.status = "none" /\ ~unsaved /\ ~stale /\ ~dropping
        /\ mails' = [t \in 0 .. MaxTurns |-> 0]
    BY <1>4 DEF CreateCheck, InMemory
  <2>2. game = NoGame
    BY <1>1, <2>1 DEF Referring
  <2>3. mails' \in [0 .. MaxTurns -> 0 .. 2] /\ \A t \in 0 .. MaxTurns : mails'[t] = 0
    BY <2>1
  <2>4. made' \in 0 .. MaxGames
    BY <1>1, <2>1, Typed, Times
  <2>5. TypeOK'
    BY <1>1, <1>2, <2>1, <2>3, <2>4, Typed, TypedNext DEF Clocks
  <2>6. DOMAIN mails' = 0 .. MaxTurns
    BY <2>3
  <2>7. Creating' /\ SeenIsOld' /\ Reminded'
    BY <1>1, <1>2, <2>1, <2>2, <2>3, <2>6 DEF Creating, SeenIsOld, Reminded
  <2>8. Ending'
    BY <1>1, <1>2, <2>1, <2>2, NoGameIs DEF Ending, Ends, InMemory
  <2>9. ~account /\ ~overtaken => FALSE
    <3>1. CASE account
      BY <3>1
    <3>2. CASE Accepted(session)
      BY <1>1, <3>2 DEF Accepted, Referring
    <3> QED
      BY <1>4, <3>1, <3>2 DEF CreateCheck
  <2>10. Referring'
    BY <1>1, <1>2, <2>1, <2>9 DEF Referring
  <2> QED
    BY <2>5, <2>7, <2>8, <2>10 DEF IInv
<1>5. CASE CreateSave
  <2>1. /\ UNCHANGED <<game, made, mails>> /\ creating = "checked" /\ creating' = "saved"
        /\ stored' = NewGame
    BY <1>5 DEF CreateSave
  <2>2. game = NoGame /\ ~stale /\ ~unsaved /\ \A t \in 0 .. MaxTurns : mails[t] = 0
    BY <1>1, <1>3, <2>1 DEF Creating
  <2>3. TypeOK'
    BY <1>1, <1>2, <2>1, NoGameIs, Typed, TypedNext DEF Clocks
  <2>4. Creating' /\ SeenIsOld' /\ Reminded'
    BY <1>1, <1>2, <1>3, <2>1, <2>2 DEF Creating, SeenIsOld, Reminded
  <2>5. Ending'
    BY <1>1, <1>2, <2>1, <2>2, NoGameIs DEF Ending, Ends
  <2>6. Referring'
    BY <1>1, <1>2, <2>1, <2>2, NoGameIs DEF Referring
  <2> QED
    BY <2>3, <2>4, <2>5, <2>6 DEF IInv
<1>6. CASE CreateInsert
  <2>1. /\ UNCHANGED <<stored, made, mails>> /\ creating = "saved" /\ creating' = "no"
        /\ game' = NewGame
    BY <1>6 DEF CreateInsert
  <2>2. ~stale /\ ~unsaved /\ stored \in {NewGame, NoGame} /\ \A t \in 0 .. MaxTurns : mails[t] = 0
    BY <1>1, <1>3, <2>1 DEF Creating
  <2>3. TypeOK'
    BY <1>1, <1>2, <2>1, NoGameIs, Typed, TypedNext DEF Clocks
  <2>4. Creating' /\ SeenIsOld' /\ Reminded'
    BY <1>1, <1>2, <1>3, <2>1, <2>2 DEF Creating, SeenIsOld, Reminded
  <2>5. Ending'
    BY <1>1, <1>2, <2>1, <2>2, NoGameIs DEF Ending, Ends, InMemory
  <2>6. Referring'
    BY <1>1, <1>2, <2>1, <2>2, NoGameIs DEF Referring
  <2> QED
    BY <2>3, <2>4, <2>5, <2>6 DEF IInv
<1> QED
  BY <1>4, <1>5, <1>6


\* The listing of a finished game, and its deletion by the sweep or by an
\* administrator.
LEMMA DeletionKeeps == ASSUME IInv, ListStale \/ DeleteStale \/ DropRow \/ DropSession PROVE IInv'
<1>1. /\ TypeOK /\ Creating /\ Reminded /\ Ending /\ Referring /\ SeenIsOld
      /\ game \in Game /\ stored \in Game /\ overtaken \in BOOLEAN
  BY Typed DEF IInv
<1>2. UNCHANGED <<unsaved, made, creating, mails, account, session, signIns, login, deleting,
                  crashes>>
  BY DEF ListStale, DeleteStale, DropRow, DropSession, accountVars
<1>3. DOMAIN mails = 0 .. MaxTurns
  BY <1>1, Typed
<1>4. 0 \in 0 .. KeepFor + 1
  BY Times
<1>5. CASE ListStale
  <2>1. /\ UNCHANGED <<game, stored, endedAge, overAge, dropping, overtaken>>
        /\ stored.status \in Ends /\ endedAge > KeepFor /\ stale' = TRUE
    BY <1>5 DEF ListStale, Listed
  <2>2. creating = "no"
    BY <1>1, <2>1, NoGameIs DEF Creating, Ends
  <2>3. TypeOK'
    BY <1>1, <1>2, <2>1, Typed, TypedNext DEF Clocks
  <2>4. Creating' /\ SeenIsOld' /\ Reminded' /\ Referring'
    BY <1>1, <1>2, <2>1, <2>2 DEF Creating, SeenIsOld, Reminded, Referring
  <2>5. Ending'
    <3>1. endedAge \in Nat /\ overAge \in Nat
      BY <1>1, Typed, Times DEF Clocks
    <3> QED
      BY <1>1, <1>2, <2>1, <3>1, Times DEF Ending, InMemory
  <2> QED
    BY <2>3, <2>4, <2>5 DEF IInv
<1>6. CASE DeleteStale
  <2>1. /\ UNCHANGED <<dropping, overtaken>> /\ stale' = FALSE /\ stale
        /\ stored' = NoGame /\ game' = NoGame /\ endedAge' = 0 /\ overAge' = 0
    BY <1>6 DEF DeleteStale
  <2>2. creating = "no"
    BY <1>1, <2>1 DEF Creating
  <2>3. TypeOK'
    BY <1>1, <1>2, <1>4, <2>1, NoGameIs, Typed, TypedNext DEF Clocks
  <2>4. Creating' /\ SeenIsOld'
    BY <1>1, <1>2, <2>1, <2>2 DEF Creating, SeenIsOld
  <2>5. Reminded'
    BY <1>1, <1>2, <2>1, NoGameIs DEF Reminded, Past
  <2>6. Ending'
    BY <1>1, <1>2, <2>1, NoGameIs DEF Ending, Ends
  <2>7. Referring'
    BY <1>1, <1>2, <2>1, NoGameIs DEF Referring
  <2> QED
    BY <2>3, <2>4, <2>5, <2>6, <2>7 DEF IInv
<1>7. CASE DropRow
  <2>1. /\ UNCHANGED <<game, overAge, stale>> /\ dropping' = TRUE
        /\ stored' = NoGame /\ endedAge' = 0 /\ overtaken' = (overtaken \/ creating # "no")
    BY <1>7 DEF DropRow
  <2>2. overtaken' \in BOOLEAN /\ (overtaken => overtaken') /\ (creating # "no" => overtaken')
    BY <2>1, Zenon
  <2>3. TypeOK'
    BY <1>1, <1>2, <1>4, <2>1, <2>2, NoGameIs, Typed, TypedNext DEF Clocks
  <2>4. Creating' /\ SeenIsOld'
    BY <1>1, <1>2, <2>1 DEF Creating, SeenIsOld
  <2>5. Reminded'
    BY <1>1, <1>2, <2>1, NoGameIs DEF Reminded, Past
  <2>6. Ending'
    BY <1>1, <1>2, <2>1, <2>2, NoGameIs DEF Ending, Ends, InMemory
  <2>7. Referring'
    BY <1>1, <1>2, <2>1, <2>2, NoGameIs DEF Referring
  <2> QED
    BY <2>3, <2>4, <2>5, <2>6, <2>7 DEF IInv
<1>8. CASE DropSession
  <2>1. /\ UNCHANGED <<stored, endedAge, stale, overtaken>> /\ dropping /\ dropping' = FALSE
        /\ game' = NoGame /\ overAge' = 0
    BY <1>8 DEF DropSession
  <2>2. ~overtaken => stored = NoGame
    BY <1>1, <2>1 DEF Ending
  <2>3. TypeOK'
    BY <1>1, <1>2, <1>4, <2>1, NoGameIs, Typed, TypedNext DEF Clocks
  <2>4. Creating' /\ SeenIsOld'
    BY <1>1, <1>2, <2>1 DEF Creating, SeenIsOld
  <2>5. Reminded'
    BY <1>1, <1>2, <2>1, NoGameIs DEF Reminded, Past
  <2>6. Ending'
    BY <1>1, <1>2, <2>1, <2>2, NoGameIs DEF Ending, Ends, InMemory
  <2>7. Referring'
    BY <1>1, <1>2, <2>1, <2>2, NoGameIs DEF Referring
  <2> QED
    BY <2>3, <2>4, <2>5, <2>6, <2>7 DEF IInv
<1> QED
  BY <1>5, <1>6, <1>7, <1>8

-----------------------------------------------------------------------------
(* Sessions, the deletion of an account, and a restart.                    *)

LEMMA NoSessionIs ==
    /\ NoSession \in Sessions /\ NoSession.live = FALSE
    /\ [NoSession EXCEPT !.live = TRUE] \in Sessions
    /\ [NoSession EXCEPT !.live = TRUE].unused <= [NoSession EXCEPT !.live = TRUE].idle
<1>1. PICK age \in 0 .. Lifetime + 1 : age = 0
  BY Times
<1>2. PICK idle \in 0 .. IdleWindow + 1 : idle = 0
  BY Times
<1>3. NoSession = [live |-> FALSE, age |-> age, idle |-> idle, unused |-> idle]
  BY <1>1, <1>2 DEF NoSession
<1>4. NoSession \in Sessions /\ NoSession.live = FALSE /\ NoSession.unused = NoSession.idle
  BY <1>3 DEF Sessions
<1>5. PICK s : s = [NoSession EXCEPT !.live = TRUE]
  OBVIOUS
<1>6. s \in Sessions /\ s.unused = idle /\ s.idle = idle
  BY <1>3, <1>5 DEF Sessions
<1> QED
  BY <1>4, <1>5, <1>6

LEMMA UsedIs ==
    ASSUME NEW s \in Sessions, s.unused <= s.idle
    PROVE  /\ Used(s) \in Sessions /\ Used(s).live = s.live
           /\ Used(s).unused = 0 /\ Used(s).unused <= Used(s).idle
<1>1. PICK idle \in 0 .. IdleWindow + 1 : idle = IF s.idle > Throttle THEN 0 ELSE s.idle
  <2>1. s.idle \in 0 .. IdleWindow + 1 /\ 0 \in 0 .. IdleWindow + 1
    BY Times DEF Sessions
  <2> QED
    BY <2>1
<1>2. PICK z \in 0 .. IdleWindow + 1 : z = 0
  BY Times
<1>3. Used(s) = [s EXCEPT !.idle = idle, !.unused = z]
  BY <1>1, <1>2 DEF Used
<1>4. /\ Used(s) \in Sessions /\ Used(s).live = s.live
      /\ Used(s).unused = z /\ Used(s).idle = idle
  BY <1>3 DEF Sessions
<1> QED
  BY <1>2, <1>4, Times

\* Steps of the account that leave every game alone.
LEMMA AccountSteps ==
    ASSUME IInv, UNCHANGED <<gameVars, crashes>>, overtaken' \in BOOLEAN,
           overtaken => overtaken',
           session' \in Sessions, session'.live => session'.unused <= session'.idle,
           signIns' \in 0 .. MaxSignIns, login' \in BOOLEAN, account' \in BOOLEAN,
           deleting' \in {"no", "games", "session", "release"}
    PROVE  TypeOK' /\ Creating' /\ Reminded' /\ Ending' /\ SeenIsOld'
<1>1. /\ TypeOK /\ Creating /\ Reminded /\ Ending /\ overtaken \in BOOLEAN
      /\ game \in Game /\ stored \in Game
  BY Typed DEF IInv
<1>2. UNCHANGED <<game, stored, endedAge, overAge, unsaved, made, creating, stale, dropping,
                  mails>>
  BY DEF gameVars
<1>3. TypeOK'
  BY <1>1, <1>2, Typed, TypedNext DEF Clocks
<1>4. Creating' /\ Reminded' /\ Ending'
  BY <1>1, <1>2 DEF Creating, Reminded, Ending, InMemory
<1>5. SeenIsOld'
  BY DEF SeenIsOld
<1> QED
  BY <1>3, <1>4, <1>5

LEMMA SessionKeeps ==
    ASSUME IInv, Use \/ LogIn \/ CreateSession \/ SignOut \/ SweepSessions
    PROVE  IInv'
<1>1. /\ TypeOK /\ Referring /\ SeenIsOld /\ session \in Sessions /\ overtaken \in BOOLEAN
  BY Typed DEF IInv
<1>2. UNCHANGED <<gameVars, account, deleting, overtaken, crashes>>
  BY DEF Use, LogIn, CreateSession, SignOut, SweepSessions
<1>3. UNCHANGED <<game, stored, creating>>
  BY <1>2 DEF gameVars
<1>4. account' \in BOOLEAN /\ deleting' \in {"no", "games", "session", "release"}
  BY <1>1, <1>2, Typed
<1>5. CASE Use
  <2>1. /\ UNCHANGED <<signIns, login>> /\ session.live /\ session' = Used(session)
    BY <1>5 DEF Use, Accepted
  <2>2. /\ session' \in Sessions /\ session'.live = session.live
        /\ session'.unused <= session'.idle
    BY <1>1, <2>1, UsedIs DEF SeenIsOld
  <2>3. TypeOK' /\ Creating' /\ Reminded' /\ Ending' /\ SeenIsOld'
    BY <1>1, <1>2, <1>4, <2>1, <2>2, Typed, AccountSteps
  <2>4. Referring'
    BY <1>1, <1>2, <1>3, <2>1, <2>2 DEF Referring
  <2> QED
    BY <2>3, <2>4 DEF IInv
<1>6. CASE LogIn
  <2>1. UNCHANGED session /\ account /\ login' = TRUE /\ signIns < MaxSignIns /\ signIns' = signIns + 1
    BY <1>6 DEF LogIn
  <2>2. signIns' \in 0 .. MaxSignIns
    BY <1>1, <2>1, Typed, Times
  <2>3. TypeOK' /\ Creating' /\ Reminded' /\ Ending' /\ SeenIsOld'
    BY <1>1, <1>2, <1>4, <2>1, <2>2, AccountSteps DEF SeenIsOld
  <2>4. Referring'
    BY <1>1, <1>2, <1>3, <2>1 DEF Referring
  <2> QED
    BY <2>3, <2>4 DEF IInv
<1>7. CASE CreateSession
  <2>1. /\ UNCHANGED signIns /\ login /\ login' = FALSE
        /\ session' = [NoSession EXCEPT !.live = TRUE]
    BY <1>7 DEF CreateSession
  <2>2. session' \in Sessions /\ session'.unused <= session'.idle
    BY <2>1, NoSessionIs
  <2>3. TypeOK' /\ Creating' /\ Reminded' /\ Ending' /\ SeenIsOld'
    BY <1>1, <1>2, <1>4, <2>1, <2>2, Typed, AccountSteps
  <2>4. Referring'
    BY <1>1, <1>2, <1>3, <2>1 DEF Referring
  <2> QED
    BY <2>3, <2>4 DEF IInv
<1>8. CASE SignOut \/ SweepSessions
  <2>1. UNCHANGED <<signIns, login>> /\ session' = NoSession
    BY <1>8 DEF SignOut, SweepSessions
  <2>2. session' \in Sessions /\ session'.live = FALSE
    BY <2>1, NoSessionIs
  <2>3. TypeOK' /\ Creating' /\ Reminded' /\ Ending' /\ SeenIsOld'
    BY <1>1, <1>2, <1>4, <2>1, <2>2, Typed, AccountSteps
  <2>4. Referring'
    BY <1>1, <1>2, <1>3, <2>1, <2>2 DEF Referring
  <2> QED
    BY <2>3, <2>4 DEF IInv
<1> QED
  BY <1>5, <1>6, <1>7, <1>8

LEMMA DeletingKeeps ==
    ASSUME IInv, DeleteCheckGames \/ DeleteCheckSession \/ DeletePlayer
    PROVE  IInv'
<1>1. /\ TypeOK /\ Referring /\ SeenIsOld /\ session \in Sessions /\ overtaken \in BOOLEAN
      /\ account \in BOOLEAN /\ login \in BOOLEAN /\ signIns \in 0 .. MaxSignIns
  BY Typed DEF IInv
<1>2. UNCHANGED <<gameVars, signIns, login, crashes>>
  BY DEF DeleteCheckGames, DeleteCheckSession, DeletePlayer
<1>3. UNCHANGED <<game, stored, creating>>
  BY <1>2 DEF gameVars
<1>4. CASE DeleteCheckGames
  <2>1. /\ UNCHANGED <<account, session, overtaken>> /\ account /\ deleting' = "games"
    BY <1>4 DEF DeleteCheckGames
  <2>2. TypeOK' /\ Creating' /\ Reminded' /\ Ending' /\ SeenIsOld'
    BY <1>1, <1>2, <2>1, AccountSteps DEF SeenIsOld
  <2>3. Referring'
    BY <1>1, <1>2, <1>3, <2>1 DEF Referring
  <2> QED
    BY <2>2, <2>3 DEF IInv
<1>5. CASE DeleteCheckSession
  <2>1. /\ UNCHANGED <<account, session, overtaken>> /\ deleting = "games"
        /\ deleting' \in {"no", "session"}
    BY <1>5 DEF DeleteCheckSession
  <2>2. TypeOK' /\ Creating' /\ Reminded' /\ Ending' /\ SeenIsOld'
    BY <1>1, <1>2, <2>1, AccountSteps DEF SeenIsOld
  <2>3. ~overtaken => account
    BY <1>1, <2>1 DEF Referring
  <2>4. Referring'
    BY <1>1, <1>2, <1>3, <2>1, <2>3 DEF Referring
  <2> QED
    BY <2>2, <2>4 DEF IInv
<1>6. CASE DeletePlayer
  <2>1. /\ deleting' = "release" /\ account' = FALSE /\ session' = NoSession
        /\ overtaken' = (overtaken \/ login \/ creating # "no")
    BY <1>6 DEF DeletePlayer
  <2>2. /\ overtaken' \in BOOLEAN /\ (overtaken => overtaken')
        /\ ~overtaken' => ~overtaken /\ ~login /\ creating = "no"
    BY <2>1, Zenon
  <2>3. session' \in Sessions /\ session'.live = FALSE
    BY <2>1, NoSessionIs
  <2>4. TypeOK' /\ Creating' /\ Reminded' /\ Ending' /\ SeenIsOld'
    BY <1>1, <1>2, <2>1, <2>2, <2>3, AccountSteps
  <2>5. Referring'
    BY <1>1, <1>2, <1>3, <2>1, <2>2, <2>3 DEF Referring
  <2> QED
    BY <2>4, <2>5 DEF IInv
<1> QED
  BY <1>4, <1>5, <1>6

LEMMA CrashKeeps == ASSUME IInv, Crash PROVE IInv'
<1>1. /\ TypeOK /\ Creating /\ Reminded /\ Ending /\ Referring /\ SeenIsOld
      /\ game \in Game /\ stored \in Game /\ overtaken \in BOOLEAN
  BY Typed DEF IInv
<1>2. /\ UNCHANGED <<stored, endedAge, made, mails, account, session, signIns>>
      /\ game' = stored /\ overAge' = (IF stored.status \in Ends THEN overAge ELSE 0)
      /\ unsaved' = FALSE /\ creating' = "no" /\ stale' = FALSE /\ dropping' = FALSE
      /\ login' = FALSE /\ deleting' = "no"
      /\ overtaken' = (overtaken \/ deleting = "release")
  BY DEF Crash
<1>3. crashes' \in 0 .. MaxCrashes
  BY <1>1, Typed, Times DEF Crash
<1>4. overtaken' \in BOOLEAN /\ (~overtaken' => ~overtaken /\ deleting # "release")
  BY <1>2, Zenon
<1>5. TypeOK'
  <2>1. Clocks'
    BY <1>1, <1>2, Typed, Times DEF Clocks
  <2> QED
    BY <1>1, <1>2, <1>3, <1>4, <2>1, Typed, TypedNext
<1>6. Creating' /\ SeenIsOld' /\ Reminded'
  BY <1>1, <1>2 DEF Creating, SeenIsOld, Reminded
<1>7. Ending'
  BY <1>1, <1>2, <1>4 DEF Ending
<1>8. Referring'
  BY <1>1, <1>2, <1>4 DEF Referring
<1> QED
  BY <1>5, <1>6, <1>7, <1>8 DEF IInv

-----------------------------------------------------------------------------
(* The invariant and what it gives.                                        *)

LEMMA InitConsistent == ASSUME Init PROVE IInv
<1>1. /\ game = NoGame /\ stored = NoGame /\ endedAge = 0 /\ overAge = 0 /\ unsaved = FALSE
      /\ made = 0 /\ creating = "no" /\ stale = FALSE /\ dropping = FALSE
      /\ mails = [t \in 0 .. MaxTurns |-> 0] /\ account = TRUE /\ session = NoSession
      /\ signIns = 0 /\ login = FALSE /\ deleting = "no" /\ overtaken = FALSE /\ crashes = 0
  BY DEF Init
<1>2. /\ 0 \in 0 .. KeepFor + 1 /\ 0 \in 0 .. MaxGames /\ 0 \in 0 .. MaxSignIns
      /\ 0 \in 0 .. MaxCrashes
  BY Times
<1>3. mails \in [0 .. MaxTurns -> 0 .. 2] /\ \A t \in 0 .. MaxTurns : mails[t] = 0
  BY <1>1
<1>4. TypeOK
  <2>1. session \in Sessions /\ game \in Game /\ stored \in Game
    BY <1>1, NoSessionIs, NoGameIs
  <2>2. {unsaved, stale, dropping, account, login, overtaken} \subseteq BOOLEAN
    BY <1>1
  <2> QED
    BY <1>1, <1>2, <1>3, <2>1, <2>2 DEF TypeOK, Sessions
<1>5. Creating /\ Reminded /\ Ending
  BY <1>1, <1>3, NoGameIs DEF Creating, Reminded, Ending, Ends
<1>6. Referring /\ SeenIsOld
  BY <1>1, NoGameIs, NoSessionIs DEF Referring, SeenIsOld
<1> QED
  BY <1>4, <1>5, <1>6 DEF IInv

LEMMA StepConsistent == ASSUME IInv, [Next]_vars PROVE IInv'
<1>1. CASE UNCHANGED vars
  <2>1. UNCHANGED <<game, stored, endedAge, overAge, unsaved, made, creating, stale, dropping,
                    mails, account, session, signIns, login, deleting, overtaken, crashes>>
    BY <1>1 DEF vars, gameVars, accountVars
  <2>2. TypeOK'
    BY <2>1 DEF IInv, TypeOK
  <2>3. Creating' /\ Reminded' /\ Ending'
    BY <2>1 DEF IInv, Creating, Reminded, Ending, InMemory
  <2>4. Referring' /\ SeenIsOld'
    BY <2>1 DEF IInv, Referring, SeenIsOld
  <2> QED
    BY <2>2, <2>3, <2>4 DEF IInv
<1> QED
  BY <1>1, TickKeeps, SessionKeeps, CreateKeeps, StartKeeps, MoveKeeps, TouchKeeps, StopKeeps,
     FinalSaveKeeps, RemindKeeps, DeletionKeeps, DeletingKeeps, ReleaseKeeps, CrashKeeps,
     Zenon DEF Next, Sweeps, DeleteUser

\* Every reachable state satisfies the inductive invariant.
THEOREM Consistent == Spec => []IInv
  BY InitConsistent, StepConsistent, PTL DEF Spec

\* Games, clocks, mails, sessions and the steps of the calls under way have their types.
THEOREM TypeCorrect == Spec => []TypeOK
<1>1. IInv => TypeOK
  BY DEF IInv
<1> QED
  BY <1>1, Consistent, PTL

\* No turn's player is reminded of it twice (send_move_time_reminders, reminder_sent_turn).
THEOREM RemindersAreSingle == Spec => []RemindedOnce
<1>1. IInv => RemindedOnce
  <2>1. SUFFICES ASSUME IInv, NEW t \in DOMAIN mails PROVE mails[t] <= 1
    BY DEF RemindedOnce
  <2> QED
    BY <2>1 DEF IInv, Reminded
<1> QED
  BY <1>1, Consistent, PTL

\* No game refers to an account that is gone (admin_delete_user, release_player).
THEOREM DeletedAreUnreferenced == Spec => []DeletedIsUnreferenced
<1>1. IInv => DeletedIsUnreferenced
  BY DEF IInv, Referring, DeletedIsUnreferenced
<1> QED
  BY <1>1, Consistent, PTL

\* No finished game is removed before its time (expire_old_terminal_games).
THEOREM NothingGoesEarly == Spec => RemovedNoSooner
<1>1. IInv /\ [Next]_vars
         => [stale /\ ~stale' /\ InMemory /\ ~overtaken /\ crashes' = crashes
                => overAge > KeepFor]_vars
  BY DEF IInv, Ending
<1> QED
  BY <1>1, Consistent, PTL DEF Spec, RemovedNoSooner

\* No request is served on a session whose window has passed (player_id_for_token).
THEOREM LateSessionsAreRefused == Spec => ServedInTime
<1>1. ASSUME IInv, [Next]_vars
      PROVE  [session.live /\ session'.live /\ session'.unused < session.unused =>
                session.unused <= IdleWindow /\ session.age < Lifetime]_vars
  <2>1. SUFFICES ASSUME session.live, session'.live, session'.unused < session.unused
                 PROVE  session.unused <= IdleWindow /\ session.age < Lifetime
    OBVIOUS
  <2>2. /\ session \in Sessions /\ session.unused <= session.idle
        /\ session.unused \in 0 .. IdleWindow + 1 /\ session.idle \in 0 .. IdleWindow + 1
    BY <1>1, <2>1, Typed DEF IInv, SeenIsOld, Sessions
  <2>3. session' # session
    BY <2>1, <2>2, Times
  <2>4. CASE Use
    BY <2>2, <2>4, Times DEF Use, Accepted
  <2>5. CASE Tick
    <3>1. PICK age, idle, unused :
             /\ unused = Older(session.unused, IdleWindow)
             /\ session' = [session EXCEPT !.age = age, !.idle = idle, !.unused = unused]
      BY <2>1, <2>5 DEF Tick
    <3>2. session'.unused = unused
      BY <2>2, <3>1 DEF Sessions
    <3>3. session.unused <= unused /\ unused \in 0 .. IdleWindow + 1
      BY <2>2, <3>1, Times, OlderIs
    <3> QED
      BY <2>1, <2>2, <3>2, <3>3, Times
  <2>6. CASE CreateSession
    BY <2>1, <2>6 DEF CreateSession
  <2>7. CASE SignOut \/ SweepSessions \/ DeletePlayer
    <3>1. session' = NoSession
      BY <2>7 DEF SignOut, SweepSessions, DeletePlayer
    <3> QED
      BY <2>1, <3>1, NoSessionIs
  <2>8. Use \/ Tick \/ CreateSession \/ SignOut \/ SweepSessions \/ DeletePlayer
    BY <1>1, <2>3 DEF Next, LogIn, CreateCheck, CreateSave, CreateInsert, Start, Move, Touch,
       Stop, FinalSave, Sweeps, ExpireTurns, Remind, ListStale, DeleteStale, DropRow,
       DropSession, DeleteUser, DeleteCheckGames, DeleteCheckSession, DeleteRelease, Crash,
       calmVars, accountVars, gameVars, vars
  <2> QED
    BY <2>4, <2>5, <2>6, <2>7, <2>8
<1> QED
  BY <1>1, Consistent, PTL DEF Spec, ServedInTime
=============================================================================
