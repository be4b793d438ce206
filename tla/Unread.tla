-------------------------------- MODULE Unread --------------------------------
(***************************************************************************)
(* Unread chat in one browser tab: the ticker of ui/src/app.rs with its    *)
(* SeenClock (ui/src/seen_clock.rs), the watermarks of local_storage.rs    *)
(* and the indicator beside the rack.                                      *)
(*                                                                         *)
(* A message is read when it has been in front of somebody for ten         *)
(* seconds.  The clock is sampled: time is counted here in the stretches   *)
(* between two samples, and each reading as what is left of it, the time   *)
(* on the clock since a message was stamped.  Messages carry the second    *)
(* the server had when they came in, which is all a watermark remembers.   *)
(* Other tabs and the fading of the messages are left out.                 *)
(***************************************************************************)
EXTENDS Integers, Sequences, FiniteSets, SequencesExt, FiniteSetsExt

CONSTANTS
    Games,        \* the games of the list, with the viewer seated in each
    NoGame,       \* none open
    SeenAfter,    \* SEEN_AFTER_MS, in stretches
    MaxSeconds,   \* bound on the server's clock
    MaxMessages,  \* bound on the messages sent
    MaxReplies    \* bound on the answers under way

ASSUME NoGameAssumption == NoGame \notin Games
ASSUME SeenAfterAssumption == SeenAfter \in Nat \ {0} /\ MaxSeconds \in Nat

VARIABLES
    messages,  \* chat of each game at the server: [mine, at] records
    replies,   \* answers to load_game_by_id under way: [game, shown, direct]
    listed,    \* last_message_received_at of the game summaries; 0 is none
    open,      \* the game signal
    shown,     \* how many of its messages the page has
    visible,   \* chat_messages_are_visible()
    running,   \* the clock's visible_since is set
    watching,  \* watching_game
    ages,      \* CHAT_VISIBLE_MS less arrived_at, of the messages stamped
    watermark, \* chat_watermarks, as saved; 0 is none
    unread,    \* HAS_UNREAD_CHAT
    here,      \* UNREAD_IS_THIS_GAME
    target,    \* UNREAD_GAME_ID
    watched    \* history: stretches each message was before somebody's eyes

pageVars == <<replies, listed, open, shown, visible>>
clockVars == <<running, watching, ages>>
indicatorVars == <<unread, here, target>>
unreadVars == <<messages, pageVars, clockVars, watermark, indicatorVars, watched>>

Latest(times) == IF times = {} THEN 0 ELSE Max(times)
Received(chat) == Latest({chat[i].at : i \in {j \in DOMAIN chat : ~chat[j].mine}})

\* unread_for, and has_unread_chat of the games panel.
UnreadFor(received, seen) == received > seen

UnreadInit ==
    /\ messages = [g \in Games |-> << >>]
    /\ replies = {} /\ listed = [g \in Games |-> 0]
    /\ open = NoGame /\ shown = 0 /\ visible = FALSE
    /\ running = FALSE /\ watching = NoGame /\ ages = << >>
    /\ watermark = [g \in Games |-> 0]
    /\ unread = FALSE /\ here = FALSE /\ target = NoGame
    /\ watched = [g \in Games |-> << >>]

-----------------------------------------------------------------------------
(* The server and the people.                                              *)

Sent == UNION {{<<g, i>> : i \in DOMAIN messages[g]} : g \in Games}
Now == Latest({messages[m[1]][m[2]].at : m \in Sent})

\* A message comes in, in the second of the last one or in a later one.
Send(g, mine) ==
    /\ Cardinality(Sent) < MaxMessages
    /\ mine => open = g
    /\ \E at \in 1 .. MaxSeconds :
          /\ at >= Now
          /\ messages' = [messages EXCEPT ![g] = Append(@, [mine |-> mine, at |-> at])]
    /\ UNCHANGED <<pageVars, clockVars, watermark, indicatorVars, watched>>

\* Scrolling, switching tabs.
Look ==
    /\ open # NoGame
    /\ visible' = ~visible
    /\ UNCHANGED <<messages, replies, listed, open, shown, clockVars, watermark,
                   indicatorVars, watched>>

-----------------------------------------------------------------------------
(* The page.                                                               *)

\* load_game_summaries, every ten seconds and after most actions.
Poll ==
    /\ listed' = [g \in Games |-> Received(messages[g])]
    /\ UNCHANGED <<messages, replies, open, shown, visible, clockVars, watermark,
                   indicatorVars, watched>>

\* An event of the open game's feed, or the answer to an action in it.
Update ==
    /\ open # NoGame
    /\ shown' \in shown + 1 .. Len(messages[open])
    /\ UNCHANGED <<messages, replies, listed, open, visible, clockVars, watermark,
                   indicatorVars, watched>>

Ask(g, direct) ==
    /\ Cardinality(replies) < MaxReplies
    /\ replies' = replies \cup {[game |-> g, shown |-> Len(messages[g]), direct |-> direct]}
    /\ UNCHANGED <<messages, listed, open, shown, visible, clockVars, watermark,
                   indicatorVars, watched>>

\* A row of the list is selected.
Select(g) == Ask(g, FALSE)

\* on_show_unread: the game is there already, or it is loaded first.  (The
\* scrolling that is left pending for it is one way of Look.)
ShowUnread ==
    /\ unread /\ target # NoGame
    /\ \/ /\ target = open
          /\ visible' = TRUE
          /\ UNCHANGED <<messages, replies, listed, open, shown, clockVars, watermark,
                         indicatorVars, watched>>
       \/ target # open /\ Ask(target, TRUE)

\* The game arrives and is shown: from the indicator as it is, from the list
\* through apply_game_update, which keeps a later state of the same game.
Answer(m) ==
    /\ replies' = replies \ {m}
    /\ open' = m.game
    /\ shown' = IF m.game = open /\ ~m.direct
                THEN Max({m.shown, shown}) ELSE m.shown
    /\ visible' \in BOOLEAN
    /\ UNCHANGED <<messages, listed, clockVars, watermark, indicatorVars, watched>>

\* It does not arrive.
Fails(m) ==
    /\ replies' = replies \ {m}
    /\ UNCHANGED <<messages, listed, open, shown, visible, clockVars, watermark,
                   indicatorVars, watched>>

\* on_remove_game: the open game is taken from the list.
Close ==
    /\ open # NoGame
    /\ open' = NoGame /\ shown' = 0 /\ visible' = FALSE
    /\ UNCHANGED <<messages, replies, listed, clockVars, watermark, indicatorVars,
                   watched>>

\* The tab is loaded again: all but the saved watermarks is as at the start.
Reload ==
    /\ replies' = {} /\ listed' = [g \in Games |-> 0]
    /\ open' = NoGame /\ shown' = 0 /\ visible' = FALSE
    /\ running' = FALSE /\ watching' = NoGame /\ ages' = << >>
    /\ unread' = FALSE /\ here' = FALSE /\ target' = NoGame
    /\ UNCHANGED <<messages, watermark, watched>>

-----------------------------------------------------------------------------
(* The ticker.                                                             *)

\* Mutant: each sample that finds the chat visible begins the stretch again.
BegunAgain == 0

\* became_visible and became_hidden: the stretch since the last sample is
\* counted if that sample found the chat visible.
Stretch == IF running THEN 1 ELSE 0

Capped(n) == IF n > SeenAfter THEN SeenAfter ELSE n

\* Mutant: the stamps outlive the game they were made for.
StampsKept == [i \in DOMAIN ages |-> Capped(ages[i] + Stretch)]

\* The stamps of the open game's messages; another game's are dropped.
Kept ==
    IF watching = open
    THEN [i \in DOMAIN ages |-> Capped(ages[i] + Stretch)] ELSE << >>

\* Messages not stamped yet begin now, or long ago if they are already read.
Stamped ==
    LET fresh == SubSeq(messages[open], Len(Kept) + 1, shown)
    IN  Kept \o [i \in DOMAIN fresh |->
                    IF fresh[i].at <= watermark[open] THEN SeenAfter ELSE 0]

\* The newest message shown that has been seen.
SeenUpto ==
    Latest({messages[open][i].at : i \in {j \in 1 .. shown : Stamped[j] >= SeenAfter}})

\* The first game of the list that has something unread, of those given.
FirstUnread(others, marks) ==
    IF \E h \in others : UnreadFor(listed[h], marks[h])
    THEN CHOOSE h \in others : UnreadFor(listed[h], marks[h])
    ELSE NoGame

\* History: a stretch that began with the chat visible was spent before every
\* message that had been shown by then.
Watching ==
    watched' =
        [g \in Games |->
            LET before == [i \in DOMAIN watched[g] |->
                              IF g = watching THEN Capped(watched[g][i] + Stretch)
                              ELSE watched[g][i]]
            IN  IF g # open THEN before
                ELSE before \o [i \in 1 .. Len(SubSeq(messages[g], Len(before) + 1, shown)) |-> 0]]

TickClosed ==
    /\ open = NoGame
    /\ here' = FALSE
    /\ target' = FirstUnread(Games, watermark)
    /\ unread' = (target' # NoGame)
    /\ ages' = [i \in DOMAIN ages |-> Capped(ages[i] + Stretch)]
    /\ UNCHANGED <<watching, watermark>>

TickOpen ==
    /\ open # NoGame
    /\ watching' = open
    /\ ages' = Stamped
    /\ watermark' = IF SeenUpto = 0 THEN watermark
                    ELSE [watermark EXCEPT ![open] = SeenUpto]
    /\ here' = UnreadFor(Received(SubSeq(messages[open], 1, shown)), watermark'[open])
    /\ LET elsewhere == FirstUnread(Games \ {open}, watermark')
       IN  /\ target' = IF here' THEN open ELSE elsewhere
           /\ unread' = (here' \/ elsewhere # NoGame)

\* Every 500 ms.
Tick ==
    /\ running' = visible
    /\ Watching
    /\ TickClosed \/ TickOpen
    /\ UNCHANGED <<messages, pageVars>>

UnreadNext ==
    \/ \E g \in Games, mine \in BOOLEAN : Send(g, mine)
    \/ Look
    \/ Poll
    \/ Update
    \/ \E g \in Games : Select(g)
    \/ ShowUnread
    \/ \E m \in replies : Answer(m) \/ Fails(m)
    \/ Close
    \/ Reload
    \/ Tick

UnreadSpec == UnreadInit /\ [][UnreadNext]_unreadVars

\* The ticker never stops.
FairUnreadSpec == UnreadSpec /\ WF_unreadVars(Tick)

-----------------------------------------------------------------------------
(* Properties.                                                             *)

Message == [mine : BOOLEAN, at : 1 .. MaxSeconds]

UnreadTypeOK ==
    /\ messages \in [Games -> Seq(Message)]
    /\ replies \subseteq [game : Games, shown : Nat, direct : BOOLEAN]
    /\ listed \in [Games -> 0 .. MaxSeconds]
    /\ open \in Games \cup {NoGame}
    /\ shown \in Nat
    /\ visible \in BOOLEAN
    /\ running \in BOOLEAN
    /\ watching \in Games \cup {NoGame}
    /\ ages \in Seq(0 .. SeenAfter)
    /\ watermark \in [Games -> 0 .. MaxSeconds]
    /\ unread \in BOOLEAN /\ here \in BOOLEAN
    /\ target \in Games \cup {NoGame}
    /\ watched \in [Games -> Seq(0 .. SeenAfter)]

\* What a row of the list shows.
RowUnread(g) == IF g = open THEN here ELSE UnreadFor(listed[g], watermark[g])

\* A message counts as read only when it, or one of the same second before it,
\* has been in front of somebody for the ten seconds, "the time while hidden
\* does not count", whatever games were opened in between.
ReadMeansWatched ==
    \A g \in Games : \A i \in DOMAIN messages[g] :
        messages[g][i].at <= watermark[g] =>
            \E j \in DOMAIN watched[g] :
                messages[g][j].at = messages[g][i].at /\ watched[g][j] = SeenAfter

\* A chat that stays in front of somebody is read in the end, and the
\* indicator then speaks for the other games of the list and for no more.
WatchedIsRead ==
    \A g \in Games :
        <>[](open = g /\ visible) =>
            <>[](/\ ~here /\ target # g
                 /\ unread = (\E h \in Games : RowUnread(h)))

-----------------------------------------------------------------------------
(* The inductive invariant: ReadMeansWatched, with what it rests on.       *)

\* The page shows no message that is not there, now or when an answer comes.
ShownExist ==
    /\ open \in Games => shown <= Len(messages[open])
    /\ \A m \in replies : m.shown <= Len(messages[m.game])

\* Messages are in the order of their times, and an earlier one has been
\* watched for as long as a later one, or longer.
InOrder ==
    \A g \in Games :
        /\ \A i, j \in DOMAIN messages[g] :
              i <= j => messages[g][i].at <= messages[g][j].at
        /\ Len(watched[g]) <= Len(messages[g])
        /\ \A i, j \in DOMAIN watched[g] : i <= j => watched[g][j] <= watched[g][i]

\* A message of the second t of game g has been watched long enough.
Earned(g, t) ==
    \E j \in DOMAIN watched[g] : messages[g][j].at = t /\ watched[g][j] = SeenAfter

\* A stamp says no more than what was watched, but for one that was set long
\* ago because its second was read already.
StampsAreEarned ==
    /\ watching = NoGame => ages = << >>
    /\ watching \in Games =>
          /\ Len(ages) <= Len(watched[watching])
          /\ \A i \in DOMAIN ages :
                ages[i] <= watched[watching][i] \/ Earned(watching, messages[watching][i].at)

\* So a watermark, which may go back when an older answer is shown, is always
\* at a second that was watched.
MarksAreEarned == \A g \in Games : watermark[g] # 0 => Earned(g, watermark[g])

UnreadInv == UnreadTypeOK /\ ShownExist /\ InOrder /\ StampsAreEarned /\ MarksAreEarned
=============================================================================
