-------------------------------- MODULE Draft --------------------------------
(***************************************************************************)
(* The form of a new game (ui/src/components/games_panel.rs): a roster is  *)
(* drafted from a preset, edited row by row, shown in a table and sent to  *)
(* create_game (server-game/src/app/games.rs).                             *)
(*                                                                         *)
(* The form keeps the user's own seat apart from the others, as a flag and *)
(* a position among them.  The table and the request each put the two      *)
(* together in their own way.  The edition is left out.                    *)
(***************************************************************************)
EXTENDS Naturals, Sequences, FiniteSets, SequencesExt

CONSTANTS
    FormNames,      \* bounds: what is typed for a name,
    FormHours,      \* and for the hours,
    FormPlayers,    \* the players there are,
    MaxEdits        \* and the edits made of a draft

ASSUME FormAssumption == FormHours \subseteq Nat /\ MaxEdits \in Nat

\* A seat that is not the user's: an AdditionalSeatDraft.
NoName == ""
Other(kind, name) == [kind |-> kind, name |-> name]
NeedsName == {"named", "email"}

\* The hours are what the box reads; 0 stands for what does not parse, too.
DefaultHours == 72

\* start_draft with the rosters of preset_draft.
Presets ==
    LET draft(creator, others) ==
          [creator |-> creator, position |-> 0, others |-> others, hours |-> DefaultHours]
    IN  {draft(TRUE, <<Other(kind, NoName)>>) : kind \in {"engine", "named", "open"}}
          \cup {draft(FALSE, <<Other("engine", NoName), Other("engine", NoName)>>)}

-----------------------------------------------------------------------------
(* The table.                                                              *)

You == [kind |-> "you", name |-> NoName]
Place(d) == IF d.position < Len(d.others) THEN d.position ELSE Len(d.others)

\* draft_rows: where the user's own seat is shown.
Rows(d) == IF d.creator THEN InsertAt(d.others, Place(d) + 1, You) ELSE d.others

\* swap_draft_rows and what its callers do with the result: the table is
\* taken apart again, and without the user's row the position is lost.
Exchanged(rows, a, b) == [rows EXCEPT ![a] = rows[b], ![b] = rows[a]]
Swapped(d, a, b) ==
    LET rows == Exchanged(Rows(d), a, b)
        mine == {i \in DOMAIN rows : rows[i] = You}
    IN  IF mine = {} THEN [d EXCEPT !.position = 0, !.others = rows]
        ELSE LET me == CHOOSE i \in mine : TRUE
             IN  [d EXCEPT !.position = me - 1, !.others = RemoveAt(rows, me)]

\* The buttons and boxes of the table's rows.  Removing a row, the user's own
\* or another, leaves the position as it is.
RowEdits(d) ==
    {[d EXCEPT !.creator = FALSE]}
      \cup {[d EXCEPT !.others = RemoveAt(@, i)] : i \in DOMAIN d.others}
      \cup {[d EXCEPT !.others[i].name = name] :
              i \in {j \in DOMAIN d.others : d.others[j].kind \in NeedsName},
              name \in FormNames}
      \cup {Swapped(d, i, i + 1) : i \in {j \in DOMAIN Rows(d) : j < Len(Rows(d))}}

\* Those below the table.
FormEdits(d) ==
    {[d EXCEPT !.creator = TRUE]}
      \cup {[d EXCEPT !.others = Append(@, Other(kind, NoName))] :
              kind \in {"named", "open", "email", "engine"}}
      \cup {[d EXCEPT !.hours = h] : h \in FormHours}

\* The drafts that some edits make of a preset.
Drafts[n \in 0 .. MaxEdits] ==
    IF n = 0 THEN Presets
    ELSE Drafts[n - 1] \cup UNION {RowEdits(d) \cup FormEdits(d) : d \in Drafts[n - 1]}

-----------------------------------------------------------------------------
(* The request.                                                            *)

HoursAllowed == 1 .. 960

\* can_submit_builder.
CanSubmit(d) ==
    /\ \A i \in DOMAIN d.others :
          d.others[i].kind \in NeedsName => d.others[i].name # NoName
    /\ d.creator \/ d.others # << >>
    /\ d.hours \in HoursAllowed

\* needs_invitations: the button reads "Invite", or else "Start".
NeedsInvitations(d) == \E i \in DOMAIN d.others : d.others[i].kind # "engine"

\* A CreateSeatRequest; an engine is called Greedy, with a number when there
\* are several.
SeatRequest(d, i) ==
    LET isEngine(r) == r.kind = "engine"
        engines(rows) == Len(SelectSeq(rows, isEngine))
        seat == d.others[i]
    IN  [kind  |-> IF isEngine(seat) THEN "engine" ELSE "human",
         claim |-> IF isEngine(seat) THEN "none" ELSE seat.kind,
         name  |-> seat.name,
         greedy |-> IF isEngine(seat) /\ engines(d.others) > 1
                    THEN engines(SubSeq(d.others, 1, i)) ELSE 0]
CreatorRequest ==
    [kind |-> "human", claim |-> "creator", name |-> NoName, greedy |-> 0]

\* Mutant: the creator goes in at the position as it was left.
BuildSeatsUnclamped(d) ==
    LET creator(i) == IF d.creator /\ i = d.position THEN <<CreatorRequest>> ELSE << >>
        seats[i \in 0 .. Len(d.others)] ==
            IF i = 0 THEN creator(0) ELSE seats[i - 1] \o <<SeatRequest(d, i)>> \o creator(i)
    IN  seats[Len(d.others)]

\* build_seats: the others in order, the creator before the first or after
\* the one its place names.
CreatorAfter(d, i) == IF d.creator /\ i = Place(d) THEN <<CreatorRequest>> ELSE << >>
BuildSeats(d) ==
    LET seats[i \in 0 .. Len(d.others)] ==
            IF i = 0 THEN CreatorAfter(d, 0)
            ELSE seats[i - 1] \o <<SeatRequest(d, i)>> \o CreatorAfter(d, i)
    IN  seats[Len(d.others)]

\* The CustomGameSubmission of the button.
Submission(d) ==
    [seats |-> BuildSeats(d), seconds |-> d.hours * 3600,
     startImmediately |-> ~NeedsInvitations(d)]

-----------------------------------------------------------------------------
(* The server.                                                             *)

MinimumSeats == 2

\* What create_game asks of a request.
Creates(s) ==
    /\ Len(s.seats) >= MinimumSeats
    /\ Cardinality({i \in DOMAIN s.seats :
                      s.seats[i].kind = "human" /\ s.seats[i].claim = "creator"}) <= 1
    /\ \A i \in DOMAIN s.seats : s.seats[i].kind = "human" => s.seats[i].claim # "none"
    /\ s.seconds >= 3600 /\ s.seconds <= 3456000

\* What start_game then asks of the game: no human seat without a player.
Starts(seats) ==
    \A i \in DOMAIN seats : seats[i].kind = "human" => seats[i].claim = "creator"

\* on_custom_new_game: a refused request leaves the form up; a game that waits
\* for nobody's answer is started by a second request.
Outcome(s) ==
    IF ~Creates(s) THEN "form stays"
    ELSE IF ~s.startImmediately THEN "waiting"
    ELSE IF Starts(s.seats) THEN "started" ELSE "start refused"

-----------------------------------------------------------------------------
(* A seat added to the game while it waits.                                *)

\* There is no field for an open seat: its name says so.
OpenSeat == "Open seat"

\* The form below the roster, and the AddSeatSubmission it makes.
CanAdd(kind, name) == kind \in NeedsName => name # NoName
AddSeatRow(kind, name) ==
    [kind  |-> IF kind = "engine" THEN "engine" ELSE "human",
     claim |-> IF kind = "engine" THEN NoName ELSE kind,
     name  |-> CASE kind = "open" -> OpenSeat [] kind = "engine" -> "Bot" [] OTHER -> name]

\* add_seat_to_game: the seat, if a player it names exists.
SeatsAdded(s, players) ==
    {seat \in {[kind |-> s.kind, name |-> s.name,
                email |-> IF s.claim = "email" THEN s.name ELSE NoName]} :
        s.claim = "named" => s.name \in players}

\* claim_seat puts the player's name on the seat, and withdraw_seat leaves it.
Given(seat, player) == [seat EXCEPT !.name = player]

\* on_send_invitation: what the button of an unclaimed seat sends.
Sent(seat) ==
    IF seat.email # NoName THEN Other("email", seat.email)
    ELSE IF seat.name = OpenSeat THEN Other("open", NoName)
    ELSE Other("named", seat.name)

-----------------------------------------------------------------------------
(* Properties of one draft.                                                *)

\* Every row of the table is a seat of the request, in the same order.
RequestFollowsTable(d) ==
    LET seats == BuildSeats(d) rows == Rows(d)
    IN  /\ Len(seats) = Len(rows)
        /\ \A i \in DOMAIN rows :
              /\ seats[i].claim = CASE rows[i].kind = "you" -> "creator"
                                    [] rows[i].kind = "engine" -> "none"
                                    [] OTHER -> rows[i].kind
              /\ seats[i].name = rows[i].name

\* A request for two seats or more, naming players there are, is not refused,
\* and the game is started with it unless somebody's answer is outstanding.
ServerTakesIt(d) ==
    Len(Rows(d)) >= MinimumSeats =>
        Outcome(Submission(d)) =
            IF Starts(BuildSeats(d)) THEN "started" ELSE "waiting"

\* Moving a row up or down exchanges it with its neighbour and leaves the
\* other rows where they are.
MovesAreLocal(d) ==
    \A i \in 1 .. Len(Rows(d)) - 1 :
        Rows(Swapped(d, i, i + 1)) = Exchanged(Rows(d), i, i + 1)

\* An invitation sent for an added seat goes where the form said, again after
\* a player the invitation let in has withdrawn.  But a seat that was open is
\* then offered to that player alone, and a player called like an open seat
\* is never invited by name.
SendReachesTheAsked(kind, name, players) ==
    kind # "engine" /\ CanAdd(kind, name) =>
        \A seat \in SeatsAdded(AddSeatRow(kind, name), players) :
            LET asked == Other(kind, IF kind = "open" THEN NoName ELSE name)
                named(p) == IF p = OpenSeat THEN Other("open", NoName) ELSE Other("named", p)
                admitted == IF kind = "named" THEN {name} ELSE players
            IN  /\ Sent(seat) = IF kind = "named" THEN named(name) ELSE asked
                /\ \A p \in admitted :
                      Sent(Given(seat, p)) = IF kind = "email" THEN asked ELSE named(p)
=============================================================================
