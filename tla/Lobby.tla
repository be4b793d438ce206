------------------------------- MODULE Lobby -------------------------------
(***************************************************************************)
(* The roster of one game before it starts, and the invitations to its     *)
(* seats: app/roster.rs, app/invitations.rs, create_game and start_game of *)
(* app/games.rs, the seat methods of GameSession and the game_invitations  *)
(* table.                                                                  *)
(*                                                                         *)
(* The roster lives in memory under the games lock; the invitation rows    *)
(* live in the database, and accepting and rejecting write them without    *)
(* the lock.  So each handler is split where it awaits a row another       *)
(* handler may change in between.  A seat has an identity of its own here, *)
(* which the code has not: its rows and its occupants know only the number *)
(* it has at the time.                                                     *)
(***************************************************************************)
EXTENDS Integers, FiniteSets, Sequences, SequencesExt

CONSTANTS
    Players,    \* player accounts
    Creator,    \* the game's creator
    Nobody,     \* no player: an unclaimed seat, an open or e-mail invitation
    FirstSeats, \* the seats create_game was asked for, in order
    SpareSeats, \* the seats add_seat may add
    Engines,    \* which of all these are engine seats
    Requests,   \* invite requests that may be running at once
    MaxRows     \* bound on the invitations ever sent

AllSeats == ToSet(FirstSeats) \cup SpareSeats

ASSUME PlayersAssumption == Creator \in Players /\ Nobody \notin Players
ASSUME SeatsAssumption ==
    /\ FirstSeats \in Seq(ToSet(FirstSeats)) /\ Len(FirstSeats) >= 2
    /\ IsInjective(FirstSeats)
    /\ FirstSeats[1] \notin Engines
    /\ MaxRows \in Nat

VARIABLES
    status,       \* GameStatus
    participants, \* the roster: [seat, number, holder] records, in order
    loaded,       \* the game is in AppState::games
    saved,        \* status and roster of the last snapshot written
    rows,         \* game_invitations, in order of creation
    claims,       \* history: which player claimed which row
    invites,      \* invite_player_to_game calls between check and insert
    accepts,      \* accept_invitation calls under way
    rejects,      \* reject_invitation calls between check and update
    removing,     \* the remove_seat_from_game call holding the lock, if any
    alone         \* history: no two calls have overlapped and none has failed

rosterVars == <<status, participants, loaded, saved>>
callVars == <<invites, accepts, rejects, removing>>
vars == <<rosterVars, rows, claims, callVars, alone>>

Over == status \in {"Finished", "Aborted"}
Human(s) == s \notin Engines
Seated(n) == n + 1 \in DOMAIN participants
Participant(n) == participants[n + 1]
Roster == {participants[k].seat : k \in DOMAIN participants}
HolderOf(s) ==
    IF s \in Roster
    THEN participants[CHOOSE k \in DOMAIN participants :
                         participants[k].seat = s].holder
    ELSE Nobody

\* Every human seat has a player: what start_game and swap_seats ask for.
Filled ==
    \A k \in DOMAIN participants :
        Human(participants[k].seat) => participants[k].holder # Nobody

\* create_game has saved the game with the creator seated; its invitations
\* and the insertion into the map are still to come.
FirstRoster ==
    [k \in DOMAIN FirstSeats |->
        [seat |-> FirstSeats[k], number |-> k - 1,
         holder |-> IF k = 1 THEN Creator ELSE Nobody]]

Init ==
    /\ status = "Waiting"
    /\ participants = FirstRoster
    /\ loaded = FALSE
    /\ saved = [status |-> status, participants |-> participants]
    /\ rows = << >>
    /\ claims = {}
    /\ invites = {}
    /\ accepts = {}
    /\ rejects = {}
    /\ removing = {}
    /\ alone = TRUE

-----------------------------------------------------------------------------
(* The games lock: an invite holds it shared, a removal exclusively.       *)

Unlocked == invites = {} /\ removing = {}
CanWrite == Unlocked /\ loaded

Save == saved' = [status |-> status', participants |-> participants']

-----------------------------------------------------------------------------
(* Invitation rows.                                                        *)

NewRow(s, n, invitee) ==
    [seat |-> s, number |-> n, invitee |-> invitee, status |-> "pending"]

Pending(n) ==
    {i \in DOMAIN rows : rows[i].number = n /\ rows[i].status = "pending"}

SetRow(i, st) == rows' = [rows EXCEPT ![i].status = st]

\* Mutant: no row moves.
Unshifted(n) == rows

\* shift_invitation_seat_numbers_down.
Shifted(n) ==
    [i \in DOMAIN rows |->
        IF rows[i].number > n THEN [rows[i] EXCEPT !.number = @ - 1] ELSE rows[i]]

\* The rest of create_game: a row per human seat but the creator's, in
\* order; then the game is put in the map.
CreateInvite ==
    /\ ~loaded
    /\ Len(rows) < MaxRows
    /\ \E k \in DOMAIN FirstSeats, invitee \in (Players \ {Creator}) \cup {Nobody} :
          /\ k > 1 /\ Human(FirstSeats[k])
          /\ \A j \in 2 .. Len(FirstSeats) :
                (\E i \in DOMAIN rows : rows[i].number = j - 1)
                  <=> (j < k /\ Human(FirstSeats[j]))
          /\ rows' = Append(rows, NewRow(FirstSeats[k], k - 1, invitee))
    /\ UNCHANGED <<rosterVars, claims, callVars>>

CreateInsert ==
    /\ ~loaded
    /\ \A k \in 2 .. Len(FirstSeats) :
          Human(FirstSeats[k]) => \E i \in DOMAIN rows : rows[i].number = k - 1
    /\ loaded' = TRUE
    /\ UNCHANGED <<status, participants, saved, rows, claims, callVars>>

\* Mutant: a seat that is taken.
OpenToHeld(n) ==
    Seated(n) /\ Human(Participant(n).seat) /\ Pending(n) = {}

\* invite_player_to_game's conditions on the seat.
Vacant(n) ==
    Seated(n) /\ Human(Participant(n).seat) /\ Participant(n).holder = Nobody
OpenTo(n) == Vacant(n) /\ Pending(n) = {}

\* The check and the insert are both made under the shared lock, which keeps
\* writers out but not another invite.
InviteCheck(r, n, invitee) ==
    /\ loaded /\ removing = {}
    /\ status = "Waiting"
    /\ \A c \in invites : c.request # r
    /\ Len(rows) + Cardinality(invites) < MaxRows
    /\ OpenTo(n)
    /\ invites' = invites \cup {[request |-> r, number |-> n, invitee |-> invitee]}
    /\ UNCHANGED <<rosterVars, rows, claims, accepts, rejects, removing>>

InviteInsert(c) ==
    /\ rows' = Append(rows, NewRow(Participant(c.number).seat, c.number, c.invitee))
    /\ invites' = invites \ {c}
    /\ UNCHANGED <<rosterVars, claims, accepts, rejects, removing>>

-----------------------------------------------------------------------------
(* accept_invitation: read the row, claim it, then claim the seat of the   *)
(* number it had when it was read.                                         *)

\* What claim_invitation asks of the row it has read.
Claimable(p, i) == rows[i].status = "pending" /\ rows[i].invitee \in {Nobody, p}

AcceptRead(p, i) ==
    /\ \A c \in accepts : c.player # p
    /\ Claimable(p, i)
    /\ accepts' = accepts \cup {[player |-> p, row |-> i,
                                 number |-> rows[i].number, claimed |-> FALSE]}
    /\ UNCHANGED <<rosterVars, rows, claims, invites, rejects, removing>>

\* Whether claim_invitation's update finds the row.
StillPending(i) == rows[i].status = "pending"

AcceptClaim(c) ==
    /\ ~c.claimed
    /\ IF StillPending(c.row)
       THEN /\ rows' = [rows EXCEPT
                          ![c.row].status = "accepted",
                          ![c.row].invitee = IF @ = Nobody THEN c.player ELSE @]
            /\ claims' = claims \cup {[row |-> c.row, player |-> c.player]}
            /\ accepts' = (accepts \ {c}) \cup {[c EXCEPT !.claimed = TRUE]}
       ELSE /\ accepts' = accepts \ {c}
            /\ UNCHANGED <<rows, claims>>
    /\ UNCHANGED <<rosterVars, invites, rejects, removing>>

\* GameSession::claim_seat: the first participant of that number, whatever
\* it is and whatever state the game is in.
ClaimSeat(n, p) ==
    participants' =
        [k \in DOMAIN participants |->
            IF /\ participants[k].number = n
               /\ \A j \in 1 .. k - 1 : participants[j].number # n
            THEN [participants[k] EXCEPT !.holder = p]
            ELSE participants[k]]

AcceptSeat(c) ==
    /\ c.claimed
    /\ Unlocked
    /\ IF loaded
       THEN ClaimSeat(c.number, c.player) /\ UNCHANGED status /\ Save
       ELSE UNCHANGED <<participants, status, saved>>
    /\ accepts' = accepts \ {c}
    /\ UNCHANGED <<loaded, rows, claims, invites, rejects, removing>>

\* reject_invitation: check, then an unconditional update.  The announcement
\* that follows saves a roster it has not changed.
RejectRead(p, i) ==
    /\ \A c \in rejects : c.player # p
    /\ rows[i].invitee = p
    /\ rows[i].status = "pending"
    /\ rejects' = rejects \cup {[player |-> p, row |-> i]}
    /\ UNCHANGED <<rosterVars, rows, claims, invites, accepts, removing>>

RejectWrite(c) ==
    /\ SetRow(c.row, "rejected")
    /\ rejects' = rejects \ {c}
    /\ UNCHANGED <<rosterVars, claims, invites, accepts, removing>>

-----------------------------------------------------------------------------
(* The roster.                                                             *)

\* add_seat: at the end, with nobody on it.
WithSeat(s) ==
    Append(participants, [seat |-> s, number |-> Len(participants), holder |-> Nobody])

AddSeat(s) ==
    /\ CanWrite /\ status = "Waiting"
    /\ s \notin Roster
    /\ \A i \in DOMAIN rows : rows[i].seat # s
    /\ participants' = WithSeat(s)
    /\ UNCHANGED <<status, loaded, rows, claims, callVars>>
    /\ Save

\* remove_seat's renumbering.
Renumbered(roster) ==
    [k \in DOMAIN roster |-> [roster[k] EXCEPT !.number = k - 1]]

\* The conditions of remove_seat_from_game, withdraw_from_seat and swap_seats.
MayRemove(n) ==
    CanWrite /\ status = "Waiting" /\ Seated(n) /\ Participant(n).holder # Creator
MayWithdraw(n) ==
    CanWrite /\ status = "Waiting" /\ Seated(n) /\ Participant(n).holder \notin {Nobody, Creator}
MaySwap(a, b) ==
    CanWrite /\ status = "Waiting" /\ Filled /\ Seated(a) /\ Seated(b)

\* remove_seat_from_game: the seat goes from memory and its pending row is
\* looked up; the row is cancelled; the rows of later seats are shifted; the
\* game is saved.  Four writes, no transaction round them, under the lock.
RemoveSeat(n) ==
    /\ MayRemove(n)
    /\ participants' = Renumbered(RemoveAt(participants, n + 1))
    /\ removing' = {[number |-> n, step |-> "cancel",
                     row |-> IF Pending(n) = {} THEN 0
                             ELSE CHOOSE i \in Pending(n) :
                                     \A j \in Pending(n) : i <= j]}
    /\ UNCHANGED <<status, loaded, saved, rows, claims, invites, accepts, rejects>>

RemoveCancel(c) ==
    /\ c.step = "cancel"
    /\ IF c.row = 0 THEN UNCHANGED rows ELSE SetRow(c.row, "cancelled")
    /\ removing' = {[c EXCEPT !.step = "shift"]}
    /\ UNCHANGED <<rosterVars, claims, invites, accepts, rejects>>

RemoveShift(c) ==
    /\ c.step = "shift"
    /\ rows' = Shifted(c.number)
    /\ removing' = {[c EXCEPT !.step = "save"]}
    /\ UNCHANGED <<rosterVars, claims, invites, accepts, rejects>>

RemoveSave(c) ==
    /\ c.step = "save"
    /\ UNCHANGED <<status, participants>>
    /\ Save
    /\ removing' = {}
    /\ UNCHANGED <<loaded, rows, claims, invites, accepts, rejects>>

\* withdraw_seat: its seat stays in the roster.
Vacated(n) == [participants EXCEPT ![n + 1].holder = Nobody]

\* withdraw_from_seat: the holder gives the seat back, and the newest
\* accepted row of that number becomes rejected.
Withdraw(n) ==
    /\ MayWithdraw(n)
    /\ participants' = Vacated(n)
    /\ LET accepted == {i \in DOMAIN rows :
                           rows[i].number = n /\ rows[i].status = "accepted"}
       IN  IF accepted = {}
           THEN UNCHANGED rows
           ELSE SetRow(CHOOSE i \in accepted : \A j \in accepted : i >= j,
                       "rejected")
    /\ UNCHANGED <<status, loaded, claims, callVars>>
    /\ Save

\* swap_seats: the occupants change places, the numbers stay; no row moves.
SwapSeats(a, b) ==
    /\ MaySwap(a, b)
    /\ participants' = [participants EXCEPT
                          ![a + 1] = [Participant(b) EXCEPT !.number = a],
                          ![b + 1] = [Participant(a) EXCEPT !.number = b]]
    /\ UNCHANGED <<status, loaded, rows, claims, callVars>>
    /\ Save

\* Mutant: the check that every human seat is taken is left to the client.
MayStartUnfilled == Len(participants) >= 2

MayStart == Len(participants) >= 2 /\ Filled

Start ==
    /\ CanWrite /\ status = "Waiting"
    /\ MayStart
    /\ status' = "Active"
    /\ UNCHANGED <<participants, loaded, rows, claims, callVars>>
    /\ Save

\* Aborted, ended by an administrator (also before it starts), or, once
\* active, played to its end.  None of these touches the invitations.
End ==
    /\ CanWrite
    /\ ~Over
    /\ status' \in {"Finished", "Aborted"}
    /\ UNCHANGED <<participants, loaded, rows, claims, callVars>>
    /\ Save

\* A database error, or the client going away, ends a call at an await: what
\* it has done so far stays done, in memory and in the database alike.
CallFails ==
    /\ \/ /\ removing # {} /\ removing' = {}
          /\ UNCHANGED <<invites, accepts, rejects>>
       \/ /\ \E c \in accepts : accepts' = accepts \ {c}
          /\ UNCHANGED <<invites, rejects, removing>>
       \/ /\ \E c \in rejects : rejects' = rejects \ {c}
          /\ UNCHANGED <<invites, accepts, removing>>
       \/ /\ \E c \in invites : invites' = invites \ {c}
          /\ UNCHANGED <<accepts, rejects, removing>>
    /\ UNCHANGED <<rosterVars, rows, claims>>

\* The process dies and restarts: calls under way are gone, and every game
\* is loaded from its snapshot.
Crash ==
    /\ status' = saved.status
    /\ participants' = saved.participants
    /\ loaded' = TRUE
    /\ invites' = {} /\ accepts' = {} /\ rejects' = {} /\ removing' = {}
    /\ UNCHANGED <<saved, rows, claims>>

-----------------------------------------------------------------------------
Numbers == 0 .. Cardinality(AllSeats) - 1
Invitees == (Players \ {Creator}) \cup {Nobody}

\* The steps of calls already under way.
Continue ==
    \/ CreateInvite \/ CreateInsert
    \/ \E c \in invites : InviteInsert(c)
    \/ \E c \in accepts : AcceptClaim(c) \/ AcceptSeat(c)
    \/ \E c \in rejects : RejectWrite(c)
    \/ \E c \in removing : RemoveCancel(c) \/ RemoveShift(c) \/ RemoveSave(c)

\* The first step of a call.
Begin ==
    \/ \E r \in Requests, n \in Numbers, who \in Invitees : InviteCheck(r, n, who)
    \/ \E p \in Players, i \in DOMAIN rows : AcceptRead(p, i) \/ RejectRead(p, i)
    \/ \E s \in SpareSeats : AddSeat(s)
    \/ \E n \in Numbers : RemoveSeat(n) \/ Withdraw(n)
    \/ \E a, b \in Numbers : SwapSeats(a, b)
    \/ Start
    \/ End

\* What the handlers do one at a time, to tell what only their overlapping,
\* a failure or a restart can break.
Quiet == loaded /\ invites = {} /\ accepts = {} /\ rejects = {} /\ removing = {}

Next ==
    \/ Continue /\ UNCHANGED alone
    \/ Begin /\ alone' = (alone /\ Quiet)
    \/ (CallFails \/ Crash) /\ alone' = FALSE

Spec == Init /\ [][Next]_vars

-----------------------------------------------------------------------------
(* Properties.                                                             *)

Statuses == {"Waiting", "Active", "Finished", "Aborted"}
Entry == [seat : AllSeats, number : Nat, holder : Players \cup {Nobody}]
Seating == Seq(Entry)
Row == [seat : AllSeats, number : Nat, invitee : Players \cup {Nobody},
        status : {"pending", "accepted", "rejected", "cancelled"}]

TypeOK ==
    /\ status \in Statuses
    /\ participants \in Seating
    /\ loaded \in BOOLEAN
    /\ saved \in [status : Statuses, participants : Seating]
    /\ rows \in Seq(Row)
    /\ claims \subseteq [row : DOMAIN rows, player : Players]
    /\ invites \subseteq [request : Requests, number : Nat,
                          invitee : Players \cup {Nobody}]
    /\ accepts \subseteq [player : Players, row : DOMAIN rows, number : Nat,
                          claimed : BOOLEAN]
    /\ rejects \subseteq [player : Players, row : DOMAIN rows]
    /\ alone \in BOOLEAN
    /\ removing \subseteq [number : Nat, row : 0 .. Len(rows),
                           step : {"cancel", "shift", "save"}]

\* participants[i].seat_number == i, "an invariant relied on throughout":
\* claim_seat looks a seat up by its number, everything else by its index.
Numbered == \A k \in DOMAIN participants : participants[k].number = k - 1

\* A game under way has at least two seats and a player on every human one,
\* whatever accepts, withdrawals, removals and crashes preceded the start.
PlayedGameIsFull == status = "Active" => Len(participants) >= 2 /\ Filled

\* A player only ever comes to sit on a seat that is free and that an
\* invitation they accepted was for, through every renumbering.  Calls that
\* overlap do break it: see SeatNotOverwritten.
SeatedByInvitation ==
    [][alone' =>
        \A s \in AllSeats :
          HolderOf(s)' \in Players \ {HolderOf(s)} =>
              /\ HolderOf(s) = Nobody
              /\ \E c \in claims : rows[c.row].seat = s /\ c.player = HolderOf(s)']_vars

\* Accepting never "silently overwrites the first claim": the player on a
\* seat is only ever replaced by nobody.
SeatNotOverwritten ==
    [][\A s \in AllSeats :
          HolderOf(s) # Nobody => HolderOf(s)' \in {HolderOf(s), Nobody}]_vars

\* The check "used to stop a seat from being double-invited while one invite
\* is still awaiting a response".
OnePendingPerSeat == \A n \in Numbers : Cardinality(Pending(n)) <= 1

\* Seats are numbered in order at all times; and once a removal is done, a
\* pending row carries the number its seat has, for calls that do not overlap.
PendingRowsFollowSeats ==
    /\ Numbered
    /\ alone => OnePendingPerSeat
    /\ alone /\ removing = {} =>
            \A i \in DOMAIN rows, k \in DOMAIN participants :
                rows[i].status = "pending" /\ rows[i].seat = participants[k].seat
                  => rows[i].number = k - 1

-----------------------------------------------------------------------------
(* The inductive invariant: the properties, with what they rest on.        *)

\* What is true of a roster, in memory and in the snapshot a restart loads.
Sound(st, roster) ==
    /\ \A k \in DOMAIN roster : roster[k].number = k - 1
    /\ \A j, k \in DOMAIN roster : roster[j].seat = roster[k].seat => j = k
    /\ st = "Active" =>
          /\ Len(roster) >= 2
          /\ \A k \in DOMAIN roster : Human(roster[k].seat) => roster[k].holder # Nobody

Rosters ==
    /\ Sound(status, participants) /\ Sound(saved.status, saved.participants)
    /\ ~loaded => status = "Waiting" /\ participants = FirstRoster

\* The lock: what an invite has checked of its seat holds until it inserts,
\* and there is one removal at a time.
Locked ==
    /\ \A c \in invites : Vacant(c.number)
    /\ invites # {} => removing = {}
    /\ \A c, d \in removing : c = d

\* No more than one call is under way while none has overlapped another.
OneCall ==
    alone =>
        /\ ~loaded => invites = {} /\ accepts = {} /\ rejects = {} /\ removing = {}
        /\ invites # {} => accepts = {} /\ rejects = {}
        /\ removing # {} => accepts = {} /\ rejects = {}
        /\ rejects # {} => accepts = {}
        /\ \A c, d \in invites : c = d
        /\ \A c, d \in accepts : c = d

\* Where the seat of a row's number is in the roster, which a removal changes
\* before the rows.
IndexOf(n) ==
    IF \E c \in removing : c.step # "save" /\ n > c.number THEN n ELSE n + 1

\* A pending row is for the free human seat of its number, but for the row a
\* removal has yet to cancel; and there is one to a number.
OffersFree(i) ==
    \/ \E c \in removing :
          c.step = "cancel" /\ c.row = i /\ rows[i].number = c.number
    \/ /\ \A c \in removing : c.step # "save" => rows[i].number # c.number
       /\ IndexOf(rows[i].number) \in DOMAIN participants
       /\ participants[IndexOf(rows[i].number)].seat = rows[i].seat
       /\ participants[IndexOf(rows[i].number)].holder = Nobody
       /\ Human(rows[i].seat)

Offered ==
    alone =>
        /\ \A i \in DOMAIN rows : rows[i].status = "pending" => OffersFree(i)
        /\ \A i, j \in DOMAIN rows :
              /\ rows[i].status = "pending" /\ rows[j].status = "pending"
              /\ rows[i].number = rows[j].number
              => i = j
        /\ \A c \in invites : Pending(c.number) = {}

\* What a player has claimed is a free seat that nothing else offers.
ClaimedIsFree(c) ==
    /\ Seated(c.number) /\ Participant(c.number).holder = Nobody
    /\ Participant(c.number).seat = rows[c.row].seat
    /\ [row |-> c.row, player |-> c.player] \in claims
    /\ Pending(c.number) = {}

Accepting ==
    alone => \A c \in accepts :
                 IF c.claimed THEN ClaimedIsFree(c) ELSE rows[c.row].number = c.number

IInv == TypeOK /\ Rosters /\ Locked /\ OneCall /\ Offered /\ Accepting

=============================================================================
