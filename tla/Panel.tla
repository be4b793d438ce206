-------------------------------- MODULE Panel --------------------------------
(***************************************************************************)
(* What the games panel offers for a game that has not begun (game_row and *)
(* player_table of ui/src/components/games_panel.rs, and the list_games    *)
(* handler its rows come from), and the page behind a mailed link, while   *)
(* they show the roster and the invitations of module Lobby as they are.   *)
(*                                                                         *)
(* The panel decides with conditions of its own, "mirrors" of the server's. *)
(* What each button asks for is an action of Lobby, with the handler's own *)
(* conditions.  Messages, scores and the texts are left out.               *)
(***************************************************************************)
EXTENDS Lobby, Draft

\* resolve_viewer_access: a seat comes before having made the game.
Access(p) ==
    IF \E k \in DOMAIN participants : participants[k].holder = p THEN "Participant"
    ELSE IF p = Creator THEN "Creator" ELSE "Rejected"

\* Mutant: an invitation once rejected is what the seat shows from then on.
StatusByRejection(n) ==
    LET history == {rows[i].status : i \in {j \in DOMAIN rows : rows[j].number = n}}
    IN  IF "rejected" \in history THEN "Rejected"
        ELSE IF "pending" \in history THEN "Pending" ELSE "NotSent"

\* attach_invitation_status: the status of an unclaimed human seat is that of
\* the newest row with its number.
InvitationStatus(n) ==
    LET history == {i \in DOMAIN rows : rows[i].number = n}
        latest == rows[CHOOSE i \in history : \A j \in history : i >= j].status
    IN  CASE history # {} /\ latest = "pending" -> "Pending"
          [] history # {} /\ latest = "rejected" -> "Rejected"
          [] OTHER -> "NotSent"

\* is_ready_to_start.
IsReadyToStart ==
    \A k \in DOMAIN participants :
        participants[k].seat \in Engines \/ participants[k].holder # Nobody

\* can_reorder, and the start button's condition.
CanReorder(p) == status = "Waiting" /\ IsReadyToStart /\ p = Creator

LastSeat == Len(participants) - 1
Offer(what, n, m) == [what |-> what, seat |-> n, other |-> m]

\* player_table's manage cell: the creator may remove any seat but their own
\* and send the invitations that are not under way; a player may withdraw.
Manage(p, n) ==
    LET holder == Participant(n).holder
        unclaimed == Human(Participant(n).seat) /\ holder = Nobody
    IN  {o \in {Offer("send", n, n), Offer("remove", n, n), Offer("withdraw", n, n)} :
            CASE o.what = "send" ->
                    /\ p = Creator /\ holder # Creator
                    /\ unclaimed /\ InvitationStatus(n) # "Pending"
              [] o.what = "remove" -> p = Creator /\ holder # Creator
              [] o.what = "withdraw" -> p = holder /\ holder # Creator}

\* The arrows beside a seat.
Arrows(n) ==
    {Offer("swap", n, m) : m \in {m \in 0 .. LastSeat : m = n - 1 \/ m = n + 1}}

\* game_row: the page of a game is shown to whoever may see it.
Offers(p) ==
    IF Access(p) = "Rejected" THEN {}
    ELSE (IF status # "Waiting" THEN {} ELSE UNION {Manage(p, n) : n \in 0 .. LastSeat})
           \cup (IF CanReorder(p) THEN UNION {Arrows(n) : n \in 0 .. LastSeat} ELSE {})
           \cup (IF CanReorder(p) THEN {Offer("start", 0, 0)} ELSE {})
           \cup (IF p = Creator /\ ~Over THEN {Offer("abort", 0, 0)} ELSE {})

-----------------------------------------------------------------------------
\* The list of a player who is not seated: the queries of list_games, which
\* name no order, so any of their rows may be the one shown, and what it
\* makes of them.  A row without an invitee stands for a mailed one as well.
NamedFor(p) == {i \in DOMAIN rows : rows[i].status = "pending" /\ rows[i].invitee = p}
OpenToAll == {i \in DOMAIN rows : rows[i].status = "pending" /\ rows[i].invitee = Nobody}

Relationship(p) ==
    IF Access(p) = "Participant" THEN "Participant"
    ELSE IF NamedFor(p) # {} THEN "InvitedByName"
    ELSE IF OpenToAll # {} THEN "InvitedOpen"
    ELSE IF p = Creator THEN "Creator" ELSE "Unlisted"

\* The buttons of an invitation's row.
RowOffers(p) ==
    CASE Relationship(p) = "InvitedByName" ->
            {Offer(what, i, i) : what \in {"accept", "reject"}, i \in NamedFor(p)}
      [] Relationship(p) = "InvitedOpen" -> {Offer("accept", i, i) : i \in OpenToAll}
      [] OTHER -> {}

\* preview_invitation, and the page it is for: whoever is signed in there is
\* offered the mailed invitation, seated already or not.
Preview(i) == rows[i].status
LinkOffers ==
    {Offer("accept", i, i) :
        i \in {i \in DOMAIN rows : rows[i].invitee = Nobody /\ Preview(i) = "pending"}}

\* Accepting puts the player on a seat nobody has, also of a game that is over.
\* Calls that overlap break that: see SeatNotOverwritten.
InvitationIsGood(p, i) == Claimable(p, i) /\ (alone => Vacant(rows[i].number))

\* caller_may_manage_game: every game of the model knows who made it.
MayManage(p) == p = Creator

\* Whether the handler would do it for p.  (InviteCheck is further bounded by the
\* number of rows.)
Accepted(p, o) ==
    CASE o.what = "accept"   -> InvitationIsGood(p, o.seat)
      [] o.what = "reject"   -> rows[o.seat].invitee = p
      [] o.what = "send"     -> MayManage(p) /\ status = "Waiting" /\ OpenTo(o.seat)
      [] o.what = "remove"   -> MayManage(p) /\ MayRemove(o.seat)
      [] o.what = "withdraw" -> Participant(o.seat).holder = p /\ MayWithdraw(o.seat)
      [] o.what = "swap"     -> MayManage(p) /\ MaySwap(o.seat, o.other)
      [] o.what = "start"    -> MayManage(p) /\ CanWrite /\ status = "Waiting" /\ MayStart
      [] o.what = "abort"    -> MayManage(p) /\ CanWrite /\ ~Over

\* A seat whose number no other seat's invitations carry: only a removal that
\* moved the seat to it leaves answered rows of another there.
OwnHistory(n) ==
    \A i \in DOMAIN rows : rows[i].number = n => rows[i].seat = Participant(n).seat

-----------------------------------------------------------------------------
\* A page that shows the game as it is offers nothing the server would refuse,
\* and no invitation to a seat that is not free.  Two offers are refused all
\* the same: to start a game whose other seats have been removed, and to send
\* an invitation for a seat that has moved to the number of one whose last
\* invitation is over.
OffersAreAccepted ==
    Unlocked /\ loaded =>
        \A p \in Players : \A o \in Offers(p) \cup RowOffers(p) \cup LinkOffers :
            \/ Accepted(p, o)
            \/ o.what = "start" /\ Len(participants) < 2
            \/ o.what = "send" /\ ~(OwnHistory(o.seat) /\ alone)

\* However the form of a new game was edited, the game asked for is the one in
\* the table (build_seats) and the server does not refuse it (create_game), and
\* a seat added later is offered to whom the form said (on_send_invitation).
\* Looked at once, before the first step.
SubmittedAsShown ==
    rows = << >> /\ ~loaded =>
        /\ \A kind \in NeedsName \cup {"open", "engine"}, name \in FormNames :
              SendReachesTheAsked(kind, name, FormPlayers)
        /\ \A d \in Drafts[MaxEdits] :
              /\ MovesAreLocal(d)
              /\ CanSubmit(d) => RequestFollowsTable(d) /\ ServerTakesIt(d)
=============================================================================
