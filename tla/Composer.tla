------------------------------ MODULE Composer ------------------------------
(***************************************************************************)
(* Composing a move in the client (ui/src/app.rs, rack_view.rs,            *)
(* board_view.rs and the key handler of home.rs): tiles staged by mouse    *)
(* and by keyboard, the cursor and its direction, the exchange mode, the   *)
(* order of the rack, and the requests that end a turn.                    *)
(*                                                                         *)
(* Each handler is one action and ends with a render, which the data       *)
(* derived there are part of.  Meanwhile the game moves on: its updates    *)
(* come by the socket, and the answers of requests later or never.  Which  *)
(* update is shown is decided in module Screen, and what a move does in    *)
(* GameSession and Rules: here any later state of the game may appear, and *)
(* an answer at any time after its request.                                *)
(***************************************************************************)
EXTENDS Integers, Sequences, FiniteSets, SequencesExt

CONSTANTS
    Width, Height,  \* BOARD_WIDTH and BOARD_HEIGHT
    Letters,
    Blank,          \* the tile without a letter, last on a rack
    Racks,          \* the racks the player may hold
    Boards,         \* the sets of cells filled in the course of the game
    Nothing         \* no cell, tile, letter or direction

Cells == 0..(Width * Height - 1)
X(c) == c % Width
Y(c) == c \div Width
Directions == {"h", "v"}

ASSUME ComposerAssumption ==
    /\ {Width, Height} \subseteq Nat \ {0}
    /\ Blank \notin Letters /\ Nothing \notin Nat /\ Nothing \notin Letters \cup Directions
    /\ Racks \subseteq Seq(Letters \cup {Blank}) /\ Boards \subseteq SUBSET Cells

VARIABLES
    position,   \* signal game: cells filled, the player's rack, whether it is his turn
    staged,     \* staged_placements: records of cell, tile id, and letter as staged
    selected,   \* selected_cell
    override,   \* direction_override
    exchanging, \* exchange_mode
    marked,     \* exchange_selected
    order,      \* rack_order: the ids in the order they are displayed
    drag,       \* dragging_tile_id and dragging_from_board_index
    held,       \* what the mouse drags: a cell's tile, a rack's tile or nothing
    waiting     \* whether the answer to a request of this player is outstanding

composerVars == <<position, staged, selected, override, exchanging, marked, order, drag, held, waiting>>
mouse == <<drag, held>>
mode == <<exchanging, marked>>
remote == <<position, waiting>>

NoDrag == [id |-> Nothing, from |-> Nothing]

-----------------------------------------------------------------------------
\* Derived from the signals in each render.

CanSubmit == position.mine                 \* can_submit_human_action
CanStage == CanSubmit /\ ~exchanging    \* can_stage_moves
Taken(c) == \E s \in staged : s.cell = c
Used(id) == \E s \in staged : s.id = id
RackIds == 1..Len(position.rack)
\* current_rack_tiles: those of the seat on turn, which are hidden if it is
\* another player's.
TurnIds == IF position.mine THEN RackIds ELSE {}

\* step_index and step_index_wrapping.
Step(c, d, n) == c + n * (IF d = "h" THEN 1 ELSE Width)
Inside(c, d, n) ==
    IF d = "h" THEN X(c) + n \in 0..(Width - 1) ELSE Y(c) + n \in 0..(Height - 1)
StepWrapping(c, d, n) ==
    IF d = "h" THEN Y(c) * Width + ((X(c) + n + Width) % Width)
    ELSE (((Y(c) + n + Height) % Height) * Width) + X(c)

\* The nearest cell from c in steps of n that satisfies the test, or Nothing.
Nearest(c, d, n, ok) ==
    LET far == {k \in 1..(Width + Height) : Inside(c, d, k * n) /\ Step(c, d, k * n) \in ok}
    IN IF far = {} THEN Nothing
       ELSE Step(c, d, n * (CHOOSE k \in far : \A l \in far : k <= l))

Free(st) == Cells \ (position.board \cup {s.cell : s \in st})
\* find_next_placeable_cell.
NextPlaceable(st, c, d) == Nearest(c, d, 1, Free(st))
\* Mutant: tiles staged before are skipped as well.
PreviousPlaceable(st, c, d) == Nearest(c, d, -1, Free(st))
\* find_previous_editable_cell: only letters played before are skipped.
PreviousEditable(st, c, d) == Nearest(c, d, -1, Cells \ position.board)

\* find_next_placeable_cell_wrapping: one lap at most.
NextWrapping(c, d, n) ==
    LET lap == 1..((IF d = "h" THEN Width ELSE Height) - 1)
        at(k) == StepWrapping(c, d, k * n)
        free == {k \in lap : at(k) \in Free(staged)}
    IN IF free = {} THEN c ELSE at(CHOOSE k \in free : \A l \in free : k <= l)

\* infer_single_tile_direction: along the letters beside the cell, if those are
\* on one axis only.
BesideFilled(c, d) == \E n \in {-1, 1} : Inside(c, d, n) /\ Step(c, d, n) \in position.board
Beside(c, hint) ==
    IF BesideFilled(c, "h") = BesideFilled(c, "v") THEN hint
    ELSE IF BesideFilled(c, "h") THEN "h" ELSE "v"

\* aligned_direction.
Aligned(c, o) ==
    CASE o = Nothing \/ c = o -> Nothing
      [] X(c) = X(o) -> "v"
      [] Y(c) = Y(o) -> "h"
      [] OTHER -> Nothing

\* infer_typing_direction.
SameRow(cs) == \A c, e \in cs : Y(c) = Y(e)
SameColumn(cs) == \A c, e \in cs : X(c) = X(e)
Reading(st, sel) ==
    LET cells == {s.cell : s \in st}
    IN IF st = {} THEN "h"
       ELSE IF Cardinality(st) > 1 THEN (IF SameRow(cells) THEN "h" ELSE "v")
       ELSE LET c == CHOOSE s \in cells : TRUE
            IN IF Aligned(c, sel) # Nothing THEN Aligned(c, sel)
               ELSE Beside(c, IF override = Nothing THEN "h" ELSE override)

\* advance_selection: where the cursor goes after a tile is staged at c.
Advanced(st, c) ==
    LET next == NextPlaceable(st, c, Reading(st, c))
    IN IF next = Nothing THEN c ELSE next

\* on_backspace: the cell it empties, with the cursor at c.
BackspaceTarget(st, c) ==
    IF \E s \in st : s.cell = c THEN c ELSE PreviousEditable(st, c, Reading(st, c))

\* stage_tile_at_cell.
Placement(c, id, letter) ==
    LET tile == position.rack[id]
    IN [cell |-> c, id |-> id, blank |-> tile = Blank,
        letter |-> IF tile = Blank THEN letter ELSE tile]

-----------------------------------------------------------------------------
\* The keyboard and the mouse.  The browser sends neither keys nor clicks
\* while a drag is under way.

Idle == held = NoDrag
Typing == Idle /\ CanStage /\ selected # Nothing

\* A staged tile that is clicked goes back to the rack, whatever the mode.
RemoveStaged(c) ==
    /\ Idle /\ Taken(c)
    /\ staged' = {s \in staged : s.cell # c} /\ selected' = c
    /\ UNCHANGED <<remote, override, mode, order, mouse>>

SelectCell(c) ==
    /\ Idle /\ CanStage /\ c \in Free(staged)
    /\ selected' = c
    /\ UNCHANGED <<remote, staged, override, mode, order, mouse>>

\* Arrow keys, with or without a modifier.
MoveSelection(d, n, onto) ==
    /\ Typing
    /\ selected' = IF onto THEN StepWrapping(selected, d, n) ELSE NextWrapping(selected, d, n)
    /\ UNCHANGED <<remote, staged, override, mode, order, mouse>>

\* A tile of the rack is clicked: taken back, or put at the cursor.
TakeBack(id) ==
    /\ Idle /\ CanStage /\ Used(id)
    /\ \E s \in staged : s.id = id /\ selected' = s.cell
    /\ staged' = {s \in staged : s.id # id}
    /\ UNCHANGED <<remote, override, mode, order, mouse>>

PutAt(c, id, letter) ==
    LET st == staged \cup {Placement(c, id, letter)}
    IN staged' = st /\ selected' = Advanced(st, c)

ClickTile(id) ==
    /\ Typing /\ ~Used(id) /\ selected \in Free(staged)
    /\ PutAt(selected, id, Nothing)
    /\ UNCHANGED <<remote, override, mode, order, mouse>>

\* The first unused tile of the letter typed, or the first unused blank.
Chosen(letter) ==
    LET exact == {id \in TurnIds : ~Used(id) /\ position.rack[id] = letter}
        blanks == {id \in TurnIds : ~Used(id) /\ position.rack[id] = Blank}
    IN IF exact # {} THEN exact ELSE blanks

TypeLetter(letter) ==
    /\ Typing /\ selected \in Free(staged)
    /\ \E id \in Chosen(letter) :
         (\A o \in Chosen(letter) : id <= o) /\ PutAt(selected, id, letter)
    /\ UNCHANGED <<remote, override, mode, order, mouse>>

Backspace ==
    /\ Typing
    /\ LET target == BackspaceTarget(staged, selected)
       IN /\ target # Nothing
          /\ staged' = {s \in staged : s.cell # target} /\ selected' = target
    /\ UNCHANGED <<remote, override, mode, order, mouse>>

Delete ==
    /\ Typing /\ Taken(selected)
    /\ staged' = {s \in staged : s.cell # selected}
    /\ UNCHANGED <<remote, selected, override, mode, order, mouse>>

\* The picker names the letter of a blank that has none yet.
SetBlankLetter(letter) ==
    /\ Idle
    /\ \E s \in staged :
         /\ s.blank /\ s.letter = Nothing
         /\ staged' = (staged \ {s}) \cup {[s EXCEPT !.letter = letter]}
    /\ UNCHANGED <<remote, selected, override, mode, order, mouse>>

ClearStaged ==
    /\ Idle /\ staged # {}
    /\ staged' = {} /\ selected' = Nothing /\ override' = Nothing
    /\ drag' = [drag EXCEPT !.id = Nothing]
    /\ UNCHANGED <<remote, mode, order, held>>

\* toggle_direction_override: the space bar needs a cursor, the button does not.
ToggleDirection ==
    /\ Idle /\ Cardinality(staged) = 1
    /\ override' = IF Reading(staged, selected) = "h" THEN "v" ELSE "h"
    /\ selected' = NextPlaceable(staged, (CHOOSE s \in staged : TRUE).cell, override')
    /\ UNCHANGED <<remote, staged, mode, order, mouse>>

-----------------------------------------------------------------------------
\* Drag and drop.  A drop is followed by the end of the drag.

DragTile(id) ==
    /\ Idle /\ CanStage /\ id \in RackIds /\ ~Used(id)
    /\ drag' = [id |-> id, from |-> Nothing] /\ held' = drag'
    /\ UNCHANGED <<remote, staged, selected, override, mode, order>>

DragStaged(c) ==
    /\ Idle /\ CanStage
    /\ \E s \in staged : s.cell = c /\ drag' = [id |-> s.id, from |-> c]
    /\ held' = drag'
    /\ UNCHANGED <<remote, staged, selected, override, mode, order>>

\* Mutant: only letters played before keep a tile off a cell.
DropFitsBoard(c) == c \notin position.board
\* The opposite of target_is_taken.
DropFits(c) == c \in Free(staged)

\* on_drop_board_cell: refused on a cell that is taken, a move of a staged
\* tile, or a new one from the rack.
DropOnCell(c) ==
    /\ held # NoDrag /\ CanStage
    /\ \/ /\ ~DropFits(c)
          /\ drag' = NoDrag /\ UNCHANGED <<staged, selected>>
       \/ /\ DropFits(c) /\ drag.id # Nothing /\ drag.from # Nothing
          /\ staged' = {IF s.cell = drag.from /\ s.id = drag.id THEN [s EXCEPT !.cell = c] ELSE s
                          : s \in staged}
          /\ drag' = NoDrag /\ UNCHANGED selected
       \/ /\ DropFits(c) /\ drag.id # Nothing /\ drag.from = Nothing
          /\ IF drag.id \in TurnIds THEN PutAt(c, drag.id, Nothing) ELSE UNCHANGED <<staged, selected>>
          /\ drag' = [drag EXCEPT !.id = Nothing]
    /\ UNCHANGED <<remote, override, mode, order, held>>

\* reorder_rack_order: to the place before the target, or its own if that is
\* further left.
Reordered(dragged, target) ==
    LET at(id) == CHOOSE i \in DOMAIN order : order[i] = id
        to == IF at(dragged) < at(target) THEN at(target) - 1 ELSE at(target)
    IN IF dragged = target \/ ~{dragged, target} \subseteq ToSet(order) THEN order
       ELSE InsertAt(RemoveAt(order, at(dragged)), to, dragged)

DropOnTile(id) ==
    /\ held # NoDrag /\ id \in RackIds
    /\ drag.from = Nothing /\ drag.id # Nothing
    /\ order' = Reordered(drag.id, id) /\ drag' = [drag EXCEPT !.id = Nothing]
    /\ UNCHANGED <<remote, staged, selected, override, mode, held>>

\* on_drag_end: a staged tile that nothing claimed goes back to the rack.
DragEnd ==
    /\ held # NoDrag /\ held' = NoDrag
    /\ IF held.from = Nothing
       THEN drag' = [drag EXCEPT !.id = Nothing] /\ UNCHANGED <<staged, selected>>
       ELSE IF Taken(held.from) /\ CanStage /\ drag.from = held.from
       THEN /\ staged' = {s \in staged : s.cell # held.from}
            /\ selected' = held.from /\ drag' = NoDrag
       ELSE UNCHANGED <<staged, selected, drag>>
    /\ UNCHANGED <<remote, override, mode, order>>

\* The Shuffle button.
Shuffle ==
    /\ Idle /\ order' \in SetToSeqs(ToSet(order))
    /\ UNCHANGED <<remote, staged, selected, override, mode, mouse>>

-----------------------------------------------------------------------------
\* Exchanging.  The buttons are disabled by is_loading, which any request that
\* ends clears, so this is not relied on.

\* reset_composer_state, which leaves dragging_from_board_index as it is.
Reset ==
    /\ staged' = {} /\ selected' = Nothing /\ override' = Nothing /\ marked' = {}
    /\ drag' = [drag EXCEPT !.id = Nothing]

\* on_toggle_exchange_mode.
EnterExchange ==
    /\ Idle /\ CanStage
    /\ Reset /\ exchanging' = TRUE
    /\ UNCHANGED <<remote, order, held>>

LeaveExchange ==
    /\ Idle /\ exchanging
    /\ exchanging' = FALSE /\ marked' = {}
    /\ UNCHANGED <<remote, staged, selected, override, order, mouse>>

MarkTile(id) ==
    /\ Idle /\ exchanging /\ id \in RackIds /\ ~Used(id)
    /\ marked' = IF id \in marked THEN marked \ {id} ELSE marked \cup {id}
    /\ UNCHANGED <<remote, staged, selected, override, exchanging, order, mouse>>

-----------------------------------------------------------------------------
\* Requests.

\* Mutant: offsets count from the left or upper edge.
CandidateFromEdge(st, hint) ==
    LET cells == {s.cell : s \in st}
        d == IF Cardinality(st) = 1 THEN Beside(CHOOSE c \in cells : TRUE, hint)
             ELSE IF SameRow(cells) THEN "h" ELSE "v"
        start == CHOOSE c \in cells : \A e \in cells : c <= e
    IN [start |-> start, direction |-> d,
        tiles |-> {[offset |-> IF d = "h" THEN X(s.cell) ELSE Y(s.cell), tile |-> s] : s \in st}]

\* build_manual_move_request, for tiles in one row or column.
InLine(st) == LET cells == {s.cell : s \in st} IN SameRow(cells) \/ SameColumn(cells)
Candidate(st, hint) ==
    LET cells == {s.cell : s \in st}
        d == IF Cardinality(st) = 1 THEN Beside(CHOOSE c \in cells : TRUE, hint)
             ELSE IF SameRow(cells) THEN "h" ELSE "v"
        start == CHOOSE c \in cells : \A e \in cells : c <= e
        along(c) == IF d = "h" THEN X(c) - X(start) ELSE Y(c) - Y(start)
    IN [start |-> start, direction |-> d,
        tiles |-> {[offset |-> along(s.cell), tile |-> s] : s \in st}]

\* Where the server finds a candidate's tiles.
Decoded(m) == {[t.tile EXCEPT !.cell = Step(m.start, m.direction, t.offset)] : t \in m.tiles}

\* The requests that end a turn; to place, also by the Enter key and while
\* another request is in flight.
SendTurn == waiting' = TRUE /\ UNCHANGED <<position, staged, selected, override, mode, order, mouse>>
Submit == Idle /\ CanStage /\ staged # {} /\ InLine(staged) /\ SendTurn
Pass == Idle /\ CanStage /\ SendTurn
ConfirmExchange == Idle /\ exchanging /\ marked # {} /\ SendTurn

\* The render that shows another number of tiles renews the order.
Ordered(rack) == IF Len(rack) # Len(order) THEN [i \in DOMAIN rack |-> i] ELSE order
Show(g) == position' = g /\ order' = Ordered(g.rack)

\* A later state of the game comes by the socket.
UpdateComes ==
    /\ \E board \in Boards, rack \in Racks, mine \in BOOLEAN :
         /\ position.board \subseteq board
         /\ Show([board |-> board, rack |-> rack, mine |-> mine])
    /\ UNCHANGED <<staged, selected, override, mode, mouse, waiting>>

\* An answer resets the composer and shows its game, unless a newer one is on
\* screen by now.
AnswerComes ==
    /\ waiting /\ waiting' \in BOOLEAN
    /\ Reset /\ exchanging' = FALSE
    /\ \/ UNCHANGED <<position, order>>
       \/ \E board \in Boards, rack \in Racks, mine \in BOOLEAN :
            /\ position.board \subseteq board
            /\ Show([board |-> board, rack |-> rack, mine |-> mine])
    /\ UNCHANGED held

\* Refused, or the answer is lost: everything stays as it is.
Fail == waiting /\ waiting' = FALSE /\ UNCHANGED <<position, staged, selected, override, mode, order, mouse>>

-----------------------------------------------------------------------------
ComposerInit ==
    /\ \E board \in Boards, rack \in Racks, mine \in BOOLEAN :
         /\ position = [board |-> board, rack |-> rack, mine |-> mine]
         /\ order = [i \in DOMAIN rack |-> i]
    /\ staged = {} /\ selected = Nothing /\ override = Nothing
    /\ exchanging = FALSE /\ marked = {} /\ drag = NoDrag /\ held = NoDrag
    /\ waiting = FALSE

Keys ==
    \/ \E d \in Directions, n \in {-1, 1}, onto \in BOOLEAN : MoveSelection(d, n, onto)
    \/ \E l \in Letters : TypeLetter(l) \/ SetBlankLetter(l)
    \/ Backspace \/ Delete \/ ClearStaged \/ ToggleDirection \/ Shuffle
OnBoard == \E c \in Cells : RemoveStaged(c) \/ SelectCell(c) \/ DragStaged(c) \/ DropOnCell(c)
OnRack ==
    \/ \E id \in RackIds : TakeBack(id) \/ ClickTile(id) \/ DragTile(id) \/ DropOnTile(id)
                           \/ MarkTile(id)
    \/ EnterExchange \/ LeaveExchange
Mouse == OnBoard \/ OnRack \/ DragEnd
Turns == Submit \/ Pass \/ ConfirmExchange \/ UpdateComes \/ AnswerComes \/ Fail
ComposerNext == Keys \/ Mouse \/ Turns

ComposerSpec == ComposerInit /\ [][ComposerNext]_composerVars

-----------------------------------------------------------------------------
\* Properties.

\* The composition is one that the game on screen can take: free cells, one
\* tile on each, every tile once and as it is on the rack.
StagedFits ==
    /\ \A s \in staged :
         /\ s.cell \notin position.board /\ s.id \in RackIds
         /\ s.blank = (position.rack[s.id] = Blank) /\ (~s.blank => s.letter = position.rack[s.id])
    /\ \A s, t \in staged : s.cell = t.cell \/ s.id = t.id => s = t

\* While tiles are being marked for exchange nothing is staged, and nothing is
\* marked otherwise.
ExchangeOrPlace == IF exchanging THEN staged = {} ELSE marked = {}

\* The rack is displayed with every tile once, whatever was shuffled, dragged,
\* drawn or exchanged.
RackIsWhole == ToSet(order) = RackIds /\ Len(order) = Len(position.rack)

\* No key, click or drop spoils a composition that fits, in whatever order
\* they come; only a new state of the game can, and not even that sets aside
\* that "placing and exchanging are mutually exclusive for a turn", nor the
\* whole of the rack.
HandlersKeepFit ==
    [][(StagedFits /\ position' = position => StagedFits') /\ ExchangeOrPlace' /\ RackIsWhole']_composerVars

\* A request to place says by its start, direction and offsets what is staged,
\* whichever way the cursor makes the word read.
RequestIsStaged ==
    staged # {} /\ InLine(staged) => Decoded(Candidate(staged, Reading(staged, selected))) = staged

\* After a tile has been staged at the cursor and the cursor has moved on,
\* Backspace meets a staged tile and takes back exactly one, in any arrangement.
TypingIsUndone ==
    Typing /\ selected \in Free(staged) =>
        \A id \in {i \in TurnIds : ~Used(i)} :
            LET st == staged \cup {Placement(selected, id, Nothing)}
            IN \E s \in st : s.cell = BackspaceTarget(st, Advanced(st, selected))

-----------------------------------------------------------------------------
\* The inductive invariant.

Tiles == [cell : Cells, id : Nat, blank : BOOLEAN, letter : Letters \cup {Nothing}]
Drags == [id : Nat \cup {Nothing}, from : Cells \cup {Nothing}]

ComposerTypeOK ==
    /\ position \in [board : Boards, rack : Racks, mine : BOOLEAN]
    /\ staged \subseteq Tiles /\ IsFiniteSet(staged)
    /\ selected \in Cells \cup {Nothing} /\ override \in Directions \cup {Nothing}
    /\ exchanging \in BOOLEAN /\ order \in Seq(Nat)
    /\ {drag, held} \subseteq Drags

\* A tile dragged off the rack is not staged before it is dropped.
DraggedIsUnused ==
    drag.id # Nothing /\ drag.from = Nothing =>
        held # NoDrag /\ held.from = Nothing /\ ~Used(drag.id)

ComposerInv == ComposerTypeOK /\ ExchangeOrPlace /\ RackIsWhole /\ DraggedIsUnused
=============================================================================
