------------------------- MODULE GameSession_proofs -------------------------
(* Theorems about GameSession, for every number of seats and tiles.        *)
EXTENDS GameSession, WellFoundedInduction, FiniteSetTheorems, TLAPS

-----------------------------------------------------------------------------
(* The helper operators.                                                   *)

\* Some seat still playing is the nearest one clockwise, so the search of
\* advance_turn terminates on it.
LEMMA NextSeatNearest ==
    ASSUME NEW s \in Seats, NEW out \in [Seats -> BOOLEAN],
           Remaining(out) # {}
    PROVE  /\ NextSeat(s, out) \in Remaining(out)
           /\ \A t \in Remaining(out) :
                 Distance(s, NextSeat(s, out)) <= Distance(s, t)
<1> DEFINE D == {Distance(s, t) : t \in Remaining(out)}
<1>1. D \in SUBSET Nat
  BY SeatsAssumption DEF Distance, Remaining, Seats
<1>2. D # {}
  OBVIOUS
<1>3. PICK d \in D : \A e \in D : d <= e
  <2>1. PICK d \in D : \A e \in D : ~(<<e, d>> \in OpToRel(<, Nat))
    BY <1>1, <1>2, NatLessThanWellFounded, WFMin
  <2>2. \A e \in D : <<e, d>> \in OpToRel(<, Nat) <=> e < d
    BY <1>1 DEF OpToRel
  <2>3. \A e \in D : ~(e < d)
    BY <2>1, <2>2, Zenon
  <2> QED
    BY <1>1, <2>3
<1>4. PICK n \in Remaining(out) : d = Distance(s, n)
  OBVIOUS
<1>5. \A t \in Remaining(out) : Distance(s, n) <= Distance(s, t)
  BY <1>3, <1>4
<1> QED
  BY <1>5 DEF NextSeat

\* With two seats left the turn can be handed on.
LEMMA NextSeatPlays ==
    ASSUME NEW s \in Seats, NEW out \in [Seats -> BOOLEAN], ~FewLeft(out)
    PROVE  NextSeat(s, out) \in Seats /\ ~out[NextSeat(s, out)]
<1>1. Remaining(out) # {}
  BY DEF FewLeft
<1> QED
  BY <1>1, NextSeatNearest DEF Remaining

LEMMA LastStandingType ==
    ASSUME NEW out \in [Seats -> BOOLEAN]
    PROVE  LastStanding(out) \in Seats \cup {NoSeat}
  BY DEF LastStanding, Remaining

LEMMA WinnerSeatType ==
    ASSUME NEW out \in [Seats -> BOOLEAN], NEW final
    PROVE  WinnerSeat(out, final) \in Remaining(out) \cup {NoSeat}
  BY DEF WinnerSeat

LEMMA NoSeatIsNoSeat == NoSeat \notin Seats
  BY SeatsAssumption DEF NoSeat, Seats

\* Final scores are numbers.
LEMMA FinalScoresType ==
    ASSUME NEW racks \in [Seats -> SUBSET Tiles],
           NEW scores \in [Seats -> Int], NEW goer
    PROVE  /\ FinalScores(racks, scores, goer) \in [Seats -> Int]
           /\ OpponentsTotal(racks, goer) \in Nat
<1>1. OpponentsTotal(racks, goer) \in Nat
  <2>1. UNION {racks[s] : s \in Seats \ {goer}} \in SUBSET Tiles
    OBVIOUS
  <2> QED
    BY <2>1, ValueAssumption DEF OpponentsTotal
<1>2. \A s \in Seats : RackValue[racks[s]] \in Nat
  BY ValueAssumption
<1> QED
  BY <1>1, <1>2 DEF FinalScores

-----------------------------------------------------------------------------
(* The parts of the actions that several of them share.                    *)

\* What any exit does to the turn order keeps it well typed and playable.
LEMMA ExitKeepsTurn ==
    ASSUME TypeOK, status = "Active", NEW s \in Seats,
           NEW out \in [Seats -> BOOLEAN],
           s # current => ~out[current],
           HandleSeatExit(s, out)
    PROVE  /\ status' \in {"Active", "Finished"}
           /\ current' \in Seats
           /\ turn' \in Nat
           /\ winner' \in Seats \cup {NoSeat}
           /\ status' = "Active" =>
                 ~out[current'] /\ ~FewLeft(out) /\ winner' = winner
           /\ status' = "Finished" =>
                 FewLeft(out) /\ winner' = LastStanding(out)
<1>1. CASE FewLeft(out)
  BY <1>1, LastStandingType
     DEF HandleSeatExit, FinishLastStanding, TypeOK
<1>2. CASE ~FewLeft(out) /\ s = current
  BY <1>2, NextSeatPlays DEF HandleSeatExit, AdvanceTurn, TypeOK
<1>3. CASE ~FewLeft(out) /\ s # current
  BY <1>3 DEF HandleSeatExit, turnVars, TypeOK
<1> QED
  BY <1>1, <1>2, <1>3

\* Handing on the turn after a move, nobody having left.
LEMMA AdvanceKeepsTurn ==
    ASSUME TypeOK, TurnIsPlayable, status = "Active", AdvanceTurn(resigned)
    PROVE  /\ status' = "Active"
           /\ current' \in Seats
           /\ ~resigned[current']
           /\ turn' = turn + 1
           /\ winner' = winner
  BY NextSeatPlays DEF AdvanceTurn, TurnIsPlayable, TypeOK

\* The end by going out or by the scoreless limit.
LEMMA FinishKeepsTypes ==
    ASSUME TypeOK, NEW racks \in [Seats -> SUBSET Tiles],
           NEW scores \in [Seats -> Int], NEW goer \in Seats \cup {NoSeat},
           FinishGame(racks, scores, goer)
    PROVE  /\ status' = "Finished"
           /\ current' = current /\ turn' = turn
           /\ score' \in [Seats -> Int]
           /\ winner' \in Remaining(resigned) \cup {NoSeat}
           /\ winner' # NoSeat =>
                 \A s \in Remaining(resigned) \ {winner'} :
                    score'[winner'] > score'[s]
           /\ bonus' \in [seat : Seats \cup {NoSeat}, points : Nat]
           /\ bonus'.seat = IF goer = NoSeat THEN bonus.seat ELSE goer
<1>1. score' \in [Seats -> Int] /\ OpponentsTotal(racks, goer) \in Nat
  BY FinalScoresType DEF FinishGame
<1>2. winner' = WinnerSeat(resigned, score')
  BY DEF FinishGame
<1>3. winner' \in Remaining(resigned) \cup {NoSeat}
  BY <1>2, WinnerSeatType DEF TypeOK
<1>4. winner' # NoSeat => \A s \in Remaining(resigned) \ {winner'} :
                             score'[winner'] > score'[s]
  BY <1>2, NoSeatIsNoSeat DEF WinnerSeat, Remaining
<1>5. bonus' \in [seat : Seats \cup {NoSeat}, points : Nat]
  BY <1>1 DEF FinishGame, TypeOK
<1> QED
  BY <1>1, <1>3, <1>4, <1>5 DEF FinishGame

-----------------------------------------------------------------------------
(* Every operation preserves the inductive invariant.                      *)

LEMMA InitConsistent == Init => IInv
<1> SUFFICES ASSUME Init PROVE IInv
  OBVIOUS
<1>1. TypeOK
  BY SeatsAssumption, LimitAssumption
     DEF Init, TypeOK, Statuses, Seats, NoBonus, NoSeat
<1>2. TilesInOnePlace
  BY DEF Init, TilesInOnePlace
<1> QED
  BY <1>1, <1>2
     DEF Init, IInv, TurnIsPlayable, DepartedHoldNothing, WinnerIsPlaying,
         WentOutEmptiesBag, OneExitPerSeat, WaitingIsFresh, NoResultYet,
         ExitsHaveLeft, NoBonus

LEMMA StartConsistent == ASSUME IInv, Start PROVE IInv'
<1> USE DEF IInv
<1>1. PICK deal \in [Seats -> SUBSET bag] :
        /\ Deals(deal)
        /\ rack' = deal
        /\ bag' = bag \ UNION {deal[s] : s \in Seats}
  BY DEF Start
<1>2. TypeOK'
  BY <1>1, SeatsAssumption, SMTT(30) DEF Start, TypeOK, Statuses, Seats
<1>3. TurnIsPlayable'
  <2>1. 0 \in Seats /\ 1 \in Seats /\ \A s \in Seats : ~resigned'[s]
    BY SeatsAssumption DEF Start, WaitingIsFresh, Seats
  <2>2. 0 \in Remaining(resigned') /\ 1 \in Remaining(resigned')
    BY <2>1 DEF Remaining
  <2> QED
    BY <2>1, <2>2 DEF Start, TurnIsPlayable, FewLeft
<1>4. DepartedHoldNothing'
  BY DEF Start, WaitingIsFresh, DepartedHoldNothing
<1>5. TilesInOnePlace'
  BY <1>1 DEF Start, TilesInOnePlace, Deals
<1> QED
  BY <1>2, <1>3, <1>4, <1>5
     DEF Start, WinnerIsPlaying, WentOutEmptiesBag, OneExitPerSeat,
         WaitingIsFresh, NoResultYet, ExitsHaveLeft, NoBonus

LEMMA PlaceConsistent == ASSUME IInv, NEW s \in Seats, Place(s) PROVE IInv'
<1> USE DEF IInv
<1>1. PICK played \in (SUBSET rack[s]) \ {{}}, drawn \in SUBSET bag,
          points \in PlayScores :
        LET kept == rack[s] \ played
            racks == [rack EXCEPT ![s] = kept \cup drawn]
            scores == [score EXCEPT ![s] = @ + points]
        IN  /\ Refills(kept, bag, drawn)
            /\ rack' = racks
            /\ bag' = bag \ drawn
            /\ board' = board \cup played
            /\ IF WentOut(kept, drawn)
               THEN FinishGame(racks, scores, s)
               ELSE /\ score' = scores
                    /\ AdvanceTurn(resigned)
                    /\ UNCHANGED bonus
  BY DEF Place
<1> DEFINE kept == rack[s] \ played
           racks == [rack EXCEPT ![s] = kept \cup drawn]
           scores == [score EXCEPT ![s] = @ + points]
<1>2. /\ status = "Active" /\ current = s
      /\ resigned' = resigned /\ exits' = exits
  BY DEF Place, OnTurn
<1>3. racks \in [Seats -> SUBSET Tiles] /\ scores \in [Seats -> Int]
  BY ValueAssumption DEF TypeOK
<1>4. TilesInOnePlace'
  BY <1>1, <1>3 DEF TilesInOnePlace, TypeOK
<1>5. ~resigned[s]
  BY <1>2 DEF TurnIsPlayable
<1>6. \A t \in Seats : resigned[t] => rack'[t] = {}
  BY <1>1, <1>2, <1>3, <1>5 DEF DepartedHoldNothing, TypeOK
<1>7. CASE ~WentOut(kept, drawn)
  <2>1. AdvanceTurn(resigned) /\ score' = scores /\ bonus' = bonus
    BY <1>1, <1>7
  <2>2. /\ status' = "Active" /\ current' \in Seats /\ ~resigned[current']
        /\ turn' = turn + 1 /\ winner' = winner
    BY <1>2, <2>1, AdvanceKeepsTurn
  <2>3. TypeOK'
    BY <1>1, <1>2, <1>3, <2>1, <2>2 DEF Place, TypeOK, Statuses
  <2> QED
    BY <1>2, <1>4, <1>6, <2>1, <2>2, <2>3
       DEF TurnIsPlayable, DepartedHoldNothing, WinnerIsPlaying,
           WentOutEmptiesBag, OneExitPerSeat, WaitingIsFresh, NoResultYet,
           ExitsHaveLeft, NoBonus
<1>8. CASE WentOut(kept, drawn)
  <2>1. FinishGame(racks, scores, s)
    BY <1>1, <1>8
  <2>2. /\ status' = "Finished" /\ current' = current /\ turn' = turn
        /\ score' \in [Seats -> Int]
        /\ winner' \in Remaining(resigned) \cup {NoSeat}
        /\ winner' # NoSeat => \A t \in Remaining(resigned) \ {winner'} :
                                  score'[winner'] > score'[t]
        /\ bonus' \in [seat : Seats \cup {NoSeat}, points : Nat]
        /\ bonus'.seat = s
    <3> HIDE DEF racks, scores
    <3>1. s # NoSeat /\ s \in Seats \cup {NoSeat}
      BY NoSeatIsNoSeat
    <3> QED
      BY <1>3, <2>1, <3>1, FinishKeepsTypes
  <2>3. drawn = bag /\ drawn = {}
    <3>1. kept = {} /\ drawn = {}
      BY <1>8 DEF WentOut
    <3>2. Cardinality(kept \cup drawn) = 0
      BY <3>1, FS_EmptySet
    <3> QED
      BY <1>1, <3>1, <3>2, TilesAssumption DEF Refills
  <2>4. bag' = {} /\ rack'[s] = {}
    BY <1>1, <1>8, <2>3 DEF WentOut, TypeOK
  <2>5. TypeOK'
    BY <1>1, <1>2, <1>3, <2>2 DEF Place, TypeOK, Statuses, Remaining
  <2> QED
    BY <1>2, <1>4, <1>6, <2>2, <2>4, <2>5
       DEF TurnIsPlayable, DepartedHoldNothing, WinnerIsPlaying, Remaining,
           WentOutEmptiesBag, OneExitPerSeat, WaitingIsFresh, NoResultYet,
           ExitsHaveLeft
<1> QED
  BY <1>7, <1>8

\* Passes and exchanges: the racks they leave, then ScorelessTurn.
LEMMA ScorelessTurnConsistent ==
    ASSUME IInv, NEW s \in Seats, OnTurn(s),
           rack' \in [Seats -> SUBSET Tiles], bag' \in SUBSET Tiles,
           board' = board,
           \A t \in Seats \ {s} : rack'[t] = rack[t],
           TilesInOnePlace',
           ScorelessTurn(rack')
    PROVE  IInv'
<1> USE DEF IInv
<1>1. /\ status = "Active" /\ current = s
      /\ resigned' = resigned /\ exits' = exits /\ hidden' = hidden
      /\ scoreless' \in Nat /\ records' \in Nat /\ version' \in Nat
      /\ chats' = chats
  BY DEF ScorelessTurn, OnTurn, TypeOK
<1>2. \A t \in Seats : resigned[t] => rack'[t] = {}
  BY <1>1 DEF DepartedHoldNothing, TurnIsPlayable
<1>3. CASE scoreless + 1 >= ScorelessLimit
  <2>1. FinishGame(rack', score, NoSeat)
    BY <1>3 DEF ScorelessTurn
  <2>2. /\ status' = "Finished" /\ current' = current /\ turn' = turn
        /\ score' \in [Seats -> Int]
        /\ winner' \in Remaining(resigned) \cup {NoSeat}
        /\ winner' # NoSeat => \A t \in Remaining(resigned) \ {winner'} :
                                  score'[winner'] > score'[t]
        /\ bonus' \in [seat : Seats \cup {NoSeat}, points : Nat]
        /\ bonus'.seat = bonus.seat
    BY <2>1, FinishKeepsTypes DEF TypeOK
  <2>3. TypeOK'
    BY <1>1, <2>2 DEF TypeOK, Statuses, Remaining
  <2> QED
    BY <1>1, <1>2, <2>2, <2>3
       DEF TurnIsPlayable, DepartedHoldNothing, WinnerIsPlaying, Remaining,
           WentOutEmptiesBag, OneExitPerSeat, WaitingIsFresh, NoResultYet,
           ExitsHaveLeft
<1>4. CASE ~(scoreless + 1 >= ScorelessLimit)
  <2>1. AdvanceTurn(resigned) /\ score' = score /\ bonus' = bonus
    BY <1>4 DEF ScorelessTurn
  <2>2. /\ status' = "Active" /\ current' \in Seats /\ ~resigned[current']
        /\ turn' = turn + 1 /\ winner' = winner
    BY <1>1, <2>1, AdvanceKeepsTurn
  <2>3. TypeOK'
    BY <1>1, <2>1, <2>2 DEF TypeOK, Statuses
  <2> QED
    BY <1>1, <1>2, <2>1, <2>2, <2>3
       DEF TurnIsPlayable, DepartedHoldNothing, WinnerIsPlaying,
           WentOutEmptiesBag, OneExitPerSeat, WaitingIsFresh, NoResultYet,
           ExitsHaveLeft, NoBonus
<1> QED
  BY <1>3, <1>4

LEMMA PassConsistent == ASSUME IInv, NEW s \in Seats, Pass(s) PROVE IInv'
<1>1. rack' = rack /\ bag' = bag /\ board' = board /\ OnTurn(s)
  BY DEF Pass, tableVars
<1>2. TilesInOnePlace' /\ ScorelessTurn(rack')
  BY <1>1 DEF Pass, IInv, TilesInOnePlace
<1> QED
  BY <1>1, <1>2, ScorelessTurnConsistent DEF IInv, TypeOK

LEMMA ExchangeConsistent ==
    ASSUME IInv, NEW s \in Seats, Exchange(s) PROVE IInv'
<1>1. OnTurn(s) /\ board' = board
  BY DEF Exchange
<1>2. PICK offered \in SUBSET rack[s] :
        \E drawn \in SUBSET (bag \cup offered) :
           LET kept == rack[s] \ offered
               racks == [rack EXCEPT ![s] = kept \cup drawn]
           IN  /\ rack' = racks
               /\ bag' = (bag \cup offered) \ drawn
               /\ ScorelessTurn(racks)
  BY DEF Exchange
<1>3. PICK drawn \in SUBSET (bag \cup offered) :
        /\ rack' = [rack EXCEPT ![s] = (rack[s] \ offered) \cup drawn]
        /\ bag' = (bag \cup offered) \ drawn
        /\ ScorelessTurn([rack EXCEPT ![s] = (rack[s] \ offered) \cup drawn])
  BY <1>2
<1>4. rack' \in [Seats -> SUBSET Tiles] /\ bag' \in SUBSET Tiles
  BY <1>3 DEF IInv, TypeOK
<1>5. TilesInOnePlace'
  BY <1>1, <1>3 DEF IInv, TypeOK, TilesInOnePlace
<1>6. \A t \in Seats \ {s} : rack'[t] = rack[t]
  BY <1>3 DEF IInv, TypeOK
<1>7. ScorelessTurn(rack')
  BY <1>3
<1> QED
  BY <1>1, <1>4, <1>5, <1>6, <1>7, ScorelessTurnConsistent

LEMMA RefusedConsistent ==
    ASSUME IInv, NEW s \in Seats, ExchangeRefused(s) PROVE IInv'
<1> USE DEF IInv
<1>1. PICK consumed \in SUBSET rack[s] :
        rack' = [rack EXCEPT ![s] = rack[s] \ consumed]
  BY DEF ExchangeRefused
<1>2. /\ rack' \in [Seats -> SUBSET Tiles]
      /\ \A t \in Seats : rack'[t] \subseteq rack[t]
  BY <1>1 DEF TypeOK
<1>3. status = "Active"
  BY DEF ExchangeRefused, OnTurn
<1>4. TypeOK'
  BY <1>2 DEF ExchangeRefused, TypeOK
<1>5. TilesInOnePlace'
  BY <1>2 DEF ExchangeRefused, TilesInOnePlace
<1>6. DepartedHoldNothing'
  BY <1>2, <1>3 DEF ExchangeRefused, DepartedHoldNothing
<1> QED
  BY <1>3, <1>4, <1>5, <1>6
     DEF ExchangeRefused, TurnIsPlayable, WinnerIsPlaying, WentOutEmptiesBag,
         OneExitPerSeat, WaitingIsFresh, NoResultYet, ExitsHaveLeft, NoBonus

\* An exit record names a seat.
LEMMA ExitsNameSeats ==
    ASSUME TypeOK
    PROVE  \A i \in DOMAIN exits : exits[i].seat \in Seats
<1> DEFINE Exit == [seat : Seats, kind : ExitKinds]
<1>1. exits \in Seq(Exit)
  BY DEF TypeOK
<1>2. \A i \in DOMAIN exits : exits[i] \in Exit
  <2> HIDE DEF Exit
  <2> QED
    BY <1>1
<1> QED
  BY <1>2

\* Resignations, forced ones and timeouts.
LEMMA LeaveConsistent ==
    ASSUME IInv, status = "Active", NEW s \in Seats, ~resigned[s],
           NEW kind \in ExitKinds, NEW bump \in Nat, LeaveSeat(s, kind, bump)
    PROVE  IInv'
<1> USE DEF IInv
<1> DEFINE out == [resigned EXCEPT ![s] = TRUE]
<1>1. /\ out \in [Seats -> BOOLEAN]
      /\ \A t \in Seats : out[t] <=> resigned[t] \/ t = s
  BY DEF TypeOK
<1>2. /\ resigned' = out
      /\ bag' = bag \cup rack[s] /\ board' = board
      /\ rack' = [rack EXCEPT ![s] = {}]
      /\ exits' = Append(exits, [seat |-> s, kind |-> kind])
      /\ HandleSeatExit(s, out)
      /\ records' \in Nat /\ version' \in Nat
      /\ UNCHANGED <<score, scoreless, bonus, hidden, chats>>
  BY DEF LeaveSeat, ReturnRack, TypeOK
<1>3. s # current => ~out[current]
  BY <1>1 DEF TurnIsPlayable, TypeOK
<1>4. /\ status' \in {"Active", "Finished"}
      /\ current' \in Seats /\ turn' \in Nat
      /\ winner' \in Seats \cup {NoSeat}
      /\ status' = "Active" =>
            ~out[current'] /\ ~FewLeft(out) /\ winner' = winner
      /\ status' = "Finished" => FewLeft(out) /\ winner' = LastStanding(out)
  <2> HIDE DEF out
  <2> QED
    BY <1>1, <1>2, <1>3, ExitKeepsTurn
<1>5. TypeOK'
  <2>1. exits' \in Seq([seat : Seats, kind : ExitKinds])
    BY <1>2 DEF TypeOK
  <2> QED
    BY <1>1, <1>2, <1>4, <2>1 DEF TypeOK, Statuses
<1>6. TurnIsPlayable'
  BY <1>2, <1>4 DEF TurnIsPlayable
<1>7. DepartedHoldNothing'
  BY <1>1, <1>2, <1>4 DEF DepartedHoldNothing, TypeOK
<1>8. TilesInOnePlace'
  BY <1>2 DEF TilesInOnePlace, TypeOK
<1>9. WinnerIsPlaying'
  <2> SUFFICES ASSUME status' = "Finished", winner' # NoSeat
               PROVE  /\ ~resigned'[winner']
                      /\ Remaining(resigned') \ {winner'} = {}
    BY DEF WinnerIsPlaying
  <2>1. winner' \in Remaining(out)
    BY <1>4 DEF LastStanding
  <2> QED
    BY <1>2, <1>4, <2>1 DEF FewLeft, Remaining
<1>10. WentOutEmptiesBag' /\ WaitingIsFresh' /\ NoResultYet'
  BY <1>2, <1>4 DEF WentOutEmptiesBag, WaitingIsFresh, NoResultYet, NoBonus
<1>11. ExitsHaveLeft' /\ OneExitPerSeat'
  <2>1. \A i \in DOMAIN exits : resigned[exits[i].seat] /\ exits[i].seat \in Seats
    BY ExitsNameSeats DEF ExitsHaveLeft
  <2>2. /\ DOMAIN exits' = DOMAIN exits \cup {Len(exits) + 1}
        /\ exits'[Len(exits) + 1].seat = s
        /\ \A i \in DOMAIN exits : exits'[i] = exits[i]
    BY <1>2, SMTT(30) DEF TypeOK
  <2> QED
    BY <1>1, <1>2, <2>1, <2>2 DEF ExitsHaveLeft, OneExitPerSeat
<1> QED
  BY <1>5, <1>6, <1>7, <1>8, <1>9, <1>10, <1>11

\* The endings imposed from outside, and what stays possible afterwards.
LEMMA OutsideConsistent ==
    ASSUME IInv,
           \/ AdminForceFinish
           \/ Abort
           \/ \E p \in Players : RemoveForPlayer(p) \/ PostChatMessage(p)
    PROVE  IInv'
<1> USE DEF IInv
<1>1. CASE AdminForceFinish
  BY <1>1 DEF AdminForceFinish, NotEnded, Over, TypeOK, Statuses,
     TurnIsPlayable, DepartedHoldNothing, TilesInOnePlace, WinnerIsPlaying,
     WentOutEmptiesBag, OneExitPerSeat, WaitingIsFresh, NoResultYet,
     ExitsHaveLeft, NoBonus
<1>2. CASE Abort
  <2>1. TypeOK'
    BY <1>2 DEF Abort, TypeOK, Statuses
  <2>2. \A i \in DOMAIN exits : exits[i].seat \in Seats
    BY ExitsNameSeats
  <2> QED
    BY <1>2, <2>1, <2>2 DEF Abort, NotEnded, Over, TurnIsPlayable,
       DepartedHoldNothing, TilesInOnePlace, WinnerIsPlaying,
       WentOutEmptiesBag, OneExitPerSeat, WaitingIsFresh, NoResultYet,
       ExitsHaveLeft, NoBonus
<1>3. ASSUME NEW p \in Players, RemoveForPlayer(p) PROVE IInv'
  <2>1. RemovalFlag(p) \in Seats \cup {NoSeat}
    <3>1. CASE \E s \in Seats : Holder[s] = p
      <4> DEFINE D == {s \in Seats : Holder[s] = p}
      <4>1. PICK s \in D : \A t \in D : ~(<<t, s>> \in OpToRel(<, Nat))
        <5>1. D \subseteq Nat /\ D # {}
          BY <3>1 DEF Seats
        <5> QED
          BY <5>1, NatLessThanWellFounded, WFMin
      <4>2. \A t \in D : <<t, s>> \in OpToRel(<, Nat) <=> t < s
        BY SeatsAssumption DEF OpToRel, Seats
      <4>3. \A t \in D : ~(t < s)
        BY <4>1, <4>2, Zenon
      <4>4. \A t \in D : s <= t
        BY <4>3, SeatsAssumption DEF Seats
      <4> QED
        BY <3>1, <4>4 DEF RemovalFlag
    <3>2. CASE ~(\E s \in Seats : Holder[s] = p)
      BY <3>2 DEF RemovalFlag
    <3> QED
      BY <3>1, <3>2
  <2>2. TypeOK'
    BY <1>3, <2>1 DEF RemoveForPlayer, TypeOK
  <2> QED
    BY <1>3, <2>2 DEF RemoveForPlayer, TurnIsPlayable, DepartedHoldNothing,
       TilesInOnePlace, WinnerIsPlaying, WentOutEmptiesBag, OneExitPerSeat,
       WaitingIsFresh, NoResultYet, ExitsHaveLeft, NoBonus
<1>4. ASSUME NEW p \in Players, PostChatMessage(p) PROVE IInv'
  <2>1. TypeOK'
    BY <1>4, LimitAssumption DEF PostChatMessage, TypeOK
  <2> QED
    BY <1>4, <2>1 DEF PostChatMessage, TurnIsPlayable, DepartedHoldNothing,
       TilesInOnePlace, WinnerIsPlaying, WentOutEmptiesBag, OneExitPerSeat,
       WaitingIsFresh, NoResultYet, ExitsHaveLeft, NoBonus
<1> QED
  BY <1>1, <1>2, <1>3, <1>4

LEMMA StutterConsistent == ASSUME IInv, UNCHANGED vars PROVE IInv'
  BY DEF vars, IInv, TypeOK, TurnIsPlayable, DepartedHoldNothing,
     TilesInOnePlace, WinnerIsPlaying, WentOutEmptiesBag, OneExitPerSeat,
     WaitingIsFresh, NoResultYet, ExitsHaveLeft, Over

-----------------------------------------------------------------------------
(* The theorems.                                                           *)

LEMMA NextConsistent == IInv /\ [Next]_vars => IInv'
<1> SUFFICES ASSUME IInv, [Next]_vars PROVE IInv'
  OBVIOUS
<1>1. CASE Start
  BY <1>1, StartConsistent
<1>2. ASSUME NEW s \in Seats, Place(s) PROVE IInv'
  BY <1>2, PlaceConsistent
<1>3. ASSUME NEW s \in Seats, Pass(s) PROVE IInv'
  BY <1>3, PassConsistent
<1>4. ASSUME NEW s \in Seats, Exchange(s) PROVE IInv'
  BY <1>4, ExchangeConsistent
<1>5. ASSUME NEW s \in Seats, ExchangeRefused(s) PROVE IInv'
  BY <1>5, RefusedConsistent
<1>6. ASSUME NEW s \in Seats, Resign(s) PROVE IInv'
  BY <1>6, LeaveConsistent DEF Resign, ExitKinds
<1>7. ASSUME NEW s \in Seats, ForceResign(s) PROVE IInv'
  BY <1>7, LeaveConsistent DEF ForceResign, ExitKinds
<1>8. ASSUME NEW s \in Seats, MoveTimeout(s) PROVE IInv'
  <2>1. status = "Active" /\ ~resigned[s]
    BY <1>8 DEF MoveTimeout, OnTurn, IInv, TurnIsPlayable
  <2> QED
    BY <1>8, <2>1, LeaveConsistent DEF MoveTimeout, ExitKinds
<1>9. CASE \/ AdminForceFinish
           \/ Abort
           \/ \E p \in Players : RemoveForPlayer(p) \/ PostChatMessage(p)
  BY <1>9, OutsideConsistent
<1>10. CASE UNCHANGED vars
  BY <1>10, StutterConsistent
<1> QED
  BY <1>1, <1>2, <1>3, <1>4, <1>5, <1>6, <1>7, <1>8, <1>9, <1>10 DEF Next

\* Every reachable state of a game is consistent.
THEOREM Consistent == Spec => []IInv
  BY InitConsistent, NextConsistent, PTL DEF Spec

\* The types of the session's fields.
THEOREM TypeCorrect == Spec => []TypeOK
  BY Consistent, PTL DEF IInv

\* A game under way waits on a seat that plays, with another one playing.
THEOREM PlayableTurns == Spec => []TurnIsPlayable
  BY Consistent, PTL DEF IInv

\* A seat that has left holds no tiles, and no tile is ever in two places.
THEOREM TilesAreSound == Spec => [](DepartedHoldNothing /\ TilesInOnePlace)
  BY Consistent, PTL DEF IInv

\* Who wins: a seat still playing that leads the others, and going out means
\* the bag was empty.
THEOREM ResultsAreSound == Spec => [](WinnerIsPlaying /\ WentOutEmptiesBag)
  BY Consistent, PTL DEF IInv

\* A seat leaves a game once.
THEOREM ExitsAreUnique == Spec => []OneExitPerSeat
  BY Consistent, PTL DEF IInv

-----------------------------------------------------------------------------
(* What a step may never do.                                               *)

\* The score of a seat that left is final: the only loop that touches it,
\* finish_game's, deducts a rack that is empty and pays nobody but the seat
\* on turn.
LEMMA FinalScoresSpareDeparted ==
    ASSUME IInv, NEW racks \in [Seats -> SUBSET Tiles],
           NEW scores \in [Seats -> Int], NEW goer \in Seats \cup {NoSeat},
           NEW s \in Seats, s # goer, racks[s] = {}
    PROVE  FinalScores(racks, scores, goer)[s] = scores[s]
<1>1. FinalScores(racks, scores, goer)[s] = scores[s] - RackValue[racks[s]] + 0
  BY DEF FinalScores
<1>2. RackValue[racks[s]] = 0 /\ scores[s] \in Int
  BY ValueAssumption
<1> QED
  BY <1>1, <1>2

THEOREM DepartedScores == Spec => DepartedScoreIsFinal
<1>1. ASSUME IInv, [Next]_vars, NEW s \in Seats, resigned[s]
      PROVE  score'[s] = score[s]
  <2> USE DEF IInv
  <2>1. ASSUME NEW q \in Seats, Place(q) PROVE score'[s] = score[s]
    <3>1. status = "Active" /\ q = current /\ q # s
      BY <1>1, <2>1 DEF Place, OnTurn, TurnIsPlayable
    <3>2. PICK played \in SUBSET rack[q], drawn \in SUBSET bag,
               points \in PlayScores :
            LET kept == rack[q] \ played
                racks == [rack EXCEPT ![q] = kept \cup drawn]
                scores == [score EXCEPT ![q] = @ + points]
            IN  \/ FinishGame(racks, scores, q)
                \/ score' = scores
      BY <2>1 DEF Place
    <3> DEFINE racks == [rack EXCEPT ![q] = (rack[q] \ played) \cup drawn]
               scores == [score EXCEPT ![q] = @ + points]
    <3>3. /\ racks \in [Seats -> SUBSET Tiles]
          /\ scores \in [Seats -> Int]
          /\ racks[s] = {} /\ scores[s] = score[s]
      BY <1>1, <3>1, ValueAssumption DEF TypeOK, DepartedHoldNothing
    <3>4. score' = FinalScores(racks, scores, q) \/ score' = scores
      BY <3>2 DEF FinishGame
    <3> HIDE DEF racks, scores
    <3> QED
      BY <1>1, <3>1, <3>3, <3>4, FinalScoresSpareDeparted
  <2>2. ASSUME NEW racks \in [Seats -> SUBSET Tiles], racks[s] = {},
               ScorelessTurn(racks)
        PROVE  score'[s] = score[s]
    <3>1. score' = FinalScores(racks, score, NoSeat) \/ score' = score
      BY <2>2 DEF ScorelessTurn, FinishGame
    <3>2. score \in [Seats -> Int] /\ NoSeat \in Seats \cup {NoSeat} /\ s # NoSeat
      BY <1>1, NoSeatIsNoSeat DEF TypeOK
    <3>3. FinalScores(racks, score, NoSeat)[s] = score[s]
      BY <1>1, <2>2, <3>2, FinalScoresSpareDeparted
    <3> QED
      BY <3>1, <3>3
  <2>3. ASSUME NEW q \in Seats, Pass(q) PROVE score'[s] = score[s]
    BY <1>1, <2>2, <2>3 DEF Pass, OnTurn, TypeOK, DepartedHoldNothing
  <2>4. ASSUME NEW q \in Seats, Exchange(q) PROVE score'[s] = score[s]
    <3>0. PICK offered \in SUBSET rack[q] :
            \E drawn \in SUBSET (bag \cup offered) :
               ScorelessTurn([rack EXCEPT ![q] = (rack[q] \ offered) \cup drawn])
      BY <2>4 DEF Exchange
    <3>1. PICK drawn \in SUBSET (bag \cup offered) :
            ScorelessTurn([rack EXCEPT ![q] = (rack[q] \ offered) \cup drawn])
      BY <3>0
    <3>2. status = "Active" /\ q # s
      BY <1>1, <2>4 DEF Exchange, OnTurn, TurnIsPlayable
    <3> DEFINE racks == [rack EXCEPT ![q] = (rack[q] \ offered) \cup drawn]
    <3>3. racks \in [Seats -> SUBSET Tiles] /\ racks[s] = {}
      BY <1>1, <3>2 DEF TypeOK, DepartedHoldNothing
    <3>4. ScorelessTurn(racks)
      BY <3>1
    <3> HIDE DEF racks
    <3> QED
      BY <2>2, <3>3, <3>4
  <2>5. CASE UNCHANGED score
    BY <2>5
  <2> QED
    BY <1>1, <2>1, <2>3, <2>4, <2>5
       DEF Next, Start, ExchangeRefused, Resign, ForceResign, MoveTimeout,
           LeaveSeat, AdminForceFinish, Abort, RemoveForPlayer,
           PostChatMessage, vars
<1>2. IInv /\ [Next]_vars => [\A s \in Seats : resigned[s] => score'[s] = score[s]]_vars
  BY <1>1
<1> QED
  BY <1>2, Consistent, PTL DEF Spec, DepartedScoreIsFinal

\* A game that is over stays as it ended.
THEOREM EndIsFinal == Spec => OverIsFinal
<1>1. ASSUME [Next]_vars, Over
      PROVE  UNCHANGED <<status, current, turn, resigned, rack, bag, board,
                         score, scoreless, winner, bonus, exits, records>>
  BY <1>1 DEF Next, Over, Start, Place, Pass, Exchange, ExchangeRefused,
     OnTurn, Resign, ForceResign, MoveTimeout, AdminForceFinish, Abort,
     NotEnded, RemoveForPlayer, PostChatMessage, vars
<1> QED
  BY <1>1, PTL DEF Spec, OverIsFinal

\* Every observable change is followed by mark_changed: a timeout, which leaves
\* it to the turn order, always moves that, for it retires the seat on turn.
THEOREM ChangesAreMarked == Spec => ChangesMoveVersion
<1>1. ASSUME TypeOK, [Next]_vars
      PROVE  \/ version' > version
             \/ /\ version' = version
                /\ UNCHANGED <<status, current, turn, resigned, board, score,
                               winner, bonus, exits, records, chats>>
  <2>1. version \in Nat
    BY <1>1 DEF TypeOK
  <2>2. version' = version + 1 => version' > version
    BY <2>1
  <2>3. CASE \/ Start \/ AdminForceFinish \/ Abort
             \/ \E p \in Players : RemoveForPlayer(p) \/ PostChatMessage(p)
             \/ \E s \in Seats : Place(s) \/ Pass(s) \/ Exchange(s)
    BY <2>2, <2>3 DEF Start, AdminForceFinish, Abort, RemoveForPlayer, PostChatMessage,
       Place, Pass, Exchange, ScorelessTurn
  <2>4. CASE \E s \in Seats : ExchangeRefused(s)
    BY <2>4 DEF ExchangeRefused
  <2>5. ASSUME NEW s \in Seats, Resign(s) \/ ForceResign(s)
        PROVE  version' > version
    BY <2>1, <2>5 DEF Resign, ForceResign, LeaveSeat
  <2>6. ASSUME NEW s \in Seats, MoveTimeout(s)
        PROVE  version' > version
    BY <2>1, <2>6 DEF MoveTimeout, OnTurn, LeaveSeat, ExitMoves
  <2>7. CASE UNCHANGED vars
    BY <2>7 DEF vars
  <2> QED
    BY <1>1, <2>3, <2>4, <2>5, <2>6, <2>7, Zenon DEF Next
<1> QED
  BY <1>1, TypeCorrect, PTL DEF Spec, ChangesMoveVersion

-----------------------------------------------------------------------------
(* GameSession implements TurnTable.                                       *)

\* The nearest seat clockwise is the one the abstract table hands on to.
LEMMA NearestFollows ==
    ASSUME NEW s \in Seats, NEW out \in [Seats -> BOOLEAN], ~FewLeft(out)
    PROVE  Table!Follows(NextSeat(s, out), s, Remaining(out))
<1>1. Remaining(out) # {}
  BY DEF FewLeft
<1>2. /\ NextSeat(s, out) \in Remaining(out)
      /\ \A t \in Remaining(out) :
            Distance(s, NextSeat(s, out)) <= Distance(s, t)
  BY <1>1, NextSeatNearest
<1> QED
  BY <1>2, SeatsAssumption DEF Table!Follows, Distance, Remaining, Seats

\* A seat leaving is LeaveTable or LastLeaves.
LEMMA LeaveImplements ==
    ASSUME IInv, status = "Active", NEW s \in Seats, ~resigned[s],
           NEW kind, NEW bump, LeaveSeat(s, kind, bump)
    PROVE  Table!LeaveTable(s) \/ Table!LastLeaves(s)
<1> DEFINE out == [resigned EXCEPT ![s] = TRUE]
<1>1. /\ out \in [Seats -> BOOLEAN] /\ resigned' = out
      /\ HandleSeatExit(s, out)
  BY DEF LeaveSeat, IInv, TypeOK
<1>2. Remaining(out) = Remaining(resigned) \ {s} /\ s \in Remaining(resigned)
  BY DEF Remaining, IInv, TypeOK
<1>3. current \in Seats
  BY DEF IInv, TypeOK
<1> HIDE DEF out
<1>4. CASE FewLeft(out)
  BY <1>1, <1>2, <1>4
     DEF HandleSeatExit, FinishLastStanding, Table!LastLeaves, FewLeft, Over
<1>5. CASE ~FewLeft(out) /\ s = current
  <2>1. /\ current' = NextSeat(current, out) /\ status' = status
    BY <1>1, <1>5 DEF HandleSeatExit, AdvanceTurn
  <2>2. Table!Follows(current', s, Remaining(out))
    BY <1>1, <1>5, <2>1, NearestFollows
  <2> QED
    BY <1>1, <1>2, <1>5, <2>1, <2>2 DEF Table!LeaveTable, FewLeft, Over
<1>6. CASE ~FewLeft(out) /\ s # current
  BY <1>1, <1>2, <1>6
     DEF HandleSeatExit, turnVars, Table!LeaveTable, FewLeft, Over
<1> QED
  BY <1>4, <1>5, <1>6

\* A move by the seat on turn is PassTurn, or Close when it ends the game.
LEMMA MoveImplements ==
    ASSUME IInv, status = "Active", resigned' = resigned,
           \/ AdvanceTurn(resigned)
           \/ status' = "Finished" /\ current' = current
    PROVE  Table!PassTurn \/ Table!Close
<1>1. CASE AdvanceTurn(resigned)
  <2>1. ~FewLeft(resigned) /\ current \in Seats /\ resigned \in [Seats -> BOOLEAN]
    BY DEF IInv, TypeOK, TurnIsPlayable
  <2>2. current' = NextSeat(current, resigned) /\ status' = status
    BY <1>1, <2>1 DEF AdvanceTurn
  <2>3. Table!Follows(current', current, Remaining(resigned))
    BY <2>1, <2>2, NearestFollows
  <2> QED
    BY <2>2, <2>3 DEF Table!PassTurn, Over
<1>2. CASE status' = "Finished" /\ current' = current
  BY <1>2 DEF Table!Close, Over
<1> QED
  BY <1>1, <1>2

\* Whatever happens to a game, its turn order is TurnTable's.
THEOREM TurnOrderHolds == Spec => TurnOrder
<1>1. Init => Table!TableInit
  BY DEF Init, Table!TableInit, Table!Seat, Remaining, Seats, Over
<1>2. ASSUME IInv, [Next]_vars
      PROVE  [Table!TableNext]_(Table!tableStateVars)
  <2> USE DEF IInv
  <2>1. CASE Start
    BY <2>1 DEF Start, Over, Table!TableNext, Table!Begin, Remaining
  <2>2. ASSUME NEW s \in Seats, Place(s) \/ Pass(s) \/ Exchange(s)
        PROVE  Table!TableNext
    <3>1. /\ status = "Active" /\ resigned' = resigned
          /\ \/ AdvanceTurn(resigned)
             \/ status' = "Finished" /\ current' = current
      BY <2>2 DEF Place, Pass, Exchange, OnTurn, ScorelessTurn, FinishGame
    <3> QED
      BY <1>2, <3>1, MoveImplements DEF Table!TableNext
  <2>3. ASSUME NEW s \in Seats, ExchangeRefused(s)
        PROVE  UNCHANGED Table!tableStateVars
    BY <2>3 DEF ExchangeRefused, Table!tableStateVars, Over, Remaining
  <2>4. ASSUME NEW s \in Seats, Resign(s) \/ ForceResign(s) \/ MoveTimeout(s)
        PROVE  Table!TableNext
    <3>1. /\ status = "Active" /\ ~resigned[s]
          /\ \E kind \in ExitKinds, bump \in {0, 1} : LeaveSeat(s, kind, bump)
      BY <1>2, <2>4 DEF Resign, ForceResign, MoveTimeout, OnTurn, ExitKinds,
         TurnIsPlayable
    <3>2. Table!LeaveTable(s) \/ Table!LastLeaves(s)
      BY <1>2, <3>1, LeaveImplements
    <3> QED
      BY <3>2 DEF Table!TableNext, Table!Seat, Seats
  <2>5. CASE AdminForceFinish
    BY <2>5 DEF AdminForceFinish, NotEnded, Over, Table!TableNext, Table!Close,
       Remaining
  <2>6. CASE Abort
    BY <2>6 DEF Abort, NotEnded, Over, Table!TableNext, Table!Close, Remaining
  <2>7. CASE \E p \in Players : RemoveForPlayer(p) \/ PostChatMessage(p)
    BY <2>7 DEF RemoveForPlayer, PostChatMessage, Table!tableStateVars, Over,
       Remaining
  <2>8. CASE UNCHANGED vars
    BY <2>8 DEF vars, Table!tableStateVars, Over, Remaining
  <2> QED
    BY <1>2, <2>1, <2>2, <2>3, <2>4, <2>5, <2>6, <2>7, <2>8 DEF Next
<1> QED
  BY <1>1, <1>2, Consistent, PTL DEF Spec, TurnOrder, Table!TableSpec

=============================================================================
