-------------------------- MODULE GameStore_proofs --------------------------
(* Theorems about GameStore, for every number of requests, clients, moves, *)
(* messages and restarts, and every capacity of the channel.               *)
EXTENDS GameStore, SequenceTheorems, TLAPS

-----------------------------------------------------------------------------
(* Prefixes.                                                               *)

LEMMA PrefixPointwise ==
    ASSUME NEW S, NEW s \in Seq(S), NEW t \in Seq(S)
    PROVE  IsPrefix(s, t) <=> Len(s) <= Len(t) /\ \A i \in 1..Len(s) : s[i] = t[i]
<1>1. CASE Len(s) <= Len(t)
  <2>1. /\ SubSeq(s, 1, Len(s)) \in Seq(S) /\ Len(SubSeq(s, 1, Len(s))) = Len(s)
        /\ \A i \in 1..Len(s) : SubSeq(s, 1, Len(s))[i] = s[i]
    OBVIOUS
  <2>2. /\ SubSeq(t, 1, Len(s)) \in Seq(S) /\ Len(SubSeq(t, 1, Len(s))) = Len(s)
        /\ \A i \in 1..Len(s) : SubSeq(t, 1, Len(s))[i] = t[i]
    BY <1>1
  <2>3. (\A i \in 1..Len(s) : s[i] = t[i]) => SubSeq(s, 1, Len(s)) = SubSeq(t, 1, Len(s))
    BY <2>1, <2>2, SeqEqual
  <2>4. SubSeq(s, 1, Len(s)) = SubSeq(t, 1, Len(s)) => \A i \in 1..Len(s) : s[i] = t[i]
    BY <2>1, <2>2
  <2> QED
    BY <1>1, <2>3, <2>4 DEF IsPrefix
<1>2. CASE ~(Len(s) <= Len(t))
  BY <1>2 DEF IsPrefix
<1> QED
  BY <1>1, <1>2

LEMMA PrefixOfItself == ASSUME NEW S, NEW s \in Seq(S) PROVE IsPrefix(s, s)
  BY PrefixPointwise

LEMMA PrefixTransitive ==
    ASSUME NEW S, NEW s \in Seq(S), NEW t \in Seq(S), NEW u \in Seq(S),
           IsPrefix(s, t), IsPrefix(t, u)
    PROVE  IsPrefix(s, u)
<1>1. /\ Len(s) <= Len(t) /\ \A i \in 1..Len(s) : s[i] = t[i]
      /\ Len(t) <= Len(u) /\ \A i \in 1..Len(t) : t[i] = u[i]
  BY PrefixPointwise
<1>2. Len(s) <= Len(u) /\ \A i \in 1..Len(s) : s[i] = u[i]
  BY <1>1
<1> QED
  BY <1>2, PrefixPointwise

LEMMA PrefixBothWays ==
    ASSUME NEW S, NEW s \in Seq(S), NEW t \in Seq(S), IsPrefix(s, t), IsPrefix(t, s)
    PROVE  s = t
<1>1. Len(s) = Len(t) /\ \A i \in 1..Len(s) : s[i] = t[i]
  BY PrefixPointwise
<1> QED
  BY <1>1, SeqEqual

LEMMA PrefixOfAppend ==
    ASSUME NEW S, NEW s \in Seq(S), NEW e \in S
    PROVE  IsPrefix(s, Append(s, e)) /\ Append(s, e) \in Seq(S)
<1>1. Append(s, e) \in Seq(S) /\ Len(s) <= Len(Append(s, e))
      /\ \A i \in 1..Len(s) : s[i] = Append(s, e)[i]
  OBVIOUS
<1> QED
  BY <1>1, PrefixPointwise

-----------------------------------------------------------------------------
(* What a step does to the game.                                           *)

\* The change a handler makes: a new version, and nothing taken back.
Grows(g, h) ==
    /\ h \in Session /\ h.version = g.version + 1
    /\ IsPrefix(g.log, h.log) /\ g.notes <= h.notes
    /\ g.status = "Finished" => h.status = "Finished" /\ h.log = g.log

LEMMA BumpedIs ==
    ASSUME NEW g \in Session
    PROVE  /\ Bumped(g) \in Session /\ Bumped(g).version = g.version + 1
           /\ Bumped(g).log = g.log /\ Bumped(g).notes = g.notes
           /\ Bumped(g).status = g.status /\ Bumped(g).turn = g.turn
<1>1. Bumped(g) \in Session
  <2>1. PICK n \in Nat : n = g.version + 1
    BY DEF Session
  <2>2. Bumped(g) = [g EXCEPT !.version = n]
    BY <2>1 DEF Bumped
  <2> QED
    BY <2>2 DEF Session
<1>2. /\ Bumped(g).version = g.version + 1
      /\ Bumped(g).log = g.log /\ Bumped(g).notes = g.notes
  BY DEF Bumped, Session
<1>3. Bumped(g).status = g.status /\ Bumped(g).turn = g.turn
  BY DEF Bumped, Session
<1> QED
  BY <1>1, <1>2, <1>3

LEMMA MovedGrows ==
    ASSUME NEW g \in Session, crashes \in Nat, g.status = "Active",
           NEW turns \in SUBSET {"human", "engine", "nobody"}, NEW h \in Moved(g, turns)
    PROVE  Grows(g, h) /\ h.notes = g.notes
<1>1. /\ Append(g.log, crashes) \in Seq(Nat) /\ IsPrefix(g.log, Append(g.log, crashes))
  BY PrefixOfAppend DEF Session
<1>2. PICK after : after = [Bumped(g) EXCEPT !.log = Append(@, crashes)]
  OBVIOUS
<1>3. /\ after \in Session /\ after.version = g.version + 1
      /\ after.log = Append(g.log, crashes) /\ after.notes = g.notes
  BY <1>1, <1>2, BumpedIs DEF Session
<1>4. \/ h = [after EXCEPT !.status = "Finished", !.turn = "nobody"]
      \/ \E t \in turns : h = [after EXCEPT !.turn = t]
  BY <1>2 DEF Moved
<1>5. /\ h \in Session /\ h.version = after.version /\ h.log = after.log
      /\ h.notes = after.notes
  BY <1>3, <1>4 DEF Session, Statuses
<1> QED
  BY <1>1, <1>3, <1>5 DEF Grows, Session

LEMMA NotedGrows ==
    ASSUME NEW g \in Session
    PROVE  /\ Grows(g, Noted(g)) /\ Noted(g).log = g.log /\ Noted(g).status = g.status
<1>1. /\ Noted(g) \in Session /\ Noted(g).version = g.version + 1
      /\ Noted(g).log = g.log /\ Noted(g).notes = g.notes + 1 /\ Noted(g).status = g.status
  <2>1. PICK b \in Session : /\ b = Bumped(g) /\ b.version = g.version + 1
                             /\ b.log = g.log /\ b.notes = g.notes /\ b.status = g.status
    BY BumpedIs
  <2>2. PICK n \in Nat : n = g.notes + 1
    BY DEF Session
  <2>3. Noted(g) = [b EXCEPT !.notes = n]
    BY <2>1, <2>2 DEF Noted
  <2> QED
    BY <2>1, <2>2, <2>3 DEF Session
<1>2. IsPrefix(g.log, g.log) /\ g.notes <= g.notes + 1
  BY PrefixOfItself DEF Session
<1> QED
  BY <1>1, <1>2 DEF Grows

LEMMA ToDtoIs ==
    ASSUME NEW g \in Session
    PROVE  /\ ToDto(g) \in Dto /\ ToDto(g).log = g.log /\ ToDto(g).notes = g.notes
           /\ ToDto(g).status = g.status /\ ToDto(g).version = g.version
           /\ ToDto(g).deltas = FALSE
  BY DEF ToDto, Dto, Session

LEMMA NewGameIs ==
    /\ NewGame \in Session /\ NewGame.version = 0 /\ NewGame.log = << >>
    /\ NewGame.notes = 0 /\ NewGame.status = "Waiting"
    /\ NoDto \in Dto /\ NoDto.version = 0 /\ NoDto.log = << >>
    /\ NoDto.notes = 0 /\ NoDto.status = "Waiting" /\ NoDto.deltas = FALSE
<1>0. << >> \in Seq(Nat)
  OBVIOUS
<1>1. PICK log \in Seq(Nat) : log = << >>
  BY <1>0
<1>2. NewGame \in Session
  BY <1>1 DEF NewGame, Session, Statuses
<1>3. /\ NewGame.version = 0 /\ NewGame.log = << >>
      /\ NewGame.notes = 0 /\ NewGame.status = "Waiting"
  BY DEF NewGame
<1> QED
  BY <1>2, <1>3, ToDtoIs DEF NoDto

LEMMA AttachIs ==
    ASSUME NEW d \in Dto, deltas \in BOOLEAN
    PROVE  /\ Attach(d) \in Dto /\ Attach(d).log = d.log /\ Attach(d).notes = d.notes
           /\ Attach(d).status = d.status /\ Attach(d).version = d.version
           /\ Attach(d).deltas <=> d.status = "Finished" /\ deltas
  BY DEF Attach, Dto


-----------------------------------------------------------------------------
(* Every step but a restart.  It may change the game, which then grows; it *)
(* may save it; and whatever it puts on its way was there or is the game.  *)

Derived(d, e) ==
    /\ d.log = e.log /\ d.notes = e.notes /\ d.status = e.status /\ d.version = e.version

\* Where a dto came from: from one that was known, or from the game; it shows a
\* rating change if that one did, or attaches it to the result.
Came(d) ==
    /\ d \in Dto
    /\ \E e \in Known \cup {ToDto(game')} :
          /\ Derived(d, e)
          /\ d.deltas => e.deltas \/ (deltas' /\ d.status = "Finished" /\ d.log = game'.log)

Handled(k) ==
    /\ Came(k.dto)
    /\ k.step = "finish" => k.dto.status = "Finished"
    /\ k.dto.status = "Finished" => game'.status = "Finished" /\ k.dto.log = game'.log

Changes ==
    /\ game' = game \/ Grows(game, game')
    /\ UNCHANGED <<saved, settled, deltas>> \/ SaveGame(game')
    /\ crashes' = crashes /\ lost' \in BOOLEAN /\ (lost => lost')
Handles == calls' \subseteq CallRecord /\ \A k \in calls' : Handled(k)
Delivers ==
    /\ stream' \in [Clients -> Seq(Dto)] /\ linked' \in [Clients -> BOOLEAN]
    /\ view' \in [Clients -> Dto] /\ behind' \in [Clients -> BOOLEAN]
    /\ replies' \subseteq [client : Clients, dto : Dto, whole : BOOLEAN]
    /\ \A m \in replies' : Came(m.dto)
    /\ \A c \in Clients :
          Came(view'[c]) /\ \A i \in DOMAIN stream'[c] : Came(stream'[c][i])
Ordinary == Changes /\ Handles /\ Delivers /\ SomebodySaves'

LEMMA ServerTyped ==
    ASSUME TypeOK, Changes
    PROVE  /\ game' \in Session /\ saved' \in Session /\ settled' \in Nat
           /\ deltas' \in BOOLEAN /\ crashes' \in 0 .. MaxCrashes
<1>1. game' \in Session
  BY DEF TypeOK, Changes, Grows
<1>2. saved' \in Session
  BY <1>1 DEF TypeOK, Changes, SaveGame
<1>3. settled' \in Nat
  BY DEF TypeOK, Changes, SaveGame
<1>4. deltas' \in BOOLEAN
  <2>1. CASE UNCHANGED <<saved, settled, deltas>>
    BY <2>1 DEF TypeOK
  <2>2. CASE SaveGame(game')
    <3>1. PICK ranked \in BOOLEAN : deltas' = (deltas \/ (Settles(game') /\ ranked))
      BY <2>2 DEF SaveGame
    <3>2. (deltas \/ (Settles(game') /\ ranked)) \in BOOLEAN
      OBVIOUS
    <3> QED
      BY <3>1, <3>2
  <2> QED
    BY <2>1, <2>2 DEF Changes
<1>5. crashes' \in 0 .. MaxCrashes
  BY DEF TypeOK, Changes
<1> QED
  BY <1>1, <1>2, <1>3, <1>4, <1>5

\* The game never takes back what it had.
LEMMA GameKeepsOn ==
    ASSUME TypeOK, Changes
    PROVE  /\ game.version <= game'.version
           /\ IsPrefix(game.log, game'.log) /\ game.notes <= game'.notes
           /\ game.status = "Finished" => game'.status = "Finished" /\ game'.log = game.log
<1>1. CASE game' = game
  BY <1>1, PrefixOfItself DEF TypeOK, Session
<1>2. CASE Grows(game, game')
  BY <1>2 DEF TypeOK, Session, Grows
<1> QED
  BY <1>1, <1>2 DEF Changes

LEMMA InFlightIs ==
    \A d : d \in InFlight <=>
              \/ \E k \in calls : d = k.dto
              \/ \E m \in replies : d = m.dto
              \/ \E c \in Clients : \E i \in DOMAIN stream[c] : d = stream[c][i]
              \/ \E c \in Clients : d = view[c]
<1> SUFFICES ASSUME NEW d
             PROVE  d \in InFlight <=>
                       \/ \E k \in calls : d = k.dto
                       \/ \E m \in replies : d = m.dto
                       \/ \E c \in Clients : \E i \in DOMAIN stream[c] : d = stream[c][i]
                       \/ \E c \in Clients : d = view[c]
  OBVIOUS
<1>1. d \in {k.dto : k \in calls} <=> \E k \in calls : d = k.dto
  OBVIOUS
<1>2. d \in {m.dto : m \in replies} <=> \E m \in replies : d = m.dto
  OBVIOUS
<1>3. d \in {view[c] : c \in Clients} <=> \E c \in Clients : d = view[c]
  OBVIOUS
<1>4. d \in UNION {ToSet(stream[c]) : c \in Clients} <=>
         \E c \in Clients : \E i \in DOMAIN stream[c] : d = stream[c][i]
  BY DEF ToSet
<1> QED
  BY <1>1, <1>2, <1>3, <1>4 DEF InFlight

LEMMA InFlightNext ==
    \A d : d \in InFlight' <=>
              \/ \E k \in calls' : d = k.dto
              \/ \E m \in replies' : d = m.dto
              \/ \E c \in Clients : \E i \in DOMAIN stream'[c] : d = stream'[c][i]
              \/ \E c \in Clients : d = view'[c]
<1> SUFFICES ASSUME NEW d
             PROVE  d \in InFlight' <=>
                       \/ \E k \in calls' : d = k.dto
                       \/ \E m \in replies' : d = m.dto
                       \/ \E c \in Clients : \E i \in DOMAIN stream'[c] : d = stream'[c][i]
                       \/ \E c \in Clients : d = view'[c]
  OBVIOUS
<1>1. d \in {k.dto : k \in calls'} <=> \E k \in calls' : d = k.dto
  OBVIOUS
<1>2. d \in {m.dto : m \in replies'} <=> \E m \in replies' : d = m.dto
  OBVIOUS
<1>3. d \in {view'[c] : c \in Clients} <=> \E c \in Clients : d = view'[c]
  OBVIOUS
<1>4. d \in UNION {ToSet(stream'[c]) : c \in Clients} <=>
         \E c \in Clients : \E i \in DOMAIN stream'[c] : d = stream'[c][i]
  BY DEF ToSet
<1> QED
  BY <1>1, <1>2, <1>3, <1>4 DEF InFlight

LEMMA InFlightTyped == ASSUME TypeOK PROVE InFlight \subseteq Dto
<1> SUFFICES ASSUME NEW d \in InFlight PROVE d \in Dto
  OBVIOUS
<1>1. ASSUME NEW k \in calls PROVE k.dto \in Dto
  BY <1>1 DEF TypeOK, CallRecord
<1>2. ASSUME NEW m \in replies PROVE m.dto \in Dto
  BY <1>2 DEF TypeOK
<1>3. ASSUME NEW c \in Clients, NEW i \in DOMAIN stream[c] PROVE stream[c][i] \in Dto
  BY <1>3 DEF TypeOK
<1>4. ASSUME NEW c \in Clients PROVE view[c] \in Dto
  BY <1>4 DEF TypeOK
<1> QED
  BY <1>1, <1>2, <1>3, <1>4, InFlightIs, Zenon

LEMMA KnownTyped == ASSUME TypeOK PROVE Known \subseteq Dto
  BY InFlightTyped, NewGameIs, ToDtoIs DEF Known, TypeOK

\* What is on its way has all come from somewhere.
LEMMA AllCame == ASSUME Handles, Delivers PROVE \A d \in InFlight' : Came(d)
<1> SUFFICES ASSUME NEW d \in InFlight' PROVE Came(d)
  OBVIOUS
<1>1. ASSUME NEW k \in calls' PROVE Came(k.dto)
  BY <1>1, Zenon DEF Handles, Handled
<1>2. ASSUME NEW m \in replies' PROVE Came(m.dto)
  BY <1>2, Zenon DEF Delivers
<1>3. ASSUME NEW c \in Clients PROVE Came(view'[c]) /\ \A i \in DOMAIN stream'[c] : Came(stream'[c][i])
  BY <1>3, Zenon DEF Delivers
<1> QED
  BY <1>1, <1>2, <1>3, InFlightNext, Zenon


-----------------------------------------------------------------------------
(* What every ordinary step keeps.                                         *)

\* A save changes how often the game is settled once, at its end.
LEMMA SettledOnce ==
    ASSUME TypeOK, EndIsKept, RatedAtTheEnd, settled <= 1, Changes
    PROVE  settled' <= 1 /\ RatedAtTheEnd'
<1>1. CASE UNCHANGED <<saved, settled, deltas>>
  BY <1>1 DEF RatedAtTheEnd
<1>2. CASE SaveGame(game')
  <2>1. saved' = game' /\ settled' = (IF Settles(game') THEN settled + 1 ELSE settled)
    BY <1>2 DEF SaveGame
  <2>2. deltas' => deltas \/ Settles(game')
    BY <1>2, Zenon DEF SaveGame
  <2>3. CASE Settles(game')
    <3>1. settled' = 1 /\ saved'.status = "Finished"
      BY <2>1, <2>3 DEF Settles
    <3> QED
      BY <3>1 DEF RatedAtTheEnd
  <2>4. CASE ~Settles(game')
    <3>1. settled' = settled /\ (deltas' => deltas)
      BY <2>1, <2>2, <2>4
    <3>2. saved.status = "Finished" => saved'.status = "Finished"
      BY <2>1, GameKeepsOn DEF EndIsKept
    <3> QED
      BY <3>1, <3>2 DEF RatedAtTheEnd
  <2> QED
    BY <2>3, <2>4
<1> QED
  BY <1>1, <1>2 DEF Changes

LEMMA EndStaysKept ==
    ASSUME TypeOK, EndIsKept, Changes, Handles
    PROVE  EndIsKept'
<1>1. saved'.status = "Finished" => game'.status = "Finished" /\ saved'.log = game'.log
  <2>1. CASE UNCHANGED <<saved, settled, deltas>>
    BY <2>1, GameKeepsOn DEF EndIsKept
  <2>2. CASE SaveGame(game')
    BY <2>2 DEF SaveGame
  <2> QED
    BY <2>1, <2>2 DEF Changes
<1>2. ASSUME NEW k \in calls'
      PROVE  /\ k.step = "finish" => k.dto.status = "Finished"
             /\ k.dto.status = "Finished" => game'.status = "Finished" /\ k.dto.log = game'.log
  BY <1>2, Zenon DEF Handles, Handled
<1> QED
  BY <1>1, <1>2, Zenon DEF EndIsKept

LEMMA DeltasStayDurable ==
    ASSUME TypeOK, DeltasAreDurable, EndIsKept, RatedAtTheEnd, Changes, Handles, Delivers
    PROVE  DeltasAreDurable'
<1>1. settled' <= 1 /\ RatedAtTheEnd' /\ EndIsKept'
  BY SettledOnce, EndStaysKept DEF DeltasAreDurable
<1>2. ASSUME NEW d \in InFlight', d.deltas
      PROVE  saved'.status = "Finished" /\ saved'.log = d.log /\ settled' = 1
  <2>1. PICK e \in Known \cup {ToDto(game')} :
           /\ Derived(d, e)
           /\ e.deltas \/ (deltas' /\ d.status = "Finished" /\ d.log = game'.log)
    BY <1>2, AllCame DEF Came
  <2>2. CASE deltas' /\ d.log = game'.log
    BY <1>1, <2>2 DEF RatedAtTheEnd, EndIsKept
  <2>3. CASE e.deltas
    <3>1. e \in InFlight
      <4>1. game' \in Session /\ game \in Session
        BY ServerTyped DEF TypeOK
      <4> QED
        BY <2>1, <2>3, <4>1, NewGameIs, ToDtoIs DEF Known
    <3>2. saved.status = "Finished" /\ saved.log = e.log /\ settled = 1
      BY <2>3, <3>1 DEF DeltasAreDurable
    <3>3. e.log = d.log
      BY <2>1 DEF Derived
    <3>4. CASE UNCHANGED <<saved, settled, deltas>>
      BY <3>2, <3>3, <3>4
    <3>5. CASE SaveGame(game')
      <4>1. saved' = game' /\ settled' = settled
        BY <3>2, <3>5 DEF SaveGame, Settles
      <4>2. game'.status = "Finished" /\ game'.log = saved.log
        BY <3>2, GameKeepsOn DEF EndIsKept
      <4> QED
        BY <3>2, <3>3, <4>1, <4>2
    <3> QED
      BY <3>4, <3>5 DEF Changes
  <2> QED
    BY <2>1, <2>2, <2>3
<1> QED
  BY <1>1, <1>2, Zenon DEF DeltasAreDurable

LEMMA DiskStaysBehind ==
    ASSUME TypeOK, DiskIsBehind, Changes, SomebodySaves'
    PROVE  DiskIsBehind'
<1>1. IsPrefix(saved'.log, game'.log) /\ saved'.version <= game'.version
  <2>1. game' \in Session /\ saved' \in Session /\ game \in Session /\ saved \in Session
    BY ServerTyped DEF TypeOK
  <2>2. CASE UNCHANGED <<saved, settled, deltas>>
    <3>1. PICK s \in Session, g \in Session, h \in Session : s = saved /\ g = game /\ h = game'
      BY <2>1
    <3>2. /\ IsPrefix(s.log, g.log) /\ s.version <= g.version
          /\ IsPrefix(g.log, h.log) /\ g.version <= h.version
      BY <3>1, GameKeepsOn DEF DiskIsBehind
    <3>3. IsPrefix(s.log, h.log) /\ s.version <= h.version
      <4>1. s.log \in Seq(Nat) /\ g.log \in Seq(Nat) /\ h.log \in Seq(Nat)
            /\ s.version \in Nat /\ g.version \in Nat /\ h.version \in Nat
        BY DEF Session
      <4> QED
        BY <3>2, <4>1, PrefixTransitive
    <3> QED
      BY <2>2, <3>1, <3>3
  <2>3. CASE SaveGame(game')
    BY <2>1, <2>3, PrefixOfItself DEF SaveGame, Session
  <2> QED
    BY <2>2, <2>3 DEF Changes
<1>2. calls' = {} /\ ~lost' => saved' = game'
  BY DEF SomebodySaves
<1> QED
  BY <1>1, <1>2 DEF DiskIsBehind


\* One of two dtos comes before the other, as HistoryGrows has it.
Before(d, e) ==
    /\ d.version <= e.version => IsPrefix(d.log, e.log) /\ d.notes <= e.notes
    /\ d.version = e.version => d.status = e.status

LEMMA HistoryIs ==
    ASSUME HistoryGrows, crashes = 0, NEW d \in Known, NEW e \in Known
    PROVE  d.version <= game.version /\ Before(d, e)
  BY DEF HistoryGrows, Before

\* The game after the step follows all that was known before it.
LEMMA KnownAndNext ==
    ASSUME TypeOK, HistoryGrows, crashes = 0, Changes,
           NEW d \in Known \cup {ToDto(game')}, NEW e \in Known \cup {ToDto(game')}
    PROVE  d.version <= game'.version /\ Before(d, e)
<1>1. PICK g \in Session, h \in Session : g = game /\ h = game'
  BY ServerTyped DEF TypeOK
<1>2. /\ ToDto(g) \in Dto /\ ToDto(g).log = g.log /\ ToDto(g).notes = g.notes
      /\ ToDto(g).status = g.status /\ ToDto(g).version = g.version
  BY ToDtoIs
<1>3. /\ ToDto(h) \in Dto /\ ToDto(h).log = h.log /\ ToDto(h).notes = h.notes
      /\ ToDto(h).status = h.status /\ ToDto(h).version = h.version
  BY ToDtoIs
<1>4. ToDto(g) \in Known
  BY <1>1 DEF Known
<1>5. g.version \in Nat /\ h.version \in Nat /\ g.notes \in Nat /\ h.notes \in Nat
      /\ g.log \in Seq(Nat) /\ h.log \in Seq(Nat)
  BY DEF Session
<1>6. CASE h = g
  <2>1. d \in Known /\ e \in Known
    BY <1>1, <1>4, <1>6
  <2> QED
    BY <1>1, <1>6, <2>1, HistoryIs
<1>7. CASE Grows(g, h)
  <2>1. h.version = g.version + 1 /\ IsPrefix(g.log, h.log) /\ g.notes <= h.notes
    BY <1>7 DEF Grows
  <2>2. ASSUME NEW x \in Known
        PROVE  x.version \in Nat /\ x.version <= g.version /\ Before(x, ToDto(h))
               /\ Before(ToDto(h), x)
    <3>1. /\ x.version \in Nat /\ x.notes \in Nat /\ x.log \in Seq(Nat)
      BY KnownTyped DEF Dto
    <3>2. x.version <= g.version /\ Before(x, ToDto(g))
      BY <1>1, <1>4, HistoryIs
    <3>3. IsPrefix(x.log, g.log) /\ x.notes <= g.notes
      BY <1>2, <3>2 DEF Before
    <3>4. IsPrefix(x.log, h.log) /\ x.notes <= h.notes
      BY <1>5, <2>1, <3>1, <3>3, PrefixTransitive
    <3>5. x.version < h.version
      BY <1>5, <2>1, <3>1, <3>2
    <3> QED
      BY <1>3, <1>5, <3>1, <3>2, <3>4, <3>5 DEF Before
  <2>3. Before(ToDto(h), ToDto(h))
    BY <1>3, <1>5, PrefixOfItself DEF Before
  <2>4. d.version <= h.version
    BY <1>1, <1>3, <1>5, <2>1, <2>2
  <2>5. Before(d, e)
    <3>1. CASE d \in Known /\ e \in Known
      BY <3>1, HistoryIs
    <3>2. CASE d = ToDto(h) \/ e = ToDto(h)
      BY <1>1, <2>2, <2>3, <3>2
    <3> QED
      BY <1>1, <3>1, <3>2
  <2> QED
    BY <1>1, <2>4, <2>5
<1> QED
  BY <1>1, <1>6, <1>7 DEF Changes

LEMMA HistoryKeepsGrowing ==
    ASSUME TypeOK, HistoryGrows, Changes, Handles, Delivers
    PROVE  HistoryGrows'
<1>1. crashes' # 0 => lost'
  BY DEF HistoryGrows, Changes
<1>2. ASSUME crashes' = 0, NEW d \in Known', NEW e \in Known'
      PROVE  d.version <= game'.version /\ Before(d, e)
  <2>1. crashes = 0
    BY <1>2 DEF Changes
  <2>2. ASSUME NEW x \in Known'
        PROVE  \E y \in Known \cup {ToDto(game')} : Derived(x, y)
    <3>1. CASE x \in InFlight'
      BY <3>1, AllCame DEF Came
    <3>2. CASE x \in {NoDto, ToDto(game')}
      <4>1. x \in Known \cup {ToDto(game')}
        BY <3>2 DEF Known
      <4> QED
        BY <4>1, Zenon DEF Derived
    <3> QED
      BY <2>2, <3>1, <3>2 DEF Known
  <2>3. PICK d1 \in Known \cup {ToDto(game')} : Derived(d, d1)
    BY <1>2, <2>2
  <2>4. PICK e1 \in Known \cup {ToDto(game')} : Derived(e, e1)
    BY <1>2, <2>2
  <2>5. d1.version <= game'.version /\ Before(d1, e1)
    BY <2>1, KnownAndNext
  <2> QED
    BY <2>3, <2>4, <2>5 DEF Derived, Before
<1>3. ASSUME crashes' = 0
      PROVE  \A d, e \in Known' :
                /\ d.version <= game'.version
                /\ d.version <= e.version => IsPrefix(d.log, e.log) /\ d.notes <= e.notes
                /\ d.version = e.version => d.status = e.status
  <2> SUFFICES ASSUME NEW d \in Known', NEW e \in Known'
               PROVE  /\ d.version <= game'.version
                      /\ d.version <= e.version => IsPrefix(d.log, e.log) /\ d.notes <= e.notes
                      /\ d.version = e.version => d.status = e.status
    OBVIOUS
  <2> QED
    BY <1>2, <1>3, Zenon DEF Before
<1> QED
  BY <1>1, <1>3, Zenon DEF HistoryGrows

LEMMA OrdinaryKeeps ==
    ASSUME IInv, Ordinary
    PROVE  /\ TypeOK' /\ DiskIsBehind' /\ SomebodySaves' /\ DeltasAreDurable'
           /\ EndIsKept' /\ RatedAtTheEnd' /\ HistoryGrows'
<1>1. /\ TypeOK /\ DiskIsBehind /\ DeltasAreDurable /\ EndIsKept /\ RatedAtTheEnd
      /\ HistoryGrows /\ settled <= 1
  BY DEF IInv, DeltasAreDurable
<1>2. Changes /\ Handles /\ Delivers /\ SomebodySaves'
  BY DEF Ordinary
<1>3. TypeOK'
  <2>1. /\ game' \in Session /\ saved' \in Session /\ settled' \in Nat
        /\ deltas' \in BOOLEAN /\ crashes' \in 0 .. MaxCrashes /\ lost' \in BOOLEAN
    BY <1>1, <1>2, ServerTyped DEF Changes
  <2>2. calls' \subseteq CallRecord
    BY <1>2 DEF Handles
  <2> QED
    BY <1>2, <2>1, <2>2 DEF TypeOK, Delivers
<1> QED
  BY <1>1, <1>2, <1>3, DiskStaysBehind, DeltasStayDurable, EndStaysKept, SettledOnce,
     HistoryKeepsGrowing


-----------------------------------------------------------------------------
(* Calls and dtos that a step leaves alone or makes.                       *)

LEMMA KnownCame == ASSUME TypeOK, NEW d \in Known PROVE Came(d)
<1>1. d \in Dto /\ Derived(d, d)
  BY KnownTyped DEF Derived
<1> QED
  BY <1>1, Zenon DEF Came

LEMMA GameCame == ASSUME TypeOK, Changes PROVE Came(ToDto(game'))
<1>1. ToDto(game') \in Dto /\ Derived(ToDto(game'), ToDto(game'))
  BY ServerTyped, ToDtoIs DEF Derived
<1>2. ToDto(game') \in Known \cup {ToDto(game')} /\ (ToDto(game').deltas => ToDto(game').deltas)
  OBVIOUS
<1> QED
  BY <1>1, <1>2, Zenon DEF Came

\* A copy of a known dto that has the result's change attached.
LEMMA AttachedCame ==
    ASSUME TypeOK, Changes, NEW d \in Known \cup {ToDto(game')}, NEW x \in Dto, Derived(x, d),
           x.deltas => deltas' /\ x.status = "Finished" /\ x.log = game'.log
    PROVE  Came(x)
  BY DEF Came

LEMMA OldHandled ==
    ASSUME TypeOK, EndIsKept, Changes, NEW k \in calls
    PROVE  Handled(k) /\ k \in CallRecord /\ k.dto \in Known
<1>1. k \in CallRecord
  BY DEF TypeOK
<1>2. k.dto \in Known
  BY InFlightIs DEF Known
<1>3. Came(k.dto)
  BY <1>2, KnownCame
<1>4. /\ k.step = "finish" => k.dto.status = "Finished"
      /\ k.dto.status = "Finished" => game.status = "Finished" /\ k.dto.log = game.log
  BY DEF EndIsKept
<1>5. game.status = "Finished" => game'.status = "Finished" /\ game'.log = game.log
  BY GameKeepsOn
<1> QED
  BY <1>1, <1>2, <1>3, <1>4, <1>5 DEF Handled

LEMMA NewHandled ==
    ASSUME TypeOK, Changes, NEW k \in CallRecord,
           \/ k.dto = NoDto /\ k.step # "finish"
           \/ k.dto = ToDto(game') /\ (k.step = "finish" => game'.status = "Finished")
    PROVE  Handled(k)
<1>1. CASE k.dto = NoDto /\ k.step # "finish"
  <2>1. Came(k.dto) /\ k.dto.status = "Waiting"
    BY <1>1, KnownCame, NewGameIs DEF Known
  <2> QED
    BY <1>1, <2>1 DEF Handled
<1>2. CASE k.dto = ToDto(game') /\ (k.step = "finish" => game'.status = "Finished")
  <2>1. Came(k.dto) /\ k.dto.status = game'.status /\ k.dto.log = game'.log
    BY <1>2, GameCame, ServerTyped, ToDtoIs
  <2> QED
    BY <1>2, <2>1 DEF Handled
<1> QED
  BY <1>1, <1>2

LEMMA FirstCallIs ==
    ASSUME NEW r \in Requests
    PROVE  \E k \in CallRecord :
              k = Call(r, "engines", NoDto, TRUE) /\ k.step = "engines" /\ k.dto = NoDto
<1>1. PICK dto \in Dto : dto = NoDto
  BY NewGameIs
<1>2. Call(r, "engines", dto, TRUE) \in CallRecord
  BY DEF Call, CallRecord
<1>3. Call(r, "engines", dto, TRUE).step = "engines" /\ Call(r, "engines", dto, TRUE).dto = dto
  BY DEF Call
<1> QED
  BY <1>1, <1>2, <1>3

LEMMA TellCallIs ==
    ASSUME NEW r \in Requests, NEW dto \in Dto, NEW full \in BOOLEAN
    PROVE  \E k \in CallRecord :
              k = Call(r, "tell", dto, full) /\ k.step = "tell" /\ k.dto = dto
<1>1. Call(r, "tell", dto, full) \in CallRecord
  BY DEF Call, CallRecord
<1>2. Call(r, "tell", dto, full).step = "tell" /\ Call(r, "tell", dto, full).dto = dto
  BY DEF Call
<1> QED
  BY <1>1, <1>2

\* A handler that takes one step: a copy of its record with these fields new.
LEMMA NextCallIs ==
    ASSUME NEW k \in CallRecord, NEW dto \in Dto, NEW announced \in BOOLEAN,
           NEW step \in {"engines", "finish", "announce", "save", "tell"}
    PROVE  LET j == [k EXCEPT !.step = step, !.dto = dto, !.announced = announced]
           IN  /\ j \in CallRecord
               /\ j.step = step /\ j.dto = dto /\ j.announced = announced
  BY DEF CallRecord

LEMMA QuietDelivers == ASSUME TypeOK, UNCHANGED clientVars PROVE Delivers
<1>1. ASSUME NEW m \in replies' PROVE Came(m.dto)
  <2>1. m.dto \in Known
    BY InFlightIs DEF Known, clientVars
  <2> QED
    BY <2>1, KnownCame
<1>2. ASSUME NEW c \in Clients
      PROVE  Came(view'[c]) /\ \A i \in DOMAIN stream'[c] : Came(stream'[c][i])
  <2>1. view[c] \in Known /\ \A i \in DOMAIN stream[c] : stream[c][i] \in Known
    BY InFlightIs DEF Known
  <2>2. Came(view[c]) /\ \A i \in DOMAIN stream[c] : Came(stream[c][i])
    BY <2>1, KnownCame
  <2> QED
    BY <2>2 DEF clientVars
<1> QED
  BY <1>1, <1>2 DEF Delivers, TypeOK, clientVars

LEMMA BroadcastDelivers ==
    ASSUME TypeOK, NEW dto \in Dto, Came(dto), Broadcast(dto)
    PROVE  /\ stream' \in [Clients -> Seq(Dto)] /\ linked' \in [Clients -> BOOLEAN]
           /\ behind' \in [Clients -> BOOLEAN]
           /\ \A c \in Clients : \A i \in DOMAIN stream'[c] : Came(stream'[c][i])
<1>1. stream' = [c \in Clients |-> IF linked[c] /\ ~Lags(c) THEN Append(stream[c], dto) ELSE << >>]
  BY DEF Broadcast
<1>2. linked' \in [Clients -> BOOLEAN]
  BY Zenon DEF Broadcast, TypeOK
<1>3. behind' \in [Clients -> BOOLEAN]
  BY Zenon DEF Broadcast, TypeOK
<1>4. ASSUME NEW c \in Clients
      PROVE  stream'[c] \in Seq(Dto) /\ \A i \in DOMAIN stream'[c] : Came(stream'[c][i])
  <2>1. PICK s \in Seq(Dto) : s = stream[c]
    BY DEF TypeOK
  <2>2. \A i \in DOMAIN s : s[i] \in Known
    BY <2>1, InFlightIs DEF Known
  <2>3. \A i \in DOMAIN s : Came(s[i])
    BY <2>2, KnownCame
  <2>4. stream'[c] = Append(s, dto) \/ stream'[c] = << >>
    BY <1>1, <2>1
  <2>5. Append(s, dto) \in Seq(Dto) /\ << >> \in Seq(Dto) /\ DOMAIN << >> = {}
    BY EmptySeq
  <2>6. \A i \in DOMAIN Append(s, dto) : Append(s, dto)[i] = dto \/ (i \in DOMAIN s /\ Append(s, dto)[i] = s[i])
    OBVIOUS
  <2>7. \A i \in DOMAIN Append(s, dto) : Came(Append(s, dto)[i])
    BY <2>3, <2>6
  <2> QED
    BY <2>4, <2>5, <2>7
<1> QED
  BY <1>1, <1>2, <1>3, <1>4


LEMMA CallsHandled ==
    ASSUME TypeOK, EndIsKept, Changes, NEW k \in CallRecord, Handled(k),
           calls' \subseteq calls \cup {k}
    PROVE  Handles
<1>1. ASSUME NEW j \in calls PROVE Handled(j) /\ j \in CallRecord
  BY <1>1, OldHandled
<1> QED
  BY <1>1 DEF Handles

LEMMA FewerHandled ==
    ASSUME TypeOK, EndIsKept, Changes, calls' \subseteq calls
    PROVE  Handles
<1>1. ASSUME NEW j \in calls PROVE Handled(j) /\ j \in CallRecord
  BY <1>1, OldHandled
<1> QED
  BY <1>1 DEF Handles

-----------------------------------------------------------------------------
(* The handlers that a request starts.                                     *)

LEMMA StartOrdinary ==
    ASSUME IInv, NEW r \in Requests, Start(r)
    PROVE  Ordinary /\ Call(r, "engines", NoDto, TRUE) \in calls'
<1>1. TypeOK /\ EndIsKept
  BY DEF IInv
<1>2. Grows(game, game')
  <2>1. PICK t \in {"human", "engine"} :
           game' = [Bumped(game) EXCEPT !.status = "Active", !.turn = t]
    BY DEF Start
  <2>2. PICK b \in Session : /\ b = Bumped(game) /\ b.version = game.version + 1
                             /\ b.log = game.log /\ b.notes = game.notes
    BY <1>1, BumpedIs DEF TypeOK
  <2>3. /\ game' \in Session /\ game'.version = b.version /\ game'.log = b.log
        /\ game'.notes = b.notes
    BY <2>1, <2>2 DEF Session, Statuses
  <2>4. game.status # "Finished" /\ game.log \in Seq(Nat) /\ game.notes \in Nat
    BY <1>1 DEF Start, TypeOK, Session
  <2>5. IsPrefix(game.log, game.log)
    BY <2>4, PrefixOfItself
  <2> QED
    BY <2>2, <2>3, <2>4, <2>5 DEF Grows
<1>3. Changes
  BY <1>1, <1>2 DEF Start, Changes, TypeOK
<1>4. PICK k \in CallRecord : /\ k = Call(r, "engines", NoDto, TRUE)
                              /\ k.step = "engines" /\ k.dto = NoDto
  BY FirstCallIs
<1>5. calls' = calls \cup {k}
  BY <1>4 DEF Start, Begin
<1>6. Handled(k)
  BY <1>1, <1>3, <1>4, NewHandled
<1>7. Handles
  BY <1>1, <1>3, <1>5, <1>6, CallsHandled
<1>8. Delivers
  BY <1>1, QuietDelivers DEF Start
<1>9. SomebodySaves'
  BY <1>4, <1>5 DEF SomebodySaves
<1> QED
  BY <1>3, <1>4, <1>5, <1>7, <1>8, <1>9 DEF Ordinary

LEMMA ActOrdinary ==
    ASSUME IInv, NEW r \in Requests, Act(r)
    PROVE  Ordinary /\ Call(r, "engines", NoDto, TRUE) \in calls'
<1>1. TypeOK /\ EndIsKept
  BY DEF IInv
<1>2. Grows(game, game')
  <2>1. PICK turns \in SUBSET {"human", "engine", "nobody"} : game' \in Moved(game, turns)
    <3>1. (IF game.turn = "engine" THEN {"engine"} ELSE {"human", "engine"})
             \in SUBSET {"human", "engine", "nobody"}
      OBVIOUS
    <3> QED
      BY <3>1, Zenon DEF Act
  <2> QED
    BY <1>1, <2>1, MovedGrows DEF Act, TypeOK
<1>3. Changes
  BY <1>1, <1>2 DEF Act, Changes, TypeOK
<1>4. PICK k \in CallRecord : /\ k = Call(r, "engines", NoDto, TRUE)
                              /\ k.step = "engines" /\ k.dto = NoDto
  BY FirstCallIs
<1>5. calls' = calls \cup {k}
  BY <1>4 DEF Act, Begin
<1>6. Handled(k)
  BY <1>1, <1>3, <1>4, NewHandled
<1>7. Handles
  BY <1>1, <1>3, <1>5, <1>6, CallsHandled
<1>8. Delivers
  BY <1>1, QuietDelivers DEF Act
<1>9. SomebodySaves'
  BY <1>4, <1>5 DEF SomebodySaves
<1> QED
  BY <1>3, <1>4, <1>5, <1>7, <1>8, <1>9 DEF Ordinary

\* Chat, a time-out and a forced resignation: the change is saved under the
\* lock and a call is left to announce it, or the save failed.
LEMMA SavedInPlace ==
    ASSUME IInv, Grows(game, game'), UNCHANGED clientVars, crashes' = crashes,
           NEW r \in Requests, NEW full \in BOOLEAN,
           \/ /\ SaveGame(game') /\ UNCHANGED lost
              /\ Begin(Call(r, "tell", ToDto(game'), full))
           \/ /\ Unsaved
              /\ UNCHANGED calls \/ Begin(Call(r, "tell", ToDto(game'), full))
    PROVE  /\ Ordinary
           /\ lost' \/ Call(r, "tell", ToDto(game'), full) \in calls'
<1>1. TypeOK /\ EndIsKept
  BY DEF IInv
<1>2. Changes
  BY <1>1 DEF Changes, Unsaved, TypeOK
<1>3. ToDto(game') \in Dto
  BY <1>1, <1>2, ServerTyped, ToDtoIs
<1>4. PICK k \in CallRecord : /\ k = Call(r, "tell", ToDto(game'), full)
                              /\ k.step = "tell" /\ k.dto = ToDto(game')
  BY <1>3, TellCallIs
<1>5. calls' = calls \/ calls' = calls \cup {k}
  BY <1>4 DEF Begin
<1>6. Handled(k)
  BY <1>1, <1>2, <1>4, NewHandled
<1>7. Handles
  BY <1>1, <1>2, <1>5, <1>6, CallsHandled
<1>8. Delivers
  BY <1>1, QuietDelivers
<1>9. lost' \/ (saved' = game' /\ k \in calls')
  BY <1>4 DEF SaveGame, Unsaved, Begin
<1>10. SomebodySaves'
  BY <1>9 DEF SomebodySaves
<1> QED
  BY <1>2, <1>4, <1>7, <1>8, <1>9, <1>10 DEF Ordinary

LEMMA ChatOrdinary ==
    ASSUME IInv, NEW r \in Requests, Chat(r)
    PROVE  Ordinary /\ (lost' \/ Call(r, "tell", ToDto(game'), FALSE) \in calls')
<1>1. Grows(game, game')
  BY NotedGrows DEF IInv, TypeOK, Chat
<1>2. UNCHANGED clientVars /\ crashes' = crashes
  BY DEF Chat
<1>3. \/ /\ SaveGame(game') /\ UNCHANGED lost
         /\ Begin(Call(r, "tell", ToDto(game'), FALSE))
      \/ Unsaved /\ UNCHANGED calls
  BY Zenon DEF Chat
<1> QED
  BY <1>1, <1>2, <1>3, SavedInPlace

LEMMA RetireGrows ==
    ASSUME IInv, NEW r \in Requests, Retire(r)
    PROVE  Grows(game, game') /\ UNCHANGED clientVars /\ crashes' = crashes
<1>1. {"human", "engine"} \in SUBSET {"human", "engine", "nobody"}
  OBVIOUS
<1>2. game' \in Moved(game, {"human", "engine"}) /\ game.status = "Active"
      /\ UNCHANGED clientVars /\ crashes' = crashes
  BY Zenon DEF Retire
<1>3. game \in Session /\ crashes \in Nat
  BY BoundsAssumption DEF IInv, TypeOK
<1> QED
  BY <1>1, <1>2, <1>3, MovedGrows

LEMMA ExpireOrdinary ==
    ASSUME IInv, NEW r \in Requests, Expire(r)
    PROVE  Ordinary /\ (lost' \/ Call(r, "tell", ToDto(game'), TRUE) \in calls')
<1>1. Grows(game, game') /\ UNCHANGED clientVars /\ crashes' = crashes
  BY RetireGrows DEF Expire
<1>2. \/ SaveGame(game') /\ UNCHANGED lost /\ Begin(Call(r, "tell", ToDto(game'), TRUE))
      \/ Unsaved /\ Begin(Call(r, "tell", ToDto(game'), TRUE))
  BY Zenon DEF Expire, SaveAndTell
<1> QED
  BY <1>1, <1>2, SavedInPlace

LEMMA ForceResignOrdinary ==
    ASSUME IInv, NEW r \in Requests, ForceResign(r)
    PROVE  Ordinary /\ (lost' \/ Call(r, "tell", ToDto(game'), TRUE) \in calls')
<1>1. Grows(game, game') /\ UNCHANGED clientVars /\ crashes' = crashes
  BY RetireGrows DEF ForceResign
<1>2. \/ SaveGame(game') /\ UNCHANGED lost /\ Begin(Call(r, "tell", ToDto(game'), TRUE))
      \/ Unsaved /\ UNCHANGED calls
  BY Zenon DEF ForceResign, SaveAndTell
<1> QED
  BY <1>1, <1>2, SavedInPlace

LEMMA RemoveOrdinary ==
    ASSUME IInv, RemoveForPlayer
    PROVE  Ordinary /\ game'.log = game.log /\ game'.notes = game.notes
<1>1. TypeOK /\ EndIsKept
  BY DEF IInv
<1>2. Grows(game, game') /\ game'.log = game.log /\ game'.notes = game.notes
  <2>1. PICK b \in Session : /\ b = Bumped(game) /\ b.version = game.version + 1
                             /\ b.log = game.log /\ b.notes = game.notes
                             /\ b.status = game.status
    BY <1>1, BumpedIs DEF TypeOK
  <2>2. game' = [b EXCEPT !.hidden = TRUE]
    BY <2>1 DEF RemoveForPlayer
  <2>3. /\ game' \in Session /\ game'.version = b.version /\ game'.log = b.log
        /\ game'.notes = b.notes /\ game'.status = b.status
    BY <2>2 DEF Session
  <2>4. game.log \in Seq(Nat) /\ game.notes \in Nat
    BY <1>1 DEF TypeOK, Session
  <2>5. IsPrefix(game.log, game.log)
    BY <2>4, PrefixOfItself
  <2> QED
    BY <2>1, <2>3, <2>4, <2>5 DEF Grows
<1>3. Changes
  BY <1>1, <1>2 DEF RemoveForPlayer, Changes, Unsaved, TypeOK
<1>4. Handles
  BY <1>1, <1>3, FewerHandled DEF RemoveForPlayer
<1>5. Delivers
  BY <1>1, QuietDelivers DEF RemoveForPlayer
<1>6. SomebodySaves'
  BY DEF RemoveForPlayer, SaveGame, Unsaved, SomebodySaves
<1> QED
  BY <1>2, <1>3, <1>4, <1>5, <1>6 DEF Ordinary


-----------------------------------------------------------------------------
(* The steps of a handler.                                                 *)

LEMMA EngineTurnOrdinary ==
    ASSUME IInv, NEW c \in calls, EngineTurn(c)
    PROVE  /\ Ordinary
           /\ \E k \in calls' :
                 \/ k.step \in {"finish", "announce"} /\ k.dto = ToDto(game')
                 \/ /\ game' = game /\ calls' = (calls \ {c}) \cup {k}
                    /\ k.step = "save" /\ k.announced = c.announced
<1>1. TypeOK /\ EndIsKept /\ c \in CallRecord /\ c.step = "engines"
  BY DEF IInv, TypeOK, EngineTurn
<1>2. CASE EngineOnTurn
  <2>1. game' \in Moved(game, {"human", "engine"})
    BY <1>2 DEF EngineTurn, EngineMoves
  <2>2. {"human", "engine"} \in SUBSET {"human", "engine", "nobody"} /\ crashes \in Nat
    BY <1>1, BoundsAssumption DEF TypeOK
  <2>3. Grows(game, game')
    BY <1>1, <1>2, <2>1, <2>2, MovedGrows DEF EngineOnTurn, TypeOK
  <2>4. Changes
    BY <1>1, <2>3 DEF EngineTurn, Changes, TypeOK
  <2>5. PICK step \in {"finish", "announce"} :
           step = IF game'.status = "Finished" THEN "finish" ELSE "announce"
    BY Zenon
  <2>6. PICK dto \in Dto : dto = ToDto(game') /\ dto.status = game'.status
    BY <1>1, <2>4, ServerTyped, ToDtoIs
  <2>7. PICK k : k = [c EXCEPT !.dto = dto, !.step = step]
    OBVIOUS
  <2>8. k \in CallRecord /\ k.dto = dto /\ k.step = step
    BY <1>1, <2>7 DEF CallRecord
  <2>9. calls' = (calls \ {c}) \cup {k}
    BY <1>2, <2>5, <2>6, <2>7 DEF EngineTurn, Step
  <2>10. Handled(k)
    BY <1>1, <2>4, <2>5, <2>6, <2>8, NewHandled
  <2>11. Handles
    BY <1>1, <2>4, <2>8, <2>9, <2>10, CallsHandled
  <2>12. Delivers
    BY <1>1, QuietDelivers DEF EngineTurn
  <2>13. k \in calls' /\ k.step # "tell"
    BY <2>5, <2>8, <2>9
  <2>14. SomebodySaves'
    BY <2>13 DEF SomebodySaves
  <2> QED
    BY <2>4, <2>6, <2>8, <2>11, <2>12, <2>13, <2>14 DEF Ordinary
<1>3. CASE ~EngineOnTurn
  <2>1. game' = game
    BY <1>3 DEF EngineTurn
  <2>2. Changes
    BY <1>1, <2>1 DEF EngineTurn, Changes, TypeOK
  <2>3. PICK k : k = [c EXCEPT !.step = "save"]
    OBVIOUS
  <2>4. k \in CallRecord /\ k.dto = c.dto /\ k.step = "save" /\ k.announced = c.announced
    BY <1>1, <2>3 DEF CallRecord
  <2>5. calls' = (calls \ {c}) \cup {k}
    BY <1>3, <2>3 DEF EngineTurn, Step
  <2>6. Handled(k)
    BY <1>1, <2>2, <2>4, OldHandled DEF Handled
  <2>7. Handles
    BY <1>1, <2>2, <2>4, <2>5, <2>6, CallsHandled
  <2>8. Delivers
    BY <1>1, QuietDelivers DEF EngineTurn
  <2>9. k \in calls' /\ k.step # "tell"
    BY <2>4, <2>5
  <2>10. SomebodySaves'
    BY <2>9 DEF SomebodySaves
  <2> QED
    BY <2>1, <2>2, <2>4, <2>5, <2>7, <2>8, <2>9, <2>10 DEF Ordinary
<1> QED
  BY <1>2, <1>3

LEMMA EngineFinishOrdinary ==
    ASSUME IInv, NEW c \in calls, EngineFinish(c)
    PROVE  /\ Ordinary /\ game' = game
           /\ \E k \in calls' : /\ calls' = (calls \ {c}) \cup {k}
                                /\ k.step = "announce" /\ Derived(k.dto, c.dto)
<1>1. TypeOK /\ EndIsKept /\ c \in CallRecord /\ c.dto \in Dto /\ game' = game
  BY DEF IInv, TypeOK, EngineFinish, CallRecord
<1>2. SaveGame(game')
  BY <1>1 DEF EngineFinish
<1>3. Changes
  BY <1>1, <1>2 DEF EngineFinish, Changes, TypeOK
<1>4. PICK dto : dto = [c.dto EXCEPT !.deltas = deltas']
  OBVIOUS
<1>5. dto \in Dto /\ dto.deltas = deltas' /\ Derived(dto, c.dto)
  BY <1>1, <1>3, <1>4, ServerTyped DEF Dto, Derived
<1>6. PICK k : k = [c EXCEPT !.step = "announce", !.dto = dto]
  OBVIOUS
<1>7. k \in CallRecord /\ k.dto = dto /\ k.step = "announce"
  BY <1>1, <1>5, <1>6 DEF CallRecord
<1>8. calls' = (calls \ {c}) \cup {k}
  BY <1>1, <1>4, <1>6 DEF EngineFinish, Step, CallRecord
<1>9. Handled(k)
  <2>1. c.dto.status = "Finished" /\ game.status = "Finished" /\ c.dto.log = game.log
    BY DEF IInv, EndIsKept, EngineFinish
  <2>2. c.dto \in Known
    BY <1>1, <1>3, OldHandled
  <2>3. dto.status = "Finished" /\ dto.log = game'.log
    BY <1>1, <1>5, <2>1 DEF Derived
  <2>4. Came(dto)
    BY <1>1, <1>3, <1>5, <2>2, <2>3, AttachedCame
  <2> QED
    BY <1>1, <1>7, <2>1, <2>3, <2>4 DEF Handled
<1>10. Handles
  BY <1>1, <1>3, <1>7, <1>8, <1>9, CallsHandled
<1>11. Delivers
  BY <1>1, QuietDelivers DEF EngineFinish
<1>12. SomebodySaves'
  BY <1>7, <1>8 DEF SomebodySaves
<1> QED
  BY <1>1, <1>3, <1>5, <1>7, <1>8, <1>10, <1>11, <1>12 DEF Ordinary

LEMMA FinalSaveOrdinary ==
    ASSUME IInv, NEW c \in calls, FinalSave(c)
    PROVE  /\ Ordinary /\ game' = game
           /\ \E k \in calls' : /\ calls' = (calls \ {c}) \cup {k} /\ k.step = "tell"
                                /\ k.announced = c.announced /\ k.dto = ToDto(game)
<1>1. TypeOK /\ EndIsKept /\ c \in CallRecord /\ game' = game
  BY DEF IInv, TypeOK, FinalSave
<1>2. SaveGame(game')
  BY <1>1 DEF FinalSave
<1>3. Changes
  BY <1>1, <1>2 DEF FinalSave, Changes, TypeOK
<1>4. PICK dto \in Dto : dto = ToDto(game')
  BY <1>1, <1>3, ServerTyped, ToDtoIs
<1>5. PICK k : k = [c EXCEPT !.step = "tell", !.dto = dto]
  OBVIOUS
<1>6. k \in CallRecord /\ k.dto = dto /\ k.step = "tell" /\ k.announced = c.announced
  BY <1>1, <1>5 DEF CallRecord
<1>7. calls' = (calls \ {c}) \cup {k}
  BY <1>1, <1>4, <1>5 DEF FinalSave, Step
<1>8. Handled(k)
  BY <1>1, <1>3, <1>4, <1>6, NewHandled
<1>9. Handles
  BY <1>1, <1>3, <1>6, <1>7, <1>8, CallsHandled
<1>10. Delivers
  BY <1>1, QuietDelivers DEF FinalSave
<1>11. SomebodySaves'
  BY <1>2 DEF SomebodySaves, SaveGame
<1> QED
  BY <1>1, <1>3, <1>4, <1>6, <1>7, <1>9, <1>10, <1>11 DEF Ordinary

LEMMA CallFailsOrdinary == ASSUME IInv, NEW c \in calls, CallFails(c) PROVE Ordinary /\ lost'
<1>1. TypeOK /\ EndIsKept /\ game' = game
  BY DEF IInv, CallFails, serverVars
<1>2. Changes
  BY <1>1 DEF CallFails, Changes, serverVars
<1>3. Handles
  BY <1>1, <1>2, FewerHandled DEF CallFails
<1>4. Delivers
  BY <1>1, QuietDelivers DEF CallFails
<1>5. SomebodySaves'
  BY DEF SomebodySaves, CallFails
<1> QED
  BY <1>2, <1>3, <1>4, <1>5 DEF Ordinary, CallFails

LEMMA EngineAnnounceOrdinary ==
    ASSUME IInv, NEW c \in calls, EngineAnnounce(c)
    PROVE  /\ Ordinary /\ c.dto \in Dto /\ Broadcast(c.dto)
           /\ UNCHANGED <<game, view, replies, lost>> /\ calls \ {c} \subseteq calls'
<1>1. TypeOK /\ EndIsKept /\ c \in CallRecord /\ c.dto \in Dto /\ c.step = "announce"
  BY DEF IInv, TypeOK, EngineAnnounce, CallRecord
<1>2. /\ Broadcast(c.dto) /\ UNCHANGED <<game, saved, settled, deltas>>
      /\ UNCHANGED <<view, replies, crashes, lost>>
  BY DEF EngineAnnounce, serverVars
<1>3. Changes
  BY <1>1, <1>2 DEF Changes, TypeOK
<1>4. PICK step \in {"save", "engines"} :
         step = IF c.dto.status = "Finished" THEN "save" ELSE "engines"
  BY Zenon
<1>5. PICK dto \in Dto : dto = NoDto
  BY NewGameIs
<1>6. PICK k : k = [c EXCEPT !.announced = TRUE, !.dto = dto, !.step = step]
  OBVIOUS
<1>7. k \in CallRecord /\ k.dto = dto /\ k.step = step
  BY <1>1, <1>6 DEF CallRecord
<1>8. calls' = (calls \ {c}) \cup {k}
  BY <1>4, <1>5, <1>6 DEF EngineAnnounce, Step
<1>9. Handled(k)
  BY <1>1, <1>3, <1>4, <1>5, <1>7, NewHandled
<1>10. Handles
  BY <1>1, <1>3, <1>7, <1>8, <1>9, CallsHandled
<1>11. Came(c.dto)
  BY <1>1, <1>3, OldHandled, KnownCame
<1>12. Delivers
  <2>1. /\ stream' \in [Clients -> Seq(Dto)] /\ linked' \in [Clients -> BOOLEAN]
        /\ behind' \in [Clients -> BOOLEAN]
        /\ \A d \in Clients : \A i \in DOMAIN stream'[d] : Came(stream'[d][i])
    BY <1>1, <1>2, <1>11, BroadcastDelivers
  <2>2. ASSUME NEW m \in replies' PROVE Came(m.dto)
    <3>1. m.dto \in Known
      BY <1>2, InFlightIs DEF Known
    <3> QED
      BY <1>1, <3>1, KnownCame
  <2>3. ASSUME NEW d \in Clients PROVE Came(view'[d])
    <3>1. view[d] \in Known
      BY InFlightIs DEF Known
    <3> QED
      BY <1>1, <1>2, <3>1, KnownCame
  <2> QED
    BY <1>1, <1>2, <2>1, <2>2, <2>3 DEF Delivers, TypeOK
<1>13. k \in calls' /\ k.step # "tell"
  BY <1>4, <1>7, <1>8
<1>14. SomebodySaves'
  BY <1>13 DEF SomebodySaves
<1> QED
  BY <1>1, <1>2, <1>3, <1>8, <1>10, <1>12, <1>14 DEF Ordinary


LEMMA ShownCame ==
    ASSUME TypeOK
    PROVE  /\ \A m \in replies : Came(m.dto)
           /\ \A c \in Clients :
                 Came(view[c]) /\ \A i \in DOMAIN stream[c] : Came(stream[c][i])
<1>1. ASSUME NEW m \in replies PROVE Came(m.dto)
  <2>1. m.dto \in Known
    BY InFlightIs DEF Known
  <2> QED
    BY <2>1, KnownCame
<1>2. ASSUME NEW c \in Clients
      PROVE  Came(view[c]) /\ \A i \in DOMAIN stream[c] : Came(stream[c][i])
  <2>1. view[c] \in Known /\ \A i \in DOMAIN stream[c] : stream[c][i] \in Known
    BY InFlightIs DEF Known
  <2> QED
    BY <2>1, KnownCame
<1> QED
  BY <1>1, <1>2

LEMMA ReplyIs ==
    ASSUME NEW c \in Clients, NEW dto \in Dto, NEW whole \in BOOLEAN
    PROVE  /\ Reply(c, dto, whole) \in [client : Clients, dto : Dto, whole : BOOLEAN]
           /\ Reply(c, dto, whole).dto = dto /\ Reply(c, dto, whole).client = c
  BY DEF Reply

LEMMA TellOrdinary ==
    ASSUME IInv, NEW c \in calls, Tell(c)
    PROVE  /\ Ordinary /\ UNCHANGED <<game, view, lost>>
           /\ replies \subseteq replies' /\ calls' = calls \ {c} /\ c.step = "tell"
           /\ c.announced => UNCHANGED <<stream, linked, behind>>
           /\ ~c.announced => \E dto \in Dto : Broadcast(dto) /\ Derived(dto, c.dto)
<1>1. TypeOK /\ EndIsKept /\ c \in CallRecord /\ c.dto \in Dto /\ c.step = "tell"
  BY DEF IInv, TypeOK, Tell, CallRecord
<1>2. /\ UNCHANGED <<game, saved, settled, deltas>> /\ UNCHANGED <<view, crashes, lost>>
      /\ calls' = calls \ {c}
  BY DEF Tell, serverVars
<1>3. Changes
  BY <1>1, <1>2 DEF Changes, TypeOK
<1>4. PICK dto : dto = IF c.full THEN Attach(c.dto) ELSE c.dto
  OBVIOUS
<1>5. /\ IF Announces(c) THEN Broadcast(dto) ELSE UNCHANGED <<stream, linked, behind>>
      /\ \/ UNCHANGED replies
         \/ \E w \in Clients : replies' = replies \cup {Reply(w, dto, FALSE)}
  BY <1>4, Zenon DEF Tell
<1>6. dto \in Dto /\ Derived(dto, c.dto) /\ Came(dto)
  <2>1. c.dto \in Known /\ Came(c.dto)
    BY <1>1, <1>3, OldHandled, KnownCame
  <2>2. CASE c.full
    <3>1. dto = Attach(c.dto)
      BY <1>4, <2>2
    <3>2. /\ dto \in Dto /\ Derived(dto, c.dto)
          /\ dto.deltas => c.dto.status = "Finished" /\ deltas
      BY <1>1, <3>1, AttachIs DEF TypeOK, Derived
    <3>3. c.dto.status = "Finished" => c.dto.log = game.log
      BY <1>1 DEF EndIsKept
    <3>4. dto.deltas => deltas' /\ dto.status = "Finished" /\ dto.log = game'.log
      BY <1>2, <3>2, <3>3 DEF Derived
    <3> QED
      BY <1>1, <1>3, <2>1, <3>2, <3>4, AttachedCame
  <2>3. CASE ~c.full
    BY <1>1, <1>4, <2>1, <2>3 DEF Derived
  <2> QED
    BY <2>2, <2>3
<1>7. Handles
  BY <1>1, <1>2, <1>3, FewerHandled
<1>8. /\ replies \subseteq replies'
      /\ replies' \subseteq [client : Clients, dto : Dto, whole : BOOLEAN]
      /\ \A m \in replies' : Came(m.dto)
  <2>1. replies \subseteq [client : Clients, dto : Dto, whole : BOOLEAN]
        /\ \A m \in replies : Came(m.dto)
    BY <1>1, ShownCame DEF TypeOK
  <2>2. CASE UNCHANGED replies
    BY <2>1, <2>2
  <2>3. CASE \E w \in Clients : replies' = replies \cup {Reply(w, dto, FALSE)}
    <3>1. PICK w \in Clients : replies' = replies \cup {Reply(w, dto, FALSE)}
      BY <2>3
    <3>2. /\ Reply(w, dto, FALSE) \in [client : Clients, dto : Dto, whole : BOOLEAN]
          /\ Reply(w, dto, FALSE).dto = dto
      BY <1>6, ReplyIs
    <3> QED
      BY <1>6, <2>1, <3>1, <3>2
  <2> QED
    BY <1>5, <2>2, <2>3
<1>9. /\ stream' \in [Clients -> Seq(Dto)] /\ linked' \in [Clients -> BOOLEAN]
      /\ behind' \in [Clients -> BOOLEAN]
      /\ \A d \in Clients : \A i \in DOMAIN stream'[d] : Came(stream'[d][i])
  <2>1. CASE Announces(c)
    BY <1>1, <1>5, <1>6, <2>1, BroadcastDelivers
  <2>2. CASE ~Announces(c)
    <3>1. UNCHANGED <<stream, linked, behind>>
      BY <1>5, <2>2
    <3> QED
      BY <1>1, <3>1, ShownCame DEF TypeOK
  <2> QED
    BY <2>1, <2>2
<1>10. Delivers
  <2>1. view' \in [Clients -> Dto] /\ \A d \in Clients : Came(view'[d])
    BY <1>1, <1>2, ShownCame DEF TypeOK
  <2> QED
    BY <1>8, <1>9, <2>1 DEF Delivers
<1>11. SomebodySaves'
  BY <1>1, <1>2 DEF IInv, SomebodySaves
<1> QED
  BY <1>1, <1>2, <1>3, <1>5, <1>6, <1>7, <1>8, <1>10, <1>11 DEF Ordinary, Announces

-----------------------------------------------------------------------------
(* The clients' steps.                                                     *)

LEMMA ClientSide ==
    ASSUME IInv, UNCHANGED <<serverVars, calls, crashes, lost>>
    PROVE  Changes /\ Handles /\ SomebodySaves'
<1>1. TypeOK /\ EndIsKept /\ UNCHANGED <<game, saved, settled, deltas>>
  BY DEF IInv, serverVars
<1>2. Changes
  BY <1>1 DEF Changes, TypeOK
<1>3. Handles
  BY <1>1, <1>2, FewerHandled
<1>4. SomebodySaves'
  BY <1>1 DEF IInv, SomebodySaves
<1> QED
  BY <1>2, <1>3, <1>4

LEMMA LoadOrdinary ==
    ASSUME IInv, NEW c \in Clients, Load(c)
    PROVE  /\ Ordinary /\ replies \subseteq replies'
           /\ \E m \in replies' : /\ m.client = c /\ m.dto.log = game.log
                                  /\ m.dto.notes = game.notes
<1>1. TypeOK /\ Changes /\ Handles /\ SomebodySaves' /\ UNCHANGED <<game, deltas>>
  BY ClientSide DEF IInv, Load, serverVars
<1>2. PICK shown \in Dto : shown = ToDto(game) /\ shown.log = game.log /\ shown.notes = game.notes
  BY <1>1, ToDtoIs DEF TypeOK
<1>3. PICK dto \in Dto : /\ dto = Attach(shown) /\ Derived(dto, shown)
                         /\ (dto.deltas => dto.status = "Finished" /\ deltas)
  BY <1>1, AttachIs DEF TypeOK, Derived
<1>4. Came(dto)
  <2>1. shown \in Known
    BY <1>2 DEF Known
  <2> QED
    BY <1>1, <1>2, <1>3, <2>1, AttachedCame DEF Derived
<1>5. PICK m \in [client : Clients, dto : Dto, whole : BOOLEAN] :
         m = Reply(c, dto, TRUE) /\ m.client = c /\ m.dto = dto
  <2>1. Reply(c, dto, TRUE) \in [client : Clients, dto : Dto, whole : BOOLEAN]
    BY DEF Reply
  <2>2. Reply(c, dto, TRUE).client = c /\ Reply(c, dto, TRUE).dto = dto
    BY DEF Reply
  <2> QED
    BY <2>1, <2>2
<1>6. replies' = replies \cup {m}
  BY <1>2, <1>3, <1>5 DEF Load
<1>7. behind' \in [Clients -> BOOLEAN]
  BY <1>1 DEF Load, TypeOK
<1>8. Delivers
  BY <1>1, <1>4, <1>5, <1>6, <1>7, ShownCame DEF Load, Delivers, TypeOK
<1>9. m.dto.log = game.log /\ m.dto.notes = game.notes /\ m \in replies'
  BY <1>2, <1>3, <1>5, <1>6 DEF Derived
<1> QED
  BY <1>1, <1>5, <1>6, <1>8, <1>9 DEF Ordinary

LEMMA SubscribeOrdinary == ASSUME IInv, NEW c \in Clients, Subscribe(c) PROVE Ordinary
<1>1. TypeOK /\ Changes /\ Handles /\ SomebodySaves'
  BY ClientSide DEF IInv, Subscribe
<1>2. linked' \in [Clients -> BOOLEAN]
  BY <1>1 DEF Subscribe, TypeOK
<1> QED
  BY <1>1, <1>2, ShownCame DEF Subscribe, Ordinary, Delivers, TypeOK

LEMMA DisconnectOrdinary == ASSUME IInv, NEW c \in Clients, Disconnect(c) PROVE Ordinary
<1>1. TypeOK /\ Changes /\ Handles /\ SomebodySaves'
  BY ClientSide DEF IInv, Disconnect
<1>2. linked' \in [Clients -> BOOLEAN]
  BY <1>1 DEF Disconnect, TypeOK
<1>3. stream' \in [Clients -> Seq(Dto)]
  BY <1>1, EmptySeq DEF Disconnect, TypeOK
<1>4. behind' \in [Clients -> BOOLEAN]
  <2>1. PICK b \in BOOLEAN : b = (behind[c] \/ stream[c] # << >>)
    OBVIOUS
  <2>2. behind' = [behind EXCEPT ![c] = b]
    BY <2>1 DEF Disconnect
  <2> QED
    BY <1>1, <2>2 DEF TypeOK
<1>5. ASSUME NEW d \in Clients PROVE \A i \in DOMAIN stream'[d] : Came(stream'[d][i])
  <2>1. stream'[d] = stream[d] \/ stream'[d] = << >>
    BY <1>1 DEF Disconnect, TypeOK
  <2>2. DOMAIN << >> = {}
    OBVIOUS
  <2> QED
    BY <1>1, <2>1, <2>2, ShownCame
<1> QED
  BY <1>1, <1>2, <1>3, <1>4, <1>5, ShownCame DEF Disconnect, Ordinary, Delivers, TypeOK

\* What c shows next is what it showed or what it was given.
LEMMA ShownIs ==
    ASSUME TypeOK, NEW c \in Clients, NEW dto \in Dto, Came(dto), view' = Shown(c, dto)
    PROVE  /\ view' \in [Clients -> Dto] /\ \A d \in Clients : Came(view'[d])
           /\ view'[c] = IF Newer(view[c], dto) THEN dto ELSE view[c]
           /\ \A d \in Clients \ {c} : view'[d] = view[d]
<1>1. view' = IF Newer(view[c], dto) THEN [view EXCEPT ![c] = dto] ELSE view
  BY DEF Shown
<1>2. \A d \in Clients : Came(view[d])
  BY ShownCame
<1> QED
  BY <1>1, <1>2 DEF TypeOK

LEMMA ReceiveOrdinary ==
    ASSUME IInv, NEW c \in Clients, Receive(c)
    PROVE  /\ Ordinary /\ stream[c] # << >> /\ Head(stream[c]) \in Known
           /\ view'[c] = IF Newer(view[c], Head(stream[c])) THEN Head(stream[c]) ELSE view[c]
           /\ stream'[c] = Tail(stream[c])
           /\ \A d \in Clients \ {c} : view'[d] = view[d] /\ stream'[d] = stream[d]
<1>1. TypeOK /\ Changes /\ Handles /\ SomebodySaves'
  BY ClientSide DEF IInv, Receive
<1>2. PICK s \in Seq(Dto) : s = stream[c] /\ s # << >>
  BY <1>1 DEF Receive, TypeOK
<1>3. PICK h \in Dto : h = Head(s) /\ h = s[1] /\ 1 \in DOMAIN s
  BY <1>2
<1>4. h \in Known
  BY <1>2, <1>3, InFlightIs DEF Known
<1>5. Came(h)
  BY <1>1, <1>4, KnownCame
<1>6. view' = Shown(c, h)
  BY <1>2, <1>3 DEF Receive
<1>7. /\ view' \in [Clients -> Dto] /\ \A d \in Clients : Came(view'[d])
      /\ view'[c] = IF Newer(view[c], h) THEN h ELSE view[c]
      /\ \A d \in Clients \ {c} : view'[d] = view[d]
  BY <1>1, <1>5, <1>6, ShownIs
<1>8. /\ Tail(s) \in Seq(Dto) /\ \A i \in DOMAIN Tail(s) : i + 1 \in DOMAIN s /\ Tail(s)[i] = s[i + 1]
  BY <1>2
<1>9. stream' = [stream EXCEPT ![c] = Tail(s)]
  BY <1>2 DEF Receive
<1>10. /\ stream' \in [Clients -> Seq(Dto)] /\ stream'[c] = Tail(s)
       /\ \A d \in Clients \ {c} : stream'[d] = stream[d]
  BY <1>1, <1>8, <1>9 DEF TypeOK
<1>11. ASSUME NEW d \in Clients PROVE \A i \in DOMAIN stream'[d] : Came(stream'[d][i])
  <2>1. CASE d = c
    <3>1. \A i \in DOMAIN s : Came(s[i])
      BY <1>1, <1>2, ShownCame
    <3>2. \A i \in DOMAIN Tail(s) : Came(Tail(s)[i])
      BY <1>8, <3>1
    <3> QED
      BY <1>10, <2>1, <3>2
  <2>2. CASE d # c
    BY <1>1, <1>10, <2>2, ShownCame
  <2> QED
    BY <2>1, <2>2
<1>12. Delivers
  <2>1. /\ linked' \in [Clients -> BOOLEAN] /\ behind' \in [Clients -> BOOLEAN]
        /\ replies' \subseteq [client : Clients, dto : Dto, whole : BOOLEAN]
        /\ \A m \in replies' : Came(m.dto)
    BY <1>1, ShownCame DEF Receive, TypeOK
  <2> QED
    BY <1>7, <1>10, <1>11, <2>1 DEF Delivers
<1> QED
  BY <1>1, <1>2, <1>3, <1>4, <1>7, <1>10, <1>12 DEF Ordinary

LEMMA RespondOrdinary ==
    ASSUME IInv, NEW m \in replies, Respond(m)
    PROVE  /\ Ordinary /\ m.client \in Clients /\ m.dto \in Known
           /\ replies' = replies \ {m} /\ UNCHANGED stream
           /\ \A d \in Clients \ {m.client} : view'[d] = view[d] /\ behind'[d] = behind[d]
           /\ \/ /\ UNCHANGED behind
                 /\ view'[m.client] = IF Newer(view[m.client], m.dto) THEN m.dto
                                      ELSE view[m.client]
              \/ behind'[m.client] /\ UNCHANGED view
<1>1. TypeOK /\ Changes /\ Handles /\ SomebodySaves'
  BY ClientSide DEF IInv, Respond
<1>2. m.client \in Clients /\ m.dto \in Dto
  BY <1>1 DEF TypeOK
<1>3. m.dto \in Known
  BY InFlightIs DEF Known
<1>4. Came(m.dto)
  BY <1>1, <1>3, KnownCame
<1>5. replies' = replies \ {m} /\ UNCHANGED <<stream, linked>>
  BY DEF Respond
<1>6. CASE view' = Shown(m.client, m.dto) /\ UNCHANGED behind
  <2>1. /\ view' \in [Clients -> Dto] /\ \A d \in Clients : Came(view'[d])
        /\ view'[m.client] = IF Newer(view[m.client], m.dto) THEN m.dto ELSE view[m.client]
        /\ \A d \in Clients \ {m.client} : view'[d] = view[d]
    BY <1>1, <1>2, <1>4, <1>6, ShownIs
  <2>2. Delivers
    BY <1>1, <1>5, <1>6, <2>1, ShownCame DEF Delivers, TypeOK
  <2> QED
    BY <1>1, <1>2, <1>3, <1>5, <1>6, <2>1, <2>2 DEF Ordinary
<1>7. CASE behind' = [behind EXCEPT ![m.client] = TRUE] /\ UNCHANGED view
  <2>1. /\ behind' \in [Clients -> BOOLEAN] /\ behind'[m.client]
        /\ \A d \in Clients \ {m.client} : behind'[d] = behind[d]
    BY <1>1, <1>2, <1>7 DEF TypeOK
  <2>2. Delivers
    BY <1>1, <1>5, <1>7, <2>1, ShownCame DEF Delivers, TypeOK
  <2> QED
    BY <1>1, <1>2, <1>3, <1>5, <1>7, <2>1, <2>2 DEF Ordinary
<1> QED
  BY <1>6, <1>7 DEF Respond


-----------------------------------------------------------------------------
(* A restart.                                                              *)

LEMMA CrashKeeps == ASSUME IInv, Crash PROVE IInv'
<1>1. /\ TypeOK /\ DeltasAreDurable /\ EndIsKept /\ RatedAtTheEnd
      /\ UNCHANGED <<saved, settled, deltas, view>> /\ game' = saved /\ lost'
      /\ calls' = {} /\ replies' = {}
  BY DEF IInv, Crash, Loaded
<1>2. crashes' \in 0 .. MaxCrashes /\ crashes' # 0
  BY <1>1, BoundsAssumption DEF Crash, TypeOK
<1>3. /\ stream' \in [Clients -> Seq(Dto)] /\ \A c \in Clients : stream'[c] = << >>
  BY EmptySeq DEF Crash
<1>4. TypeOK'
  BY <1>1, <1>2, <1>3 DEF Crash, TypeOK
<1>5. DiskIsBehind'
  BY <1>1, PrefixOfItself DEF DiskIsBehind, TypeOK, Session
<1>6. DeltasAreDurable'
  <2>1. ASSUME NEW d \in InFlight' PROVE d \in InFlight
    BY <1>1, <1>3, InFlightIs, InFlightNext
  <2> QED
    BY <1>1, <2>1 DEF DeltasAreDurable
<1>7. EndIsKept' /\ RatedAtTheEnd'
  BY <1>1 DEF EndIsKept, RatedAtTheEnd
<1>8. SomebodySaves' /\ HistoryGrows' /\ NobodyIsForgotten'
  BY <1>1, <1>2 DEF Crash, SomebodySaves, HistoryGrows, NobodyIsForgotten
<1> QED
  BY <1>4, <1>5, <1>6, <1>7, <1>8 DEF IInv

-----------------------------------------------------------------------------
(* Nobody is forgotten.                                                    *)

LEMMA SomebodyCarries ==
    ASSUME NEW k \in calls', Carries(k)'
    PROVE  NobodyIsForgotten'
  BY DEF NobodyIsForgotten, Served

LEMMA NewCallCarries ==
    ASSUME NEW k \in calls', k.announced = FALSE,
           \/ k.step \in {"engines", "save"}
           \/ k.step \in {"finish", "announce", "tell"} /\ k.dto.log = game'.log /\ k.dto.notes = game'.notes
    PROVE  NobodyIsForgotten'
<1>1. Carries(k)'
  BY DEF Carries, Current
<1> QED
  BY <1>1, SomebodyCarries

\* c keeps what serves it: nothing is taken from it and the game shows the same.
LEMMA StillServed ==
    ASSUME NEW c \in Clients, Served(c), game'.log = game.log, game'.notes = game.notes,
           view'[c] = view[c], replies \subseteq replies',
           \A i \in DOMAIN stream[c] : i \in DOMAIN stream'[c] /\ stream'[c][i] = stream[c][i],
           \A k \in calls : Carries(k) => \E j \in calls' : Carries(j)'
    PROVE  Served(c)'
<1>1. CASE Current(view[c])
  BY <1>1 DEF Served, Current
<1>2. CASE \E i \in DOMAIN stream[c] : Current(stream[c][i])
  BY <1>2 DEF Served, Current
<1>3. CASE \E m \in replies : m.client = c /\ Current(m.dto)
  BY <1>3 DEF Served, Current
<1>4. CASE \E k \in calls : Carries(k)
  BY <1>4 DEF Served
<1> QED
  BY <1>1, <1>2, <1>3, <1>4 DEF Served

\* A step of the server that only changes calls, or adds a response.
LEMMA NobodyLeft ==
    ASSUME NobodyIsForgotten, game'.log = game.log, game'.notes = game.notes,
           UNCHANGED <<stream, view, behind>>, replies \subseteq replies', lost => lost',
           \A k \in calls : Carries(k) => \E j \in calls' : Carries(j)'
    PROVE  NobodyIsForgotten'
<1>1. ASSUME NEW c \in Clients, Served(c) PROVE Served(c)'
  BY <1>1, StillServed
<1> QED
  BY <1>1 DEF NobodyIsForgotten

LEMMA BroadcastServes ==
    ASSUME TypeOK, NobodyIsForgotten, NEW dto \in Dto, Broadcast(dto),
           UNCHANGED <<game, view, lost>>, replies \subseteq replies',
           \A k \in calls : Carries(k) => Current(dto) \/ \E j \in calls' : Carries(j)'
    PROVE  NobodyIsForgotten'
<1>1. SUFFICES ASSUME ~lost, NEW c \in Clients PROVE behind'[c] \/ Served(c)'
  BY DEF NobodyIsForgotten
<1>2. CASE behind[c] \/ ~linked[c] \/ Lags(c)
  BY <1>2, Zenon DEF Broadcast
<1>3. CASE ~behind[c] /\ linked[c] /\ ~Lags(c)
  <2>1. PICK s \in Seq(Dto) : s = stream[c]
    BY DEF TypeOK
  <2>2. stream'[c] = Append(s, dto)
    BY <1>3, <2>1 DEF Broadcast
  <2>3. /\ \A i \in DOMAIN s : i \in DOMAIN Append(s, dto) /\ Append(s, dto)[i] = s[i]
        /\ Len(s) + 1 \in DOMAIN Append(s, dto) /\ Append(s, dto)[Len(s) + 1] = dto
    OBVIOUS
  <2>4. CASE Current(dto)
    BY <2>2, <2>3, <2>4 DEF Served, Current
  <2>5. CASE ~Current(dto)
    <3>1. \A k \in calls : Carries(k) => \E j \in calls' : Carries(j)'
      BY <2>5
    <3>2. Served(c)
      BY <1>1, <1>3 DEF NobodyIsForgotten
    <3>3. \A i \in DOMAIN stream[c] : i \in DOMAIN stream'[c] /\ stream'[c][i] = stream[c][i]
      BY <2>1, <2>2, <2>3
    <3> QED
      BY <3>1, <3>2, <3>3, StillServed
  <2> QED
    BY <2>4, <2>5
<1> QED
  BY <1>2, <1>3

\* "Only a strictly greater version wins" never replaces the game by less.
LEMMA NewerIsCurrent ==
    ASSUME IInv, crashes = 0, NEW v \in Known, NEW d \in Known, Current(v) \/ Current(d)
    PROVE  Current(IF Newer(v, d) THEN d ELSE v)
<1>1. PICK g \in Dto : g = ToDto(game) /\ g.log = game.log /\ g.notes = game.notes /\ g.version = game.version
  BY ToDtoIs DEF IInv, TypeOK
<1>2. g \in Known
  BY <1>1 DEF Known
<1>3. /\ v.log \in Seq(Nat) /\ v.notes \in Nat /\ v.version \in Nat
      /\ d.log \in Seq(Nat) /\ d.notes \in Nat /\ d.version \in Nat
      /\ g.log \in Seq(Nat) /\ g.notes \in Nat /\ g.version \in Nat
  BY KnownTyped DEF IInv, Dto
<1>4. /\ IsPrefix(v.log, g.log) /\ v.notes <= g.notes
      /\ IsPrefix(d.log, g.log) /\ d.notes <= g.notes
  BY <1>1, <1>2, HistoryIs DEF IInv, Before
<1>5. /\ v.version <= d.version => IsPrefix(v.log, d.log) /\ v.notes <= d.notes
      /\ d.version <= v.version => IsPrefix(d.log, v.log) /\ d.notes <= v.notes
  BY HistoryIs DEF IInv, Before
<1>6. CASE Newer(v, d)
  <2>1. IsPrefix(v.log, d.log) /\ v.notes <= d.notes
    BY <1>3, <1>5, <1>6 DEF Newer
  <2>2. Current(v) => d.log = g.log /\ d.notes = g.notes
    BY <1>1, <1>3, <1>4, <2>1, PrefixBothWays DEF Current
  <2> QED
    BY <1>1, <1>6, <2>2 DEF Current
<1>7. CASE ~Newer(v, d)
  <2>1. IsPrefix(d.log, v.log) /\ d.notes <= v.notes
    BY <1>3, <1>5, <1>7 DEF Newer
  <2>2. Current(d) => v.log = g.log /\ v.notes = g.notes
    BY <1>1, <1>3, <1>4, <2>1, PrefixBothWays DEF Current
  <2> QED
    BY <1>1, <1>7, <2>2 DEF Current
<1> QED
  BY <1>6, <1>7


\* The same for a client's own step: c shows the newer of v and d next.
LEMMA ReaderStaysServed ==
    ASSUME IInv, ~lost, UNCHANGED <<game, calls>>, NEW c \in Clients, Served(c), NEW d \in Known,
           view'[c] = IF Newer(view[c], d) THEN d ELSE view[c],
           \A i \in DOMAIN stream[c] :
              stream[c][i] = d \/ \E j \in DOMAIN stream'[c] : stream'[c][j] = stream[c][i],
           \A m \in replies : m.client = c => m.dto = d \/ m \in replies'
    PROVE  Served(c)'
<1>1. crashes = 0 /\ view[c] \in Known
  BY InFlightIs DEF IInv, HistoryGrows, Known
<1>2. CASE Current(view[c]) \/ Current(d)
  <2>1. Current(view'[c])
    BY <1>1, <1>2, NewerIsCurrent
  <2> QED
    BY <2>1 DEF Served, Current
<1>3. CASE \E i \in DOMAIN stream[c] : Current(stream[c][i]) /\ stream[c][i] # d
  BY <1>3 DEF Served, Current
<1>4. CASE \E m \in replies : m.client = c /\ Current(m.dto) /\ m.dto # d
  BY <1>4 DEF Served, Current
<1>5. CASE \E k \in calls : Carries(k)
  BY <1>5 DEF Served, Carries, Current
<1> QED
  BY <1>2, <1>3, <1>4, <1>5 DEF Served

-----------------------------------------------------------------------------
(* Every step serves the clients.                                          *)

LEMMA RequestServes ==
    ASSUME IInv, NEW r \in Requests,
           Start(r) \/ Act(r) \/ Suggest(r) \/ Chat(r) \/ Expire(r) \/ ForceResign(r)
    PROVE  Ordinary /\ NobodyIsForgotten'
<1>1. CASE Start(r) \/ Act(r) \/ Suggest(r)
  <2>1. Ordinary /\ Call(r, "engines", NoDto, TRUE) \in calls'
    BY <1>1, StartOrdinary, ActOrdinary DEF Suggest
  <2>2. /\ Call(r, "engines", NoDto, TRUE).announced = FALSE
        /\ Call(r, "engines", NoDto, TRUE).step = "engines"
    BY DEF Call
  <2> QED
    BY <2>1, <2>2, NewCallCarries
<1>2. CASE Chat(r) \/ Expire(r) \/ ForceResign(r)
  <2>1. PICK full \in BOOLEAN : Ordinary /\ (lost' \/ Call(r, "tell", ToDto(game'), full) \in calls')
    BY <1>2, ChatOrdinary, ExpireOrdinary, ForceResignOrdinary
  <2>2. PICK dto \in Dto : dto = ToDto(game') /\ dto.log = game'.log /\ dto.notes = game'.notes
    BY <2>1, OrdinaryKeeps, ToDtoIs DEF TypeOK
  <2>3. /\ Call(r, "tell", dto, full).announced = FALSE
        /\ Call(r, "tell", dto, full).step = "tell" /\ Call(r, "tell", dto, full).dto = dto
    BY DEF Call
  <2>4. CASE lost'
    BY <2>1, <2>4 DEF NobodyIsForgotten
  <2>5. CASE ~lost'
    BY <2>1, <2>2, <2>3, <2>5, NewCallCarries
  <2> QED
    BY <2>4, <2>5
<1> QED
  BY <1>1, <1>2

LEMMA EngineTurnServes ==
    ASSUME IInv, NEW c \in calls, EngineTurn(c)
    PROVE  NobodyIsForgotten'
<1>1. PICK k \in calls' :
         \/ k.step \in {"finish", "announce"} /\ k.dto = ToDto(game')
         \/ /\ game' = game /\ calls' = (calls \ {c}) \cup {k}
            /\ k.step = "save" /\ k.announced = c.announced
  BY EngineTurnOrdinary
<1>2. CASE k.step \in {"finish", "announce"} /\ k.dto = ToDto(game')
  <2>1. game' \in Session
    BY EngineTurnOrdinary, OrdinaryKeeps DEF TypeOK
  <2>2. Carries(k)'
    BY <1>2, <2>1, ToDtoIs DEF Carries, Current
  <2> QED
    BY <2>2, SomebodyCarries
<1>3. CASE /\ game' = game /\ calls' = (calls \ {c}) \cup {k}
           /\ k.step = "save" /\ k.announced = c.announced
  <2>1. Carries(c) => Carries(k)'
    BY <1>3 DEF EngineTurn, Carries
  <2>2. \A j \in calls \ {c} : Carries(j) => j \in calls' /\ Carries(j)'
    BY <1>3 DEF Carries, Current
  <2>3. UNCHANGED <<stream, view, behind, replies, lost>>
    BY DEF EngineTurn, clientVars
  <2> QED
    BY <1>3, <2>1, <2>2, <2>3, NobodyLeft DEF IInv
<1> QED
  BY <1>1, <1>2, <1>3

LEMMA EngineFinishServes ==
    ASSUME IInv, NEW c \in calls, EngineFinish(c)
    PROVE  NobodyIsForgotten'
<1>1. PICK k \in calls' : /\ game' = game /\ calls' = (calls \ {c}) \cup {k}
                          /\ k.step = "announce" /\ Derived(k.dto, c.dto)
  BY EngineFinishOrdinary
<1>2. Carries(c) => Carries(k)'
  BY <1>1 DEF EngineFinish, Carries, Current, Derived
<1>3. \A j \in calls \ {c} : Carries(j) => j \in calls' /\ Carries(j)'
  BY <1>1 DEF Carries, Current
<1>4. UNCHANGED <<stream, view, behind, replies, lost>>
  BY DEF EngineFinish, clientVars
<1> QED
  BY <1>1, <1>2, <1>3, <1>4, NobodyLeft DEF IInv

LEMMA FinalSaveServes ==
    ASSUME IInv, NEW c \in calls, FinalSave(c)
    PROVE  NobodyIsForgotten'
<1>1. PICK k \in calls' : /\ game' = game /\ calls' = (calls \ {c}) \cup {k} /\ k.step = "tell"
                          /\ k.announced = c.announced /\ k.dto = ToDto(game)
  BY FinalSaveOrdinary
<1>2. k.dto.log = game'.log /\ k.dto.notes = game'.notes
  BY <1>1, ToDtoIs DEF IInv, TypeOK
<1>3. Carries(c) => Carries(k)'
  BY <1>1, <1>2 DEF FinalSave, Carries, Current
<1>4. \A j \in calls \ {c} : Carries(j) => j \in calls' /\ Carries(j)'
  BY <1>1 DEF Carries, Current
<1>5. UNCHANGED <<stream, view, behind, replies, lost>>
  BY DEF FinalSave, clientVars
<1> QED
  BY <1>1, <1>3, <1>4, <1>5, NobodyLeft DEF IInv

LEMMA EngineAnnounceServes ==
    ASSUME IInv, NEW c \in calls, EngineAnnounce(c)
    PROVE  NobodyIsForgotten'
<1>1. /\ c.dto \in Dto /\ Broadcast(c.dto) /\ calls \ {c} \subseteq calls'
      /\ UNCHANGED <<game, view, replies, lost>>
  BY EngineAnnounceOrdinary
<1>2. Carries(c) => Current(c.dto)
  BY DEF EngineAnnounce, Carries
<1>3. \A j \in calls \ {c} : Carries(j) => j \in calls' /\ Carries(j)'
  BY <1>1 DEF Carries, Current
<1>4. TypeOK /\ NobodyIsForgotten
  BY DEF IInv
<1> QED
  BY <1>1, <1>2, <1>3, <1>4, BroadcastServes

LEMMA TellServes ==
    ASSUME IInv, NEW c \in calls, Tell(c)
    PROVE  NobodyIsForgotten'
<1>1. /\ UNCHANGED <<game, view, lost>> /\ replies \subseteq replies'
      /\ calls' = calls \ {c} /\ c.step = "tell"
      /\ c.announced => UNCHANGED <<stream, linked, behind>>
      /\ ~c.announced => \E dto \in Dto : Broadcast(dto) /\ Derived(dto, c.dto)
  BY TellOrdinary
<1>2. TypeOK /\ NobodyIsForgotten
  BY DEF IInv
<1>3. \A j \in calls \ {c} : Carries(j) => j \in calls' /\ Carries(j)'
  BY <1>1 DEF Carries, Current
<1>4. CASE c.announced
  <2>1. ~Carries(c)
    BY <1>1, <1>4 DEF Carries
  <2> QED
    BY <1>1, <1>2, <1>3, <1>4, <2>1, NobodyLeft
<1>5. CASE ~c.announced
  <2>1. PICK dto \in Dto : Broadcast(dto) /\ Derived(dto, c.dto)
    BY <1>1, <1>5
  <2>2. Carries(c) => Current(dto)
    BY <1>1, <2>1 DEF Carries, Current, Derived
  <2> QED
    BY <1>1, <1>2, <1>3, <2>1, <2>2, BroadcastServes
<1> QED
  BY <1>4, <1>5


LEMMA LoadServes == ASSUME IInv, NEW c \in Clients, Load(c) PROVE NobodyIsForgotten'
<1>1. PICK m \in replies' : m.client = c /\ m.dto.log = game.log /\ m.dto.notes = game.notes
  BY LoadOrdinary
<1>2. /\ UNCHANGED <<game, calls, stream, view, lost>> /\ replies \subseteq replies'
      /\ \A d \in Clients \ {c} : behind'[d] = behind[d]
  BY LoadOrdinary DEF Load, serverVars, IInv, TypeOK
<1>3. Served(c)'
  BY <1>1, <1>2 DEF Served, Current
<1>4. ASSUME NEW d \in Clients, Served(d) PROVE Served(d)'
  <2>1. \A k \in calls : Carries(k) => k \in calls' /\ Carries(k)'
    BY <1>2 DEF Carries, Current
  <2> QED
    BY <1>2, <1>4, <2>1, StillServed
<1> QED
  BY <1>2, <1>3, <1>4 DEF IInv, NobodyIsForgotten

LEMMA SubscribeServes == ASSUME IInv, NEW c \in Clients, Subscribe(c) PROVE NobodyIsForgotten'
<1>1. UNCHANGED <<game, calls, stream, view, replies, behind, lost>>
  BY DEF Subscribe, serverVars
<1>2. \A k \in calls : Carries(k) => k \in calls' /\ Carries(k)'
  BY <1>1 DEF Carries, Current
<1>3. NobodyIsForgotten
  BY DEF IInv
<1> QED
  BY <1>1, <1>2, <1>3, NobodyLeft

LEMMA DisconnectServes == ASSUME IInv, NEW c \in Clients, Disconnect(c) PROVE NobodyIsForgotten'
<1>1. UNCHANGED <<game, calls, view, replies, lost>> /\ TypeOK /\ NobodyIsForgotten
  BY DEF Disconnect, serverVars, IInv
<1>2. \A k \in calls : Carries(k) => k \in calls' /\ Carries(k)'
  BY <1>1 DEF Carries, Current
<1>3. stream' = [stream EXCEPT ![c] = << >>]
  BY DEF Disconnect
<1>4. PICK b \in BOOLEAN : b = (behind[c] \/ stream[c] # << >>)
  OBVIOUS
<1>5. behind' = [behind EXCEPT ![c] = b]
  BY <1>4 DEF Disconnect
<1>6. SUFFICES ASSUME ~lost, NEW d \in Clients PROVE behind'[d] \/ Served(d)'
  BY <1>1 DEF NobodyIsForgotten
<1>7. CASE b /\ d = c
  BY <1>1, <1>5, <1>7 DEF TypeOK
<1>8. CASE ~b \/ d # c
  <2>1. stream'[d] = stream[d]
    BY <1>1, <1>3, <1>4, <1>8 DEF TypeOK
  <2>2. behind[d] => behind'[d]
    BY <1>1, <1>4, <1>5, <1>8 DEF TypeOK
  <2>3. Served(d) => Served(d)'
    BY <1>1, <1>2, <2>1, StillServed
  <2> QED
    BY <1>1, <1>6, <2>2, <2>3 DEF NobodyIsForgotten
<1> QED
  BY <1>7, <1>8

LEMMA ReceiveServes == ASSUME IInv, NEW c \in Clients, Receive(c) PROVE NobodyIsForgotten'
<1>1. UNCHANGED <<game, calls, replies, behind, lost>> /\ TypeOK /\ NobodyIsForgotten
  BY DEF Receive, serverVars, IInv
<1>2. PICK s \in Seq(Dto) : s = stream[c] /\ s # << >>
  BY <1>1 DEF Receive, TypeOK
<1>3. PICK h \in Known :
         /\ h = s[1] /\ view'[c] = IF Newer(view[c], h) THEN h ELSE view[c]
         /\ stream'[c] = Tail(s)
         /\ \A d \in Clients \ {c} : view'[d] = view[d] /\ stream'[d] = stream[d]
  <2>1. Head(s) = s[1]
    BY <1>2
  <2> QED
    BY <1>2, <2>1, ReceiveOrdinary
<1>4. \A k \in calls : Carries(k) => k \in calls' /\ Carries(k)'
  BY <1>1 DEF Carries, Current
<1>5. ASSUME ~lost, Served(c) PROVE Served(c)'
  <2>1. ASSUME NEW i \in DOMAIN s
        PROVE  s[i] = h \/ \E j \in DOMAIN Tail(s) : Tail(s)[j] = s[i]
    <3>1. CASE i = 1
      BY <1>3, <3>1
    <3>2. CASE i # 1
      <4>1. i - 1 \in DOMAIN Tail(s) /\ Tail(s)[i - 1] = s[i]
        BY <1>2, <3>2
      <4> QED
        BY <4>1
    <3> QED
      BY <3>1, <3>2
  <2>2. \A i \in DOMAIN stream[c] :
           stream[c][i] = h \/ \E j \in DOMAIN stream'[c] : stream'[c][j] = stream[c][i]
    BY <1>2, <1>3, <2>1
  <2> QED
    BY <1>1, <1>3, <1>5, <2>2, ReaderStaysServed
<1>6. ASSUME NEW d \in Clients \ {c}, Served(d) PROVE Served(d)'
  BY <1>1, <1>3, <1>4, <1>6, StillServed
<1> QED
  BY <1>1, <1>5, <1>6 DEF NobodyIsForgotten

LEMMA RespondServes == ASSUME IInv, NEW m \in replies, Respond(m) PROVE NobodyIsForgotten'
<1>1. /\ UNCHANGED <<game, calls, stream, lost>> /\ TypeOK /\ NobodyIsForgotten
  BY DEF Respond, serverVars, IInv
<1>2. PICK c \in Clients : c = m.client
  BY RespondOrdinary
<1>3. /\ m.dto \in Known /\ replies' = replies \ {m}
      /\ \A d \in Clients \ {c} : view'[d] = view[d] /\ behind'[d] = behind[d]
      /\ \/ /\ UNCHANGED behind
            /\ view'[c] = IF Newer(view[c], m.dto) THEN m.dto ELSE view[c]
         \/ behind'[c] /\ UNCHANGED view
  BY <1>2, RespondOrdinary
<1>4. \A k \in calls : Carries(k) => k \in calls' /\ Carries(k)'
  BY <1>1 DEF Carries, Current
<1>5. ASSUME ~lost, Served(c), ~behind'[c] PROVE Served(c)'
  BY <1>1, <1>3, <1>5, ReaderStaysServed
<1>6. ASSUME NEW d \in Clients \ {c}, Served(d) PROVE Served(d)'
  <2>1. CASE \E x \in replies : x.client = d /\ Current(x.dto)
    BY <1>1, <1>2, <1>3, <2>1 DEF Served, Current
  <2>2. CASE ~ \E x \in replies : x.client = d /\ Current(x.dto)
    BY <1>1, <1>3, <1>4, <1>6, <2>2 DEF Served, Current
  <2> QED
    BY <2>1, <2>2
<1>7. ASSUME ~lost, behind[c] PROVE behind'[c]
  BY <1>3, <1>7
<1> QED
  BY <1>1, <1>3, <1>5, <1>6, <1>7 DEF NobodyIsForgotten

-----------------------------------------------------------------------------
(* The invariant.                                                          *)

LEMMA InitConsistent == ASSUME Init PROVE IInv
<1>1. /\ game = NewGame /\ saved = NewGame /\ settled = 0 /\ deltas = FALSE /\ calls = {}
      /\ linked = [c \in Clients |-> FALSE] /\ replies = {}
      /\ behind = [c \in Clients |-> FALSE] /\ crashes = 0 /\ lost = FALSE
      /\ \A c \in Clients : stream[c] = << >> /\ view[c] = NoDto
  BY DEF Init, NoDto
<1>2. TypeOK
  <2>1. stream \in [Clients -> Seq(Dto)]
    BY EmptySeq DEF Init
  <2>2. view \in [Clients -> Dto]
    BY NewGameIs DEF Init, NoDto
  <2>3. linked \in [Clients -> BOOLEAN] /\ behind \in [Clients -> BOOLEAN]
    BY <1>1
  <2>4. crashes \in 0 .. MaxCrashes /\ settled \in Nat
    BY <1>1, BoundsAssumption
  <2>5. game \in Session /\ saved \in Session
    BY <1>1, NewGameIs
  <2> QED
    BY <1>1, <2>1, <2>2, <2>3, <2>4, <2>5 DEF TypeOK
<1>3. DiskIsBehind /\ SomebodySaves
  BY <1>1, NewGameIs, PrefixOfItself DEF DiskIsBehind, SomebodySaves, Session
<1>4. InFlight \subseteq {NoDto} /\ Known \subseteq {NoDto}
  <2>1. InFlight \subseteq {NoDto}
    BY <1>1, InFlightIs
  <2> QED
    BY <1>1, <2>1 DEF Known, NoDto
<1>5. DeltasAreDurable /\ EndIsKept /\ RatedAtTheEnd
  BY <1>1, <1>4, NewGameIs DEF DeltasAreDurable, EndIsKept, RatedAtTheEnd
<1>6. HistoryGrows
  <2>1. NoDto.log \in Seq(Nat) /\ NoDto.notes = 0 /\ NoDto.version = 0 /\ game.version = 0
    BY <1>1, NewGameIs DEF Dto
  <2>2. IsPrefix(NoDto.log, NoDto.log)
    BY <2>1, PrefixOfItself
  <2> QED
    BY <1>1, <1>4, <2>1, <2>2 DEF HistoryGrows
<1>7. NobodyIsForgotten
  <2>1. NoDto.log = game.log /\ NoDto.notes = game.notes
    BY <1>1, NewGameIs
  <2> QED
    BY <1>1, <2>1 DEF NobodyIsForgotten, Served, Current
<1> QED
  BY <1>2, <1>3, <1>5, <1>6, <1>7 DEF IInv

LEMMA StepConsistent == ASSUME IInv, [Next]_vars PROVE IInv'
<1>1. ASSUME Ordinary, NobodyIsForgotten' PROVE IInv'
  BY <1>1, OrdinaryKeeps DEF IInv
<1>2. ASSUME NEW r \in Requests,
             Start(r) \/ Act(r) \/ Suggest(r) \/ Chat(r) \/ Expire(r) \/ ForceResign(r)
      PROVE  IInv'
  BY <1>1, <1>2, RequestServes
<1>3. ASSUME NEW c \in calls, EngineTurn(c) PROVE IInv'
  BY <1>1, <1>3, EngineTurnOrdinary, EngineTurnServes
<1>4. ASSUME NEW c \in calls, EngineFinish(c) PROVE IInv'
  BY <1>1, <1>4, EngineFinishOrdinary, EngineFinishServes
<1>5. ASSUME NEW c \in calls, EngineAnnounce(c) PROVE IInv'
  BY <1>1, <1>5, EngineAnnounceOrdinary, EngineAnnounceServes
<1>6. ASSUME NEW c \in calls, FinalSave(c) PROVE IInv'
  BY <1>1, <1>6, FinalSaveOrdinary, FinalSaveServes
<1>7. ASSUME NEW c \in calls, Tell(c) PROVE IInv'
  BY <1>1, <1>7, TellOrdinary, TellServes
<1>8. ASSUME NEW c \in calls, CallFails(c) PROVE IInv'
  <2>1. Ordinary /\ NobodyIsForgotten'
    BY <1>8, CallFailsOrdinary DEF NobodyIsForgotten
  <2> QED
    BY <1>1, <2>1
<1>9. ASSUME RemoveForPlayer PROVE IInv'
  <2>1. Ordinary /\ game'.log = game.log /\ game'.notes = game.notes
    BY <1>9, RemoveOrdinary
  <2>2. UNCHANGED <<calls, stream, view, replies, behind>>
    BY <1>9 DEF RemoveForPlayer, clientVars
  <2>3. \A k \in calls : Carries(k) => k \in calls' /\ Carries(k)'
    BY <2>1, <2>2 DEF Carries, Current
  <2>4. (lost => lost') /\ NobodyIsForgotten
    BY <2>1 DEF Ordinary, Changes, IInv
  <2>5. NobodyIsForgotten'
    BY <2>1, <2>2, <2>3, <2>4, NobodyLeft
  <2> QED
    BY <1>1, <2>1, <2>5
<1>10. ASSUME Crash PROVE IInv'
  BY <1>10, CrashKeeps
<1>11. ASSUME NEW c \in Clients, Load(c) PROVE IInv'
  BY <1>1, <1>11, LoadOrdinary, LoadServes
<1>12. ASSUME NEW c \in Clients, Subscribe(c) PROVE IInv'
  BY <1>1, <1>12, SubscribeOrdinary, SubscribeServes
<1>13. ASSUME NEW c \in Clients, Receive(c) PROVE IInv'
  BY <1>1, <1>13, ReceiveOrdinary, ReceiveServes
<1>14. ASSUME NEW c \in Clients, Disconnect(c) PROVE IInv'
  BY <1>1, <1>14, DisconnectOrdinary, DisconnectServes
<1>15. ASSUME NEW m \in replies, Respond(m) PROVE IInv'
  BY <1>1, <1>15, RespondOrdinary, RespondServes
<1>16. CASE UNCHANGED vars
  <2>1. UNCHANGED <<game, saved, settled, deltas, calls, stream, linked, view, replies,
                    behind, crashes, lost>>
    BY <1>16 DEF vars, serverVars, clientVars
  <2>2. InFlight' = InFlight /\ Known' = Known
    BY <2>1 DEF InFlight, Known
  <2>3. TypeOK' /\ DiskIsBehind' /\ SomebodySaves'
    BY <2>1 DEF IInv, TypeOK, DiskIsBehind, SomebodySaves
  <2>4. DeltasAreDurable' /\ EndIsKept' /\ RatedAtTheEnd' /\ HistoryGrows'
    BY <2>1, <2>2 DEF IInv, DeltasAreDurable, EndIsKept, RatedAtTheEnd, HistoryGrows
  <2>5. NobodyIsForgotten'
    BY <2>1 DEF IInv, NobodyIsForgotten, Served, Carries, Current
  <2> QED
    BY <2>3, <2>4, <2>5 DEF IInv
<1> QED
  BY <1>2, <1>3, <1>4, <1>5, <1>6, <1>7, <1>8, <1>9, <1>10, <1>11, <1>12, <1>13, <1>14,
     <1>15, <1>16, Zenon DEF Next

\* Every reachable state satisfies the inductive invariant.
THEOREM Consistent == Spec => []IInv
  BY InitConsistent, StepConsistent, PTL DEF Spec

\* What is kept of a game, in memory, on disk, on its way and shown, has its type.
THEOREM TypeCorrect == Spec => []TypeOK
<1>1. IInv => TypeOK
  BY DEF IInv
<1> QED
  BY <1>1, Consistent, PTL

\* The snapshot is a past state of the session, and the session itself once no
\* handler is under way and none was cut off (save_game, load_game).
THEOREM DisksStayBehind == Spec => []DiskIsBehind
<1>1. IInv => DiskIsBehind
  BY DEF IInv
<1> QED
  BY <1>1, Consistent, PTL

\* The rating step runs once, and a rating change is shown only of a result that is
\* in the database (save_game, attach_rating_deltas).
THEOREM DeltasSurvive == Spec => []DeltasAreDurable
<1>1. IInv => DeltasAreDurable
  BY DEF IInv
<1> QED
  BY <1>1, Consistent, PTL

\* Before a restart a version names one state of the game, and what is on its way
\* is of its history (mark_changed, should_apply_update).
THEOREM VersionsNameStates == Spec => []VersionNamesOneState
<1>1. ASSUME IInv PROVE VersionNamesOneState
  <2>1. SUFFICES ASSUME crashes = 0, NEW d \in InFlight
                 PROVE  /\ IsPrefix(d.log, game.log)
                        /\ \A e \in InFlight \cup {ToDto(game)} :
                              d.version = e.version =>
                                 d.log = e.log /\ d.notes = e.notes /\ d.status = e.status
    BY DEF VersionNamesOneState
  <2>2. PICK g \in Dto : g = ToDto(game) /\ g.log = game.log /\ g.version = game.version
    BY <1>1, ToDtoIs DEF IInv, TypeOK
  <2>3. d \in Known /\ g \in Known
    BY <2>1, <2>2 DEF Known
  <2>4. IsPrefix(d.log, game.log)
    BY <1>1, <2>1, <2>2, <2>3, HistoryIs DEF IInv, Before
  <2>5. ASSUME NEW e \in InFlight \cup {ToDto(game)}, d.version = e.version
        PROVE  d.log = e.log /\ d.notes = e.notes /\ d.status = e.status
    <3>1. e \in Known
      BY DEF Known
    <3>2. /\ d.log \in Seq(Nat) /\ d.notes \in Nat /\ d.version \in Nat
          /\ e.log \in Seq(Nat) /\ e.notes \in Nat /\ e.version \in Nat
      BY <1>1, <2>3, <3>1, KnownTyped DEF IInv, Dto
    <3>3. Before(d, e) /\ Before(e, d)
      BY <1>1, <2>1, <2>3, <3>1, HistoryIs DEF IInv
    <3> QED
      BY <2>5, <3>2, <3>3, PrefixBothWays DEF Before
  <2> QED
    BY <2>4, <2>5
<1> QED
  BY <1>1, Consistent, PTL

\* A subscribed client that missed nothing shows the game once all is delivered
\* (the broadcasts of submit_action, run_engine_turns and the rest; stream_events).
THEOREM ClientsCatchUp == Spec => []CaughtUp
<1>1. ASSUME IInv PROVE CaughtUp
  <2>1. SUFFICES ASSUME NEW c \in Clients, ~behind[c], Settled(c), ~lost
                 PROVE  view[c].log = game.log /\ view[c].notes = game.notes
    BY DEF CaughtUp
  <2>2. Served(c)
    BY <1>1, <2>1 DEF IInv, NobodyIsForgotten
  <2>3. calls = {} /\ replies = {} /\ DOMAIN stream[c] = {}
    BY <2>1 DEF Settled
  <2> QED
    BY <2>2, <2>3 DEF Served, Current
<1> QED
  BY <1>1, Consistent, PTL
=============================================================================
