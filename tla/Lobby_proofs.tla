---------------------------- MODULE Lobby_proofs ----------------------------
(* Theorems about Lobby, for any players, seats, engines and requests,     *)
(* about what Panel offers, and about the form of a new game, for any      *)
(* names.                                                                  *)
EXTENDS Panel, FiniteSetTheorems, SequenceTheorems, WellFoundedInduction, TLAPS

Persons == Players \cup {Nobody}
RowStatuses == {"pending", "accepted", "rejected", "cancelled"}

-----------------------------------------------------------------------------
(* What the operations make of a roster.                                   *)

LEMMA FunctionIsSeq ==
    ASSUME NEW S, NEW n \in Nat, NEW f \in [1 .. n -> S]
    PROVE  f \in Seq(S) /\ Len(f) = n /\ DOMAIN f = 1 .. n
  OBVIOUS

LEMMA InSeating ==
    ASSUME NEW r \in Seating
    PROVE  /\ Len(r) \in Nat /\ DOMAIN r = 1 .. Len(r)
           /\ \A k \in DOMAIN r : /\ r[k] \in Entry /\ r[k].seat \in AllSeats
                                  /\ r[k].number \in Nat /\ r[k].holder \in Persons
<1>1. Len(r) \in Nat /\ DOMAIN r = 1 .. Len(r) /\ \A k \in DOMAIN r : r[k] \in Entry
  BY DEF Seating
<1> QED
  BY <1>1 DEF Entry, Persons

\* A seat changes hands.
Held(r, n, h) == [r EXCEPT ![n].holder = h]

LEMMA HolderSet ==
    ASSUME NEW r \in Seating, NEW n \in DOMAIN r, NEW h \in Persons
    PROVE  LET q == Held(r, n, h)
           IN  /\ q \in Seating /\ DOMAIN q = DOMAIN r /\ Len(q) = Len(r)
               /\ q[n].holder = h
               /\ \A k \in DOMAIN r : /\ q[k].seat = r[k].seat /\ q[k].number = r[k].number
                                      /\ k # n => q[k] = r[k]
<1> PICK q : q = Held(r, n, h)
  OBVIOUS
<1>1. PICK e \in Entry : e = [r[n] EXCEPT !.holder = h]
  <2>1. PICK d \in Entry : d = r[n]
    BY InSeating
  <2>2. [d EXCEPT !.holder = h] \in Entry
    BY DEF Entry, Persons
  <2> QED
    BY <2>1, <2>2
<1>2. e.seat = r[n].seat /\ e.number = r[n].number /\ e.holder = h
  <2>1. r[n] \in Entry
    BY InSeating
  <2> QED
    BY <1>1, <2>1 DEF Entry
<1>3. q = [r EXCEPT ![n] = e]
  BY <1>1 DEF Held
<1>4. q \in Seating /\ Len(q) = Len(r) /\ DOMAIN q = DOMAIN r
  BY <1>3 DEF Seating
<1> QED
  BY <1>2, <1>3, <1>4

\* A seat is added at the end.
LEMMA SeatAdded ==
    ASSUME NEW r \in Seating, NEW s \in AllSeats
    PROVE  LET q == Append(r, [seat |-> s, number |-> Len(r), holder |-> Nobody])
           IN  /\ q \in Seating /\ Len(q) = Len(r) + 1 /\ DOMAIN q = DOMAIN r \cup {Len(r) + 1}
               /\ \A k \in DOMAIN r : q[k] = r[k]
               /\ q[Len(r) + 1].seat = s /\ q[Len(r) + 1].number = Len(r)
               /\ q[Len(r) + 1].holder = Nobody
<1> PICK q : q = Append(r, [seat |-> s, number |-> Len(r), holder |-> Nobody])
  OBVIOUS
<1>1. PICK e \in Entry : e = [seat |-> s, number |-> Len(r), holder |-> Nobody]
  BY InSeating DEF Entry
<1>2. e.seat = s /\ e.number = Len(r) /\ e.holder = Nobody
  BY <1>1
<1>3. q = Append(r, e) /\ Len(r) \in Nat /\ DOMAIN r = 1 .. Len(r)
  BY <1>1, InSeating
<1>4. /\ q \in Seating /\ Len(q) = Len(r) + 1 /\ DOMAIN q = 1 .. Len(r) + 1
      /\ \A k \in 1 .. Len(r) : q[k] = r[k]
      /\ q[Len(r) + 1] = e
  BY <1>3 DEF Seating
<1> QED
  BY <1>2, <1>3, <1>4

\* A seat is removed, and the later ones are renumbered.
Without(n, k) == IF k <= n THEN k ELSE k + 1

LEMMA Remaining ==
    ASSUME NEW S, NEW r \in Seq(S), NEW n \in Nat, n + 1 \in DOMAIN r
    PROVE  /\ RemoveAt(r, n + 1) \in Seq(S)
           /\ Len(RemoveAt(r, n + 1)) = Len(r) - 1
           /\ DOMAIN RemoveAt(r, n + 1) = 1 .. Len(r) - 1
           /\ \A k \in 1 .. Len(r) - 1 :
                 /\ RemoveAt(r, n + 1)[k] = r[Without(n, k)]
                 /\ Without(n, k) \in DOMAIN r
<1>w. PICK w : w = RemoveAt(r, n + 1)
  OBVIOUS
<1>0. PICK L \in Nat : L = Len(r)
  OBVIOUS
<1>1. DOMAIN r = 1 .. L /\ n + 1 <= L
  BY <1>0
<1>2. PICK a : a = SubSeq(r, 1, n)
  OBVIOUS
<1>3. PICK b : b = SubSeq(r, n + 2, L)
  OBVIOUS
<1>4. w = a \o b
  <2>1. w = SubSeq(r, 1, (n + 1) - 1) \o SubSeq(r, (n + 1) + 1, L)
    BY <1>0, <1>w, Zenon DEF RemoveAt
  <2>2. (n + 1) - 1 = n /\ (n + 1) + 1 = n + 2
    OBVIOUS
  <2> QED
    BY <1>2, <1>3, <2>1, <2>2, Zenon
<1>5. /\ a \in Seq(S) /\ Len(a) = n /\ \A k \in 1 .. n : a[k] = r[k]
  BY <1>1, <1>2, SubSeqProperties
<1>6. /\ b \in Seq(S) /\ Len(b) = L - n - 1
      /\ \A k \in 1 .. L - n - 1 : b[k] = r[k + n + 1]
  <2>1. n + 2 \in Int /\ L \in Int /\ \A k \in n + 2 .. L : r[k] \in S
    BY <1>1
  <2>2. /\ SubSeq(r, n + 2, L) \in Seq(S)
        /\ Len(SubSeq(r, n + 2, L)) = IF n + 2 <= L THEN L - (n + 2) + 1 ELSE 0
        /\ \A k \in 1 .. L - (n + 2) + 1 :
              SubSeq(r, n + 2, L)[k] = r[(n + 2) + k - 1]
    BY <2>1, SubSeqProperties
  <2>3. /\ b \in Seq(S) /\ Len(b) = IF n + 2 <= L THEN L - (n + 2) + 1 ELSE 0
        /\ \A k \in 1 .. L - (n + 2) + 1 : b[k] = r[(n + 2) + k - 1]
    BY <1>3, <2>2, Zenon
  <2>4. /\ L - (n + 2) + 1 = L - n - 1 /\ \A k \in Nat : (n + 2) + k - 1 = k + n + 1
        /\ (IF n + 2 <= L THEN L - (n + 2) + 1 ELSE 0) = L - n - 1
    BY <1>1
  <2> QED
    BY <1>1, <2>3, <2>4
<1>7. /\ w \in Seq(S) /\ Len(w) = L - 1
      /\ \A k \in 1 .. L - 1 : w[k] = IF k <= n THEN a[k] ELSE b[k - n]
  <2>1. /\ a \o b \in Seq(S) /\ Len(a \o b) = Len(a) + Len(b)
        /\ \A k \in 1 .. Len(a) + Len(b) :
              (a \o b)[k] = IF k <= Len(a) THEN a[k] ELSE b[k - Len(a)]
    <3>1. a \in Seq(S) /\ b \in Seq(S)
      BY <1>5, <1>6
    <3> QED
      BY ONLY <3>1, ConcatProperties
  <2>2. /\ w \in Seq(S) /\ Len(w) = Len(a) + Len(b)
        /\ \A k \in 1 .. Len(a) + Len(b) : w[k] = IF k <= Len(a) THEN a[k] ELSE b[k - Len(a)]
    BY <1>4, <2>1, Zenon
  <2>3. Len(a) = n /\ Len(a) + Len(b) = L - 1
    BY <1>1, <1>5, <1>6
  <2> QED
    BY <2>2, <2>3
<1>8. ASSUME NEW k \in 1 .. L - 1
      PROVE  w[k] = r[Without(n, k)] /\ Without(n, k) \in DOMAIN r
  <2>1. CASE k <= n
    BY <1>1, <1>5, <1>7, <2>1 DEF Without
  <2>2. CASE ~(k <= n)
    <3>1. k - n \in 1 .. L - n - 1 /\ k - n + n + 1 = k + 1
      BY <1>1, <2>2
    <3> QED
      BY <1>1, <1>6, <1>7, <2>2, <3>1 DEF Without
  <2> QED
    BY <2>1, <2>2
<1>9. DOMAIN w = 1 .. L - 1
  BY <1>7
<1> QED
  BY <1>0, <1>w, <1>7, <1>8, <1>9, Zenon

LEMMA SeatRemoved ==
    ASSUME NEW r \in Seating, NEW n \in Nat, n + 1 \in DOMAIN r
    PROVE  LET q == Renumbered(RemoveAt(r, n + 1))
           IN  /\ q \in Seating /\ Len(q) = Len(r) - 1 /\ DOMAIN q = 1 .. Len(r) - 1
               /\ \A k \in 1 .. Len(r) - 1 :
                     /\ q[k].number = k - 1
                     /\ Without(n, k) \in DOMAIN r
                     /\ q[k].seat = r[Without(n, k)].seat
                     /\ q[k].holder = r[Without(n, k)].holder
<1> PICK q : q = Renumbered(RemoveAt(r, n + 1))
  OBVIOUS
<1>1. Len(r) \in Nat /\ DOMAIN r = 1 .. Len(r)
  BY InSeating
<1>2. PICK w : w = RemoveAt(r, n + 1)
  OBVIOUS
<1>3. /\ w \in Seq(Entry) /\ Len(w) = Len(r) - 1 /\ DOMAIN w = 1 .. Len(r) - 1
      /\ \A k \in 1 .. Len(r) - 1 : w[k] = r[Without(n, k)] /\ Without(n, k) \in DOMAIN r
  <2>1. r \in Seq(Entry)
    BY DEF Seating
  <2> QED
    BY <1>2, <2>1, Remaining
<1>4. q = [k \in 1 .. Len(r) - 1 |-> [w[k] EXCEPT !.number = k - 1]]
  BY <1>2, <1>3 DEF Renumbered
<1>5. ASSUME NEW k \in 1 .. Len(r) - 1
      PROVE  /\ q[k] \in Entry /\ q[k].number = k - 1
             /\ q[k].seat = w[k].seat /\ q[k].holder = w[k].holder
  <2>1. PICK m \in Nat : m = k - 1
    BY <1>1
  <2>2. q[k] = [w[k] EXCEPT !.number = m] /\ w[k] \in Entry
    BY <1>3, <1>4, <2>1
  <2> QED
    BY <2>1, <2>2 DEF Entry
<1>6. Len(r) - 1 \in Nat /\ q \in [1 .. Len(r) - 1 -> Entry]
  <2>1. DOMAIN q = 1 .. Len(r) - 1 /\ q = [k \in 1 .. Len(r) - 1 |-> q[k]]
    BY <1>4
  <2> QED
    BY <1>1, <1>5, <2>1
<1>7. q \in Seating /\ Len(q) = Len(r) - 1 /\ DOMAIN q = 1 .. Len(r) - 1
  BY <1>6, FunctionIsSeq DEF Seating
<1> QED
  BY <1>3, <1>5, <1>7

\* The occupants of two seats change places.
Traded(r, a, b) == [r EXCEPT ![a + 1] = [r[b + 1] EXCEPT !.number = a],
                             ![b + 1] = [r[a + 1] EXCEPT !.number = b]]

LEMMA SeatsSwapped ==
    ASSUME NEW r \in Seating, NEW a \in Nat, NEW b \in Nat,
           a + 1 \in DOMAIN r, b + 1 \in DOMAIN r
    PROVE  LET q == Traded(r, a, b)
           IN  /\ q \in Seating /\ Len(q) = Len(r) /\ DOMAIN q = DOMAIN r
               /\ \A k \in DOMAIN r \ {a + 1, b + 1} : q[k] = r[k]
               /\ q[a + 1].number = a /\ q[b + 1].number = b
               /\ q[a + 1].seat = r[b + 1].seat /\ q[a + 1].holder = r[b + 1].holder
               /\ q[b + 1].seat = r[a + 1].seat /\ q[b + 1].holder = r[a + 1].holder
<1> PICK q : q = Traded(r, a, b)
  OBVIOUS
<1>3. r[a + 1] \in Entry /\ r[b + 1] \in Entry
  BY InSeating
<1>7. \A x \in Entry, n \in Nat : [x EXCEPT !.number = n] \in Entry
  BY DEF Entry
<1>1. PICK d \in Entry : d = [r[b + 1] EXCEPT !.number = a]
  BY <1>3, <1>7
<1>2. PICK e \in Entry : e = [r[a + 1] EXCEPT !.number = b]
  BY <1>3, <1>7
<1>4. /\ d.seat = r[b + 1].seat /\ d.holder = r[b + 1].holder /\ d.number = a
      /\ e.seat = r[a + 1].seat /\ e.holder = r[a + 1].holder /\ e.number = b
  BY <1>1, <1>2, <1>3 DEF Entry
<1>5. q = [r EXCEPT ![a + 1] = d, ![b + 1] = e]
  BY <1>1, <1>2 DEF Traded
<1>6. q \in Seating /\ Len(q) = Len(r) /\ DOMAIN q = DOMAIN r
  BY <1>5 DEF Seating
<1> QED
  BY <1>4, <1>5, <1>6

\* claim_seat finds the seat whose number is the index, so it is an update there.
Claimed(r, n, p) ==
    [k \in DOMAIN r |->
        IF /\ r[k].number = n
           /\ \A j \in 1 .. k - 1 : r[j].number # n
        THEN [r[k] EXCEPT !.holder = p] ELSE r[k]]

LEMMA ClaimedSeat ==
    ASSUME NEW r \in Seating, \A k \in DOMAIN r : r[k].number = k - 1,
           NEW n \in Nat, NEW p
    PROVE  /\ n + 1 \in DOMAIN r => Claimed(r, n, p) = Held(r, n + 1, p)
           /\ n + 1 \notin DOMAIN r => Claimed(r, n, p) = r
<1> PICK q : q = Claimed(r, n, p)
  OBVIOUS
<1>1. PICK L \in Nat : L = Len(r) /\ DOMAIN r = 1 .. L
  BY InSeating
<1>2. r = [k \in 1 .. L |-> r[k]]
  BY <1>1 DEF Seating
<1>3. ASSUME NEW k \in 1 .. L
      PROVE  (r[k].number = n /\ \A j \in 1 .. k - 1 : r[j].number # n) <=> k = n + 1
  <2>1. r[k].number = k - 1 /\ \A j \in 1 .. k - 1 : r[j].number = j - 1
    BY <1>1
  <2> QED
    BY <2>1
<1>4. q = [k \in 1 .. L |-> IF k = n + 1 THEN [r[k] EXCEPT !.holder = p] ELSE r[k]]
  BY <1>1, <1>3 DEF Claimed
<1> QED
  BY <1>1, <1>2, <1>4 DEF Held

-----------------------------------------------------------------------------
(* Rosters that are sound stay so.                                         *)

LEMMA SoundHolder ==
    ASSUME NEW r \in Seating, NEW st, Sound(st, r), NEW n \in DOMAIN r, NEW h \in Persons,
           h # Nobody \/ st # "Active"
    PROVE  Sound(st, Held(r, n, h))
<1> PICK q : q = Held(r, n, h)
  OBVIOUS
<1>1. /\ DOMAIN q = DOMAIN r /\ Len(q) = Len(r) /\ q[n].holder = h
      /\ \A k \in DOMAIN r : /\ q[k].seat = r[k].seat /\ q[k].number = r[k].number
                             /\ k # n => q[k] = r[k]
  BY HolderSet
<1> QED
  BY <1>1 DEF Sound

LEMMA SoundAdded ==
    ASSUME NEW r \in Seating, NEW st, Sound(st, r), st # "Active", NEW s \in AllSeats,
           \A k \in DOMAIN r : r[k].seat # s
    PROVE  Sound(st, Append(r, [seat |-> s, number |-> Len(r), holder |-> Nobody]))
<1> PICK q : q = Append(r, [seat |-> s, number |-> Len(r), holder |-> Nobody])
  OBVIOUS
<1>1. /\ DOMAIN q = DOMAIN r \cup {Len(r) + 1}
      /\ \A k \in DOMAIN r : q[k] = r[k]
      /\ q[Len(r) + 1].seat = s /\ q[Len(r) + 1].number = Len(r)
      /\ Len(r) \in Nat
  BY SeatAdded, InSeating
<1> QED
  BY <1>1 DEF Sound

LEMMA SoundRemoved ==
    ASSUME NEW r \in Seating, NEW st, Sound(st, r), st # "Active", NEW n \in Nat,
           n + 1 \in DOMAIN r
    PROVE  Sound(st, Renumbered(RemoveAt(r, n + 1)))
<1> PICK q : q = Renumbered(RemoveAt(r, n + 1))
  OBVIOUS
<1>1. /\ DOMAIN q = 1 .. Len(r) - 1 /\ Len(r) \in Nat
      /\ \A k \in DOMAIN q : /\ q[k].number = k - 1 /\ Without(n, k) \in DOMAIN r
                             /\ q[k].seat = r[Without(n, k)].seat
  <2>1. /\ DOMAIN q = 1 .. Len(r) - 1
        /\ \A k \in 1 .. Len(r) - 1 : /\ q[k].number = k - 1 /\ Without(n, k) \in DOMAIN r
                                       /\ q[k].seat = r[Without(n, k)].seat
    BY SeatRemoved
  <2> QED
    BY <2>1, InSeating
<1>2. \A j, k \in DOMAIN q : Without(n, j) = Without(n, k) => j = k
  BY <1>1 DEF Without
<1> QED
  BY <1>1, <1>2 DEF Sound

LEMMA SoundSwapped ==
    ASSUME NEW r \in Seating, NEW st, Sound(st, r), st # "Active", NEW a \in Nat, NEW b \in Nat,
           a + 1 \in DOMAIN r, b + 1 \in DOMAIN r
    PROVE  Sound(st, Traded(r, a, b))
<1> PICK q : q = Traded(r, a, b)
  OBVIOUS
<1>1. /\ DOMAIN q = DOMAIN r
      /\ \A k \in DOMAIN r \ {a + 1, b + 1} : q[k] = r[k]
      /\ q[a + 1].number = a /\ q[b + 1].number = b
      /\ q[a + 1].seat = r[b + 1].seat /\ q[b + 1].seat = r[a + 1].seat
  BY SeatsSwapped
<1> DEFINE from(k) == IF k = a + 1 THEN b + 1 ELSE IF k = b + 1 THEN a + 1 ELSE k
<1>3. \A k \in DOMAIN r : from(k) \in DOMAIN r /\ q[k].seat = r[from(k)].seat
  <2>1. TAKE k \in DOMAIN r
  <2>2. CASE k = a + 1
    BY <1>1, <2>2
  <2>3. CASE k # a + 1 /\ k = b + 1
    BY <1>1, <2>3
  <2>4. CASE k # a + 1 /\ k # b + 1
    BY <1>1, <2>4
  <2> QED
    BY <2>2, <2>3, <2>4
<1>4. \A j, k \in DOMAIN r : from(j) = from(k) => j = k
  BY InSeating
<1>5. \A k \in DOMAIN r : q[k].number = k - 1
  BY <1>1 DEF Sound
<1> HIDE DEF from
<1>6. \A j, k \in DOMAIN q : q[j].seat = q[k].seat => j = k
  BY <1>1, <1>3, <1>4 DEF Sound
<1> QED
  BY <1>1, <1>5, <1>6 DEF Sound

-----------------------------------------------------------------------------
(* What the operations make of the invitations.                            *)

LEMMA InRows ==
    ASSUME NEW rs \in Seq(Row)
    PROVE  /\ Len(rs) \in Nat /\ DOMAIN rs = 1 .. Len(rs)
           /\ \A i \in DOMAIN rs : /\ rs[i] \in Row /\ rs[i].seat \in AllSeats
                                   /\ rs[i].number \in Nat /\ rs[i].invitee \in Persons
                                   /\ rs[i].status \in RowStatuses
<1>1. Len(rs) \in Nat /\ DOMAIN rs = 1 .. Len(rs) /\ \A i \in DOMAIN rs : rs[i] \in Row
  OBVIOUS
<1> QED
  BY <1>1 DEF Row, Persons, RowStatuses

LEMMA RowAppended ==
    ASSUME NEW rs \in Seq(Row), NEW s \in AllSeats, NEW n \in Nat, NEW who \in Persons
    PROVE  LET q == Append(rs, NewRow(s, n, who))
           IN  /\ q \in Seq(Row) /\ Len(q) = Len(rs) + 1
               /\ DOMAIN q = DOMAIN rs \cup {Len(rs) + 1}
               /\ \A i \in DOMAIN rs : q[i] = rs[i]
               /\ q[Len(rs) + 1].seat = s /\ q[Len(rs) + 1].number = n
               /\ q[Len(rs) + 1].status = "pending"
<1> PICK q : q = Append(rs, NewRow(s, n, who))
  OBVIOUS
<1>1. PICK e \in Row : e = NewRow(s, n, who)
  BY DEF NewRow, Row, Persons
<1>2. e.seat = s /\ e.number = n /\ e.status = "pending"
  BY <1>1 DEF NewRow
<1>3. q = Append(rs, e) /\ Len(rs) \in Nat /\ DOMAIN rs = 1 .. Len(rs)
  BY <1>1, InRows
<1>4. /\ q \in Seq(Row) /\ Len(q) = Len(rs) + 1 /\ DOMAIN q = 1 .. Len(rs) + 1
      /\ \A i \in 1 .. Len(rs) : q[i] = rs[i]
      /\ q[Len(rs) + 1] = e
  BY <1>3
<1> QED
  BY <1>2, <1>3, <1>4

LEMMA RowReplaced ==
    ASSUME NEW rs \in Seq(Row), NEW i \in DOMAIN rs, NEW e \in Row
    PROVE  LET q == [rs EXCEPT ![i] = e]
           IN  /\ q \in Seq(Row) /\ Len(q) = Len(rs) /\ DOMAIN q = DOMAIN rs
               /\ \A j \in DOMAIN rs : j # i => q[j] = rs[j]
               /\ q[i] = e
  OBVIOUS

ShiftedFrom(rs, n) ==
    [i \in DOMAIN rs |->
        IF rs[i].number > n THEN [rs[i] EXCEPT !.number = @ - 1] ELSE rs[i]]

LEMMA RowsShifted ==
    ASSUME NEW rs \in Seq(Row), NEW n \in Nat
    PROVE  LET q == ShiftedFrom(rs, n)
           IN  /\ q \in Seq(Row) /\ Len(q) = Len(rs) /\ DOMAIN q = DOMAIN rs
               /\ \A i \in DOMAIN rs :
                     /\ q[i].seat = rs[i].seat /\ q[i].status = rs[i].status
                     /\ q[i].number = IF rs[i].number > n THEN rs[i].number - 1
                                      ELSE rs[i].number
<1> PICK q : q = ShiftedFrom(rs, n)
  OBVIOUS
<1>0. q = [i \in DOMAIN rs |->
              IF rs[i].number > n THEN [rs[i] EXCEPT !.number = @ - 1] ELSE rs[i]]
  BY Zenon DEF ShiftedFrom
<1>1. PICK L \in Nat : L = Len(rs) /\ DOMAIN rs = 1 .. L
  BY InRows
<1>2. ASSUME NEW i \in 1 .. L
      PROVE  /\ q[i] \in Row /\ q[i].seat = rs[i].seat /\ q[i].status = rs[i].status
             /\ q[i].number = IF rs[i].number > n THEN rs[i].number - 1 ELSE rs[i].number
  <2>1. rs[i] \in Row /\ rs[i].number \in Nat
    BY <1>1, InRows
  <2>2. PICK m \in Nat : m = IF rs[i].number > n THEN rs[i].number - 1 ELSE rs[i].number
    BY <2>1
  <2>3. q[i] = IF rs[i].number > n THEN [rs[i] EXCEPT !.number = m] ELSE rs[i]
    BY <1>0, <1>1, <2>2
  <2>4. PICK e \in Row : e = rs[i]
    BY <2>1
  <2>5. PICK d \in Row : d = [e EXCEPT !.number = m]
    BY DEF Row
  <2>6. d.seat = e.seat /\ d.status = e.status /\ d.number = m
    BY <2>5 DEF Row
  <2>7. CASE rs[i].number > n
    BY <2>2, <2>3, <2>4, <2>5, <2>6, <2>7
  <2>8. CASE ~(rs[i].number > n)
    BY <2>1, <2>3, <2>8
  <2> QED
    BY <2>7, <2>8
<1>3. q \in [1 .. L -> Row]
  <2>1. q = [i \in 1 .. L |->
               IF rs[i].number > n THEN [rs[i] EXCEPT !.number = @ - 1] ELSE rs[i]]
    BY <1>0, <1>1
  <2>2. \A i \in 1 .. L : q[i] \in Row
    BY <1>2
  <2>3. \A i \in 1 .. L :
            (IF rs[i].number > n THEN [rs[i] EXCEPT !.number = @ - 1] ELSE rs[i]) \in Row
    BY <2>1, <2>2, Zenon
  <2> QED
    BY <2>1, <2>3, Zenon
<1>4. q \in Seq(Row) /\ Len(q) = L /\ DOMAIN q = 1 .. L
  BY <1>3, FunctionIsSeq
<1> QED
  BY <1>1, <1>2, <1>4

-----------------------------------------------------------------------------
(* What a step leaves alone.                                               *)

Snapshots == [status : Statuses, participants : Seating]
Claims(rs) == [row : DOMAIN rs, player : Players]
InviteCalls == [request : Requests, number : Nat, invitee : Persons]
AcceptCalls(rs) == [player : Players, row : DOMAIN rs, number : Nat, claimed : BOOLEAN]
RejectCalls(rs) == [player : Players, row : DOMAIN rs]
RemoveCalls(rs) == [number : Nat, row : 0 .. Len(rs), step : {"cancel", "shift", "save"}]

LEMMA Typed ==
    TypeOK <=> /\ status \in Statuses /\ participants \in Seating /\ loaded \in BOOLEAN
               /\ saved \in Snapshots /\ rows \in Seq(Row) /\ claims \subseteq Claims(rows)
               /\ invites \subseteq InviteCalls /\ accepts \subseteq AcceptCalls(rows)
               /\ rejects \subseteq RejectCalls(rows) /\ removing \subseteq RemoveCalls(rows)
               /\ alone \in BOOLEAN
  BY Zenon DEF TypeOK, Snapshots, Claims, InviteCalls, AcceptCalls, RejectCalls, RemoveCalls,
               Persons

LEMMA TypedNext ==
    ASSUME status' \in Statuses, participants' \in Seating, loaded' \in BOOLEAN,
           saved' \in Snapshots, rows' \in Seq(Row), claims' \subseteq Claims(rows'),
           invites' \subseteq InviteCalls, accepts' \subseteq AcceptCalls(rows'),
           rejects' \subseteq RejectCalls(rows'), removing' \subseteq RemoveCalls(rows'),
           alone' \in BOOLEAN
    PROVE  TypeOK'
  BY Zenon DEF TypeOK, Snapshots, Claims, InviteCalls, AcceptCalls, RejectCalls, RemoveCalls,
               Persons

LEMMA MoreRows ==
    ASSUME NEW rs \in Seq(Row), NEW q \in Seq(Row), Len(rs) <= Len(q)
    PROVE  /\ Claims(rs) \subseteq Claims(q) /\ AcceptCalls(rs) \subseteq AcceptCalls(q)
           /\ RejectCalls(rs) \subseteq RejectCalls(q)
           /\ RemoveCalls(rs) \subseteq RemoveCalls(q)
<1>1. DOMAIN rs \subseteq DOMAIN q /\ 0 .. Len(rs) \subseteq 0 .. Len(q)
  BY InRows
<1> QED
  BY <1>1 DEF Claims, AcceptCalls, RejectCalls, RemoveCalls

\* A step that leaves the roster alone, and adds to no set of calls.
LEMMA TypedCalls ==
    ASSUME TypeOK, UNCHANGED <<status, participants, saved>>, loaded' \in BOOLEAN,
           rows' \in Seq(Row), Len(rows) <= Len(rows'), claims' \subseteq claims,
           invites' \subseteq invites, accepts' \subseteq accepts,
           rejects' \subseteq rejects, removing' \subseteq removing, alone' \in BOOLEAN
    PROVE  TypeOK'
<1>1. /\ Claims(rows) \subseteq Claims(rows') /\ AcceptCalls(rows) \subseteq AcceptCalls(rows')
      /\ RejectCalls(rows) \subseteq RejectCalls(rows')
      /\ RemoveCalls(rows) \subseteq RemoveCalls(rows')
  <2>1. PICK q \in Seq(Row) : q = rows'
    OBVIOUS
  <2> QED
    BY <2>1, Typed, MoreRows
<1>2. /\ claims \subseteq Claims(rows) /\ invites \subseteq InviteCalls
      /\ accepts \subseteq AcceptCalls(rows) /\ rejects \subseteq RejectCalls(rows)
      /\ removing \subseteq RemoveCalls(rows) /\ saved \in Snapshots
      /\ status \in Statuses /\ participants \in Seating
  BY Typed
<1>3. /\ claims' \subseteq Claims(rows') /\ invites' \subseteq InviteCalls
      /\ accepts' \subseteq AcceptCalls(rows') /\ rejects' \subseteq RejectCalls(rows')
      /\ removing' \subseteq RemoveCalls(rows')
  BY <1>1, <1>2
<1> QED
  BY <1>2, <1>3, TypedNext

\* A step of a call that holds the lock, on the roster.
LEMMA TypedRoster ==
    ASSUME TypeOK, status' \in Statuses, participants' \in Seating, loaded' = loaded,
           saved' \in Snapshots, rows' \in Seq(Row), Len(rows) <= Len(rows'),
           claims' = claims, invites' = invites, accepts' \subseteq accepts,
           rejects' = rejects, removing' \subseteq RemoveCalls(rows'), alone' \in BOOLEAN
    PROVE  TypeOK'
<1>1. /\ Claims(rows) \subseteq Claims(rows') /\ AcceptCalls(rows) \subseteq AcceptCalls(rows')
      /\ RejectCalls(rows) \subseteq RejectCalls(rows')
  <2>1. PICK q \in Seq(Row) : q = rows'
    OBVIOUS
  <2> QED
    BY <2>1, Typed, MoreRows
<1>2. /\ claims' \subseteq Claims(rows') /\ invites' \subseteq InviteCalls
      /\ accepts' \subseteq AcceptCalls(rows') /\ rejects' \subseteq RejectCalls(rows')
  BY <1>1, Typed
<1> QED
  BY <1>2, Typed, TypedNext

LEMMA SaveIs ==
    ASSUME Save, status' \in Statuses, participants' \in Seating
    PROVE  /\ saved' \in Snapshots /\ saved'.status = status'
           /\ saved'.participants = participants'
  BY DEF Save, Snapshots

\* Rows that stay where they are, and become pending no more.
RowsLess ==
    /\ DOMAIN rows' = DOMAIN rows
    /\ \A i \in DOMAIN rows :
          /\ rows'[i].seat = rows[i].seat /\ rows'[i].number = rows[i].number
          /\ rows'[i].status = "pending" => rows[i].status = "pending"

LEMMA PendingLess ==
    ASSUME RowsLess PROVE \A n : Pending(n)' \subseteq Pending(n)
  BY DEF RowsLess, Pending

LEMMA LockedFrame ==
    ASSUME Locked, UNCHANGED <<participants, removing>>, invites' \subseteq invites
    PROVE  Locked'
  BY DEF Locked, Vacant, Seated, Participant, Human

LEMMA OfferedFrame ==
    ASSUME Offered, alone' => alone, UNCHANGED <<participants, removing>>,
           invites' \subseteq invites, RowsLess
    PROVE  Offered'
<1>1. SUFFICES ASSUME alone'
               PROVE  /\ \A i \in DOMAIN rows' : rows'[i].status = "pending" => OffersFree(i)'
                      /\ \A i, j \in DOMAIN rows' :
                            /\ rows'[i].status = "pending" /\ rows'[j].status = "pending"
                            /\ rows'[i].number = rows'[j].number
                            => i = j
                      /\ \A c \in invites' : Pending(c.number)' = {}
  BY DEF Offered
<1>2. alone
  BY <1>1
<1>3. ASSUME NEW i \in DOMAIN rows', rows'[i].status = "pending"
      PROVE  OffersFree(i)'
  <2>1. /\ i \in DOMAIN rows /\ rows[i].status = "pending"
        /\ rows'[i].number = rows[i].number /\ rows'[i].seat = rows[i].seat
    BY <1>3 DEF RowsLess
  <2>2. OffersFree(i)
    BY <1>2, <2>1 DEF Offered
  <2>3. IndexOf(rows[i].number)' = IndexOf(rows[i].number)
    BY DEF IndexOf, RowsLess
  <2> QED
    BY <2>1, <2>2, <2>3 DEF OffersFree, IndexOf
<1>4. \A i, j \in DOMAIN rows' :
         /\ rows'[i].status = "pending" /\ rows'[j].status = "pending"
         /\ rows'[i].number = rows'[j].number
         => i = j
  BY <1>2 DEF Offered, RowsLess
<1>5. \A c \in invites' : Pending(c.number)' = {}
  BY <1>2, PendingLess DEF Offered
<1> QED
  BY <1>3, <1>4, <1>5

LEMMA AcceptingFrame ==
    ASSUME Accepting, TypeOK, alone' => alone, UNCHANGED participants, accepts' \subseteq accepts,
           claims \subseteq claims', RowsLess
    PROVE  Accepting'
<1>1. SUFFICES ASSUME alone', NEW c \in accepts'
               PROVE  IF c.claimed THEN ClaimedIsFree(c)' ELSE rows'[c.row].number = c.number
  BY DEF Accepting
<1>2. /\ c \in accepts /\ c.row \in DOMAIN rows
      /\ IF c.claimed THEN ClaimedIsFree(c) ELSE rows[c.row].number = c.number
  <2>1. c \in accepts /\ c \in AcceptCalls(rows)
    BY <1>1, Typed
  <2> QED
    BY <1>1, <2>1 DEF Accepting, AcceptCalls
<1>3. Pending(c.number)' \subseteq Pending(c.number)
  BY PendingLess
<1>4. c.claimed => ClaimedIsFree(c)'
  BY <1>2, <1>3 DEF ClaimedIsFree, Seated, Participant, RowsLess
<1> QED
  BY <1>2, <1>4 DEF RowsLess

\* An invitation to the free seat of a number that has no other pending.
LEMMA OfferedAppend ==
    ASSUME TypeOK, Offered, alone' => alone, UNCHANGED <<participants, removing>>,
           removing = {}, NEW s \in AllSeats, NEW n \in Nat, NEW who \in Persons,
           rows' = Append(rows, NewRow(s, n, who)),
           n + 1 \in DOMAIN participants, participants[n + 1].seat = s,
           participants[n + 1].holder = Nobody, Human(s),
           alone => Pending(n) = {} /\ invites' = {}
    PROVE  Offered' /\ rows' \in Seq(Row) /\ Len(rows') = Len(rows) + 1
<1>1. PICK q : q = rows'
  OBVIOUS
<1>2. rows \in Seq(Row)
  BY Typed
<1>3. /\ q \in Seq(Row) /\ Len(q) = Len(rows) + 1 /\ DOMAIN q = DOMAIN rows \cup {Len(rows) + 1}
      /\ \A i \in DOMAIN rows : q[i] = rows[i]
      /\ q[Len(rows) + 1].seat = s /\ q[Len(rows) + 1].number = n
      /\ q[Len(rows) + 1].status = "pending"
  BY <1>1, <1>2, RowAppended
<1>4. ASSUME alone
      PROVE  /\ \A i \in DOMAIN rows' : rows'[i].status = "pending" => OffersFree(i)'
             /\ \A i, j \in DOMAIN rows' :
                   /\ rows'[i].status = "pending" /\ rows'[j].status = "pending"
                   /\ rows'[i].number = rows'[j].number
                   => i = j
             /\ \A c \in invites' : Pending(c.number)' = {}
  <2>1. ASSUME NEW i \in DOMAIN rows', rows'[i].status = "pending"
        PROVE  OffersFree(i)'
    <3>1. \A m : IndexOf(m)' = IndexOf(m) /\ IndexOf(m) = m + 1
      BY DEF IndexOf
    <3>2. CASE i \in DOMAIN rows
      <4>1. OffersFree(i) /\ rows'[i] = rows[i]
        BY <1>1, <1>3, <1>4, <2>1, <3>2 DEF Offered
      <4> QED
        BY <3>1, <4>1 DEF OffersFree
    <3>3. CASE i = Len(rows) + 1
      BY <1>1, <1>3, <3>1, <3>3 DEF OffersFree
    <3> QED
      BY <1>1, <1>3, <3>2, <3>3
  <2>2. \A i \in DOMAIN rows : rows[i].status = "pending" => rows[i].number # n
    BY <1>4 DEF Pending
  <2>3. \A i, j \in DOMAIN rows' :
           /\ rows'[i].status = "pending" /\ rows'[j].status = "pending"
           /\ rows'[i].number = rows'[j].number
           => i = j
    BY <1>1, <1>3, <1>4, <2>2 DEF Offered
  <2> QED
    BY <1>4, <2>1, <2>3
<1> QED
  BY <1>1, <1>3, <1>4 DEF Offered

LEMMA FirstRosterIs ==
    /\ FirstRoster \in Seating /\ DOMAIN FirstRoster = DOMAIN FirstSeats
    /\ Len(FirstRoster) = Len(FirstSeats) /\ Len(FirstSeats) \in Nat
    /\ DOMAIN FirstSeats = 1 .. Len(FirstSeats)
    /\ \A k \in DOMAIN FirstSeats :
          /\ FirstSeats[k] \in AllSeats
          /\ FirstRoster[k].seat = FirstSeats[k] /\ FirstRoster[k].number = k - 1
          /\ FirstRoster[k].holder = IF k = 1 THEN Creator ELSE Nobody
    /\ Sound("Waiting", FirstRoster)
<1>1. PICK L \in Nat : L = Len(FirstSeats) /\ DOMAIN FirstSeats = 1 .. L
  BY SeatsAssumption
<1>2. \A k \in 1 .. L : FirstSeats[k] \in AllSeats
  BY <1>1 DEF AllSeats, ToSet
<1>3. ASSUME NEW k \in 1 .. L
      PROVE  /\ FirstRoster[k] \in Entry
             /\ FirstRoster[k].seat = FirstSeats[k] /\ FirstRoster[k].number = k - 1
             /\ FirstRoster[k].holder = IF k = 1 THEN Creator ELSE Nobody
  <2>1. PICK m \in Nat : m = k - 1
    BY <1>1
  <2>2. PICK h \in Persons : h = IF k = 1 THEN Creator ELSE Nobody
    BY PlayersAssumption DEF Persons
  <2>3. FirstRoster[k] = [seat |-> FirstSeats[k], number |-> m, holder |-> h]
    BY <1>1, <2>1, <2>2 DEF FirstRoster
  <2> QED
    BY <1>2, <2>1, <2>2, <2>3 DEF Entry, Persons
<1>4. FirstRoster \in [1 .. L -> Entry]
  <2>1. FirstRoster = [k \in 1 .. L |-> [seat |-> FirstSeats[k], number |-> k - 1,
                                         holder |-> IF k = 1 THEN Creator ELSE Nobody]]
    BY <1>1 DEF FirstRoster
  <2>2. \A k \in 1 .. L : [seat |-> FirstSeats[k], number |-> k - 1,
                           holder |-> IF k = 1 THEN Creator ELSE Nobody] \in Entry
    BY <1>3, <2>1, Zenon
  <2> QED
    BY <2>1, <2>2, Zenon
<1>5. FirstRoster \in Seating /\ DOMAIN FirstRoster = 1 .. L /\ Len(FirstRoster) = L
  BY <1>4, FunctionIsSeq DEF Seating
<1>6. \A j, k \in 1 .. L : FirstSeats[j] = FirstSeats[k] => j = k
  BY <1>1, SeatsAssumption DEF IsInjective
<1>7. Sound("Waiting", FirstRoster)
  BY <1>3, <1>5, <1>6 DEF Sound
<1> QED
  BY <1>1, <1>2, <1>3, <1>5, <1>7

-----------------------------------------------------------------------------
(* create_game and the invitations.                                        *)

LEMMA CreateInviteKeeps ==
    ASSUME IInv, CreateInvite, alone' = alone
    PROVE  IInv'
<1>1. /\ TypeOK /\ Rosters /\ Locked /\ OneCall /\ Offered /\ Accepting /\ ~loaded
      /\ UNCHANGED <<status, participants, loaded, saved, claims, invites, accepts, rejects,
                     removing>>
  BY DEF IInv, CreateInvite, rosterVars, callVars
<1>2. PICK k \in DOMAIN FirstSeats, invitee \in (Players \ {Creator}) \cup {Nobody} :
         /\ k > 1 /\ Human(FirstSeats[k])
         /\ \A j \in 2 .. Len(FirstSeats) :
               (\E i \in DOMAIN rows : rows[i].number = j - 1)
                 <=> (j < k /\ Human(FirstSeats[j]))
         /\ rows' = Append(rows, NewRow(FirstSeats[k], k - 1, invitee))
  BY DEF CreateInvite
<1>3. PICK n \in Nat : n = k - 1 /\ k = n + 1
  BY <1>2, FirstRosterIs
<1>4. /\ FirstSeats[k] \in AllSeats /\ n + 1 \in DOMAIN participants
      /\ participants[n + 1].seat = FirstSeats[k] /\ participants[n + 1].holder = Nobody
  BY <1>1, <1>2, <1>3, FirstRosterIs DEF Rosters
<1>5. Pending(n) = {}
  <2>1. k \in 2 .. Len(FirstSeats)
    BY <1>2, FirstRosterIs
  <2>2. ~ \E i \in DOMAIN rows : rows[i].number = n
    BY <1>2, <1>3, <2>1
  <2> QED
    BY <2>2 DEF Pending
<1>6. CASE removing = {}
  <2>1. Offered' /\ rows' \in Seq(Row) /\ Len(rows') = Len(rows) + 1
    <3>1. rows' = Append(rows, NewRow(FirstSeats[k], n, invitee)) /\ invitee \in Persons
      BY <1>2, <1>3 DEF Persons
    <3>2. alone => Pending(n) = {} /\ invites' = {}
      BY <1>1, <1>5 DEF OneCall
    <3> QED
      BY <1>1, <1>2, <1>4, <1>6, <3>1, <3>2, OfferedAppend
  <2>2. TypeOK'
    BY <1>1, <2>1, Typed, InRows, TypedCalls
  <2>3. Rosters' /\ Locked' /\ OneCall'
    BY <1>1, LockedFrame DEF Rosters, OneCall
  <2>4. Accepting'
    BY <1>1 DEF OneCall, Accepting
  <2> QED
    BY <2>1, <2>2, <2>3, <2>4 DEF IInv
<1>7. CASE removing # {}
  <2>1. ~alone
    BY <1>1, <1>7 DEF OneCall
  <2>2. rows' \in Seq(Row) /\ Len(rows') = Len(rows) + 1
    <3>1. rows' = Append(rows, NewRow(FirstSeats[k], n, invitee)) /\ invitee \in Persons
      BY <1>2, <1>3 DEF Persons
    <3>2. PICK q : q = rows'
      OBVIOUS
    <3>3. rows \in Seq(Row)
      BY <1>1, Typed
    <3>4. q \in Seq(Row) /\ Len(q) = Len(rows) + 1
      BY <1>4, <3>1, <3>2, <3>3, RowAppended
    <3> QED
      BY <3>2, <3>4
  <2>3. TypeOK'
    BY <1>1, <2>2, Typed, InRows, TypedCalls
  <2>4. Rosters' /\ Locked' /\ OneCall'
    BY <1>1, LockedFrame DEF Rosters, OneCall
  <2>5. Accepting' /\ Offered'
    BY <1>1, <2>1 DEF Offered, Accepting
  <2> QED
    BY <2>3, <2>4, <2>5 DEF IInv
<1> QED
  BY <1>6, <1>7

LEMMA CreateInsertKeeps ==
    ASSUME IInv, CreateInsert, alone' = alone
    PROVE  IInv'
<1>1. /\ TypeOK /\ Rosters /\ Locked /\ OneCall /\ Offered /\ Accepting /\ loaded' = TRUE
      /\ UNCHANGED <<status, participants, saved, rows, claims, invites, accepts, rejects,
                     removing>>
  BY DEF IInv, CreateInsert, callVars
<1>2. TypeOK'
  BY <1>1, Typed, InRows, TypedCalls
<1>3. Rosters' /\ Locked' /\ OneCall'
  BY <1>1, LockedFrame DEF Rosters, OneCall
<1>4. Offered' /\ Accepting'
  BY <1>1, OfferedFrame, AcceptingFrame DEF RowsLess
<1> QED
  BY <1>2, <1>3, <1>4 DEF IInv

LEMMA InviteCheckKeeps ==
    ASSUME IInv, NEW r \in Requests, NEW n \in Numbers, NEW who \in Invitees,
           InviteCheck(r, n, who), alone' \in BOOLEAN, alone' => alone /\ Quiet
    PROVE  IInv'
<1>1. /\ TypeOK /\ Rosters /\ Locked /\ OneCall /\ Offered /\ Accepting
      /\ loaded /\ removing = {} /\ OpenTo(n)
      /\ UNCHANGED <<status, participants, loaded, saved, rows, claims, accepts, rejects,
                     removing>>
  BY DEF IInv, InviteCheck, rosterVars
<1>2. PICK c : c = [request |-> r, number |-> n, invitee |-> who]
  OBVIOUS
<1>3. /\ c \in InviteCalls /\ c.number = n /\ invites' = invites \cup {c}
  <2>1. n \in Nat /\ who \in Persons
    BY <1>1 DEF OpenTo, Vacant, Seated, Numbers, Invitees, Persons
  <2> QED
    BY <1>2, <2>1 DEF InviteCalls, InviteCheck
<1>4. TypeOK'
  BY <1>1, <1>3, Typed, TypedNext
<1>5. Rosters'
  BY <1>1 DEF Rosters
<1>6. Locked'
  BY <1>1, <1>3 DEF Locked, OpenTo, Vacant, Seated, Participant, Human
<1>7. OneCall'
  BY <1>1, <1>3 DEF OneCall, Quiet
<1>8. Offered'
  <2>1. SUFFICES ASSUME alone' PROVE Offered'
    BY DEF Offered
  <2>2. alone /\ invites = {} /\ invites' = {c}
    BY <1>3, <2>1 DEF Quiet
  <2>3. /\ \A i : OffersFree(i)' <=> OffersFree(i)
        /\ \A m : Pending(m)' = Pending(m)
    BY <1>1 DEF OffersFree, IndexOf, Pending, Human
  <2>4. \A d \in invites' : Pending(d.number)' = {}
    BY <1>1, <1>3, <2>2, <2>3 DEF OpenTo
  <2> QED
    BY <1>1, <2>2, <2>3, <2>4 DEF Offered
<1>9. Accepting'
  BY <1>1, AcceptingFrame DEF RowsLess
<1> QED
  BY <1>4, <1>5, <1>6, <1>7, <1>8, <1>9 DEF IInv

LEMMA InviteInsertKeeps ==
    ASSUME IInv, NEW c \in invites, InviteInsert(c), alone' = alone
    PROVE  IInv'
<1>1. /\ TypeOK /\ Rosters /\ Locked /\ OneCall /\ Offered /\ Accepting
      /\ invites' = invites \ {c} /\ removing = {}
      /\ UNCHANGED <<status, participants, loaded, saved, claims, accepts, rejects, removing>>
  BY DEF IInv, InviteInsert, rosterVars, Locked
<1>2. PICK n \in Nat, who \in Persons, s \in AllSeats :
         n = c.number /\ who = c.invitee /\ s = participants[n + 1].seat
  <2>1. c \in InviteCalls /\ Vacant(c.number)
    BY <1>1, Typed DEF Locked
  <2>2. c.number \in Nat /\ c.invitee \in Persons /\ c.number + 1 \in DOMAIN participants
    BY <2>1 DEF InviteCalls, Vacant, Seated
  <2> QED
    BY <1>1, <2>2, Typed, InSeating
<1>3. /\ n + 1 \in DOMAIN participants /\ participants[n + 1].holder = Nobody /\ Human(s)
      /\ rows' = Append(rows, NewRow(s, n, who))
  BY <1>1, <1>2 DEF Locked, Vacant, Seated, Participant, InviteInsert
<1>4. alone => Pending(n) = {} /\ invites' = {}
  BY <1>1, <1>2 DEF Offered, OneCall
<1>5. Offered' /\ rows' \in Seq(Row) /\ Len(rows') = Len(rows) + 1
  BY <1>1, <1>2, <1>3, <1>4, OfferedAppend
<1>6. TypeOK'
  BY <1>1, <1>5, Typed, InRows, TypedCalls
<1>7. Rosters' /\ Locked' /\ OneCall'
  BY <1>1, LockedFrame DEF Rosters, OneCall
<1>8. Accepting'
  BY <1>1 DEF OneCall, Accepting
<1> QED
  BY <1>5, <1>6, <1>7, <1>8 DEF IInv

-----------------------------------------------------------------------------
(* accept_invitation and reject_invitation.                                *)

LEMMA AcceptReadKeeps ==
    ASSUME IInv, NEW p \in Players, NEW i \in DOMAIN rows, AcceptRead(p, i),
           alone' \in BOOLEAN, alone' => alone /\ Quiet
    PROVE  IInv'
<1>1. /\ TypeOK /\ Rosters /\ Locked /\ OneCall /\ Offered /\ Accepting
      /\ UNCHANGED <<status, participants, loaded, saved, rows, claims, invites, rejects,
                     removing>>
  BY DEF IInv, AcceptRead, rosterVars
<1>2. rows[i].number \in Nat
  BY <1>1, Typed, InRows
<1>3. PICK c : c = [player |-> p, row |-> i, number |-> rows[i].number, claimed |-> FALSE]
  OBVIOUS
<1>4. /\ c \in AcceptCalls(rows) /\ accepts' = accepts \cup {c}
      /\ ~c.claimed /\ c.row = i /\ c.number = rows[i].number
  BY <1>2, <1>3 DEF AcceptCalls, AcceptRead
<1>5. TypeOK'
  <2>1. accepts' \subseteq AcceptCalls(rows')
    BY <1>1, <1>4, Typed
  <2> QED
    BY <1>1, <2>1, Typed, TypedNext
<1>6. Rosters' /\ Locked' /\ OneCall'
  BY <1>1, <1>4, LockedFrame DEF Rosters, OneCall, Quiet
<1>7. Offered'
  BY <1>1, OfferedFrame DEF RowsLess
<1>8. Accepting'
  BY <1>1, <1>4 DEF Accepting, Quiet
<1> QED
  BY <1>5, <1>6, <1>7, <1>8 DEF IInv

\* The row an accept claims.
LEMMA RowClaimed ==
    ASSUME TypeOK, NEW c \in accepts, AcceptClaim(c), StillPending(c.row)
    PROVE  /\ rows' \in Seq(Row) /\ Len(rows') = Len(rows) /\ DOMAIN rows' = DOMAIN rows
           /\ rows'[c.row].status = "accepted"
           /\ \A j \in DOMAIN rows : j # c.row => rows'[j] = rows[j]
           /\ rows'[c.row].seat = rows[c.row].seat
           /\ RowsLess
<1>1. rows \in Seq(Row) /\ c.row \in DOMAIN rows /\ c.player \in Players
  <2>1. rows \in Seq(Row) /\ c \in AcceptCalls(rows)
    BY Typed
  <2> QED
    BY <2>1 DEF AcceptCalls
<1>2. PICK who \in Persons :
         rows' = [rows EXCEPT ![c.row].status = "accepted", ![c.row].invitee = who]
  <2>1. PICK who \in Persons : who = IF rows[c.row].invitee = Nobody THEN c.player
                                     ELSE rows[c.row].invitee
    BY <1>1, InRows DEF Persons
  <2>2. rows' = [rows EXCEPT ![c.row].status = "accepted", ![c.row].invitee = who]
    BY <2>1 DEF AcceptClaim
  <2> QED
    BY <2>2
<1>3. PICK q : q = rows'
  OBVIOUS
<1>4. /\ q \in Seq(Row) /\ Len(q) = Len(rows) /\ DOMAIN q = DOMAIN rows
      /\ \A j \in DOMAIN rows : /\ q[j].seat = rows[j].seat /\ q[j].number = rows[j].number
                                /\ j # c.row => q[j] = rows[j]
      /\ q[c.row].status = "accepted"
  <2>1. PICK r \in Row : r = rows[c.row]
    BY <1>1
  <2>2. PICK e \in Row : e = [r EXCEPT !.status = "accepted", !.invitee = who]
    BY DEF Row, Persons
  <2>3. e.seat = r.seat /\ e.number = r.number /\ e.status = "accepted"
    BY <2>2 DEF Row
  <2>4. q = [rows EXCEPT ![c.row] = e]
    BY <1>2, <1>3, <2>1, <2>2
  <2> QED
    BY <1>1, <2>1, <2>3, <2>4, RowReplaced
<1> QED
  BY <1>1, <1>3, <1>4 DEF RowsLess

LEMMA AcceptClaimKeeps ==
    ASSUME IInv, NEW c \in accepts, AcceptClaim(c), alone' = alone
    PROVE  IInv'
<1>1. /\ TypeOK /\ Rosters /\ Locked /\ OneCall /\ Offered /\ Accepting /\ ~c.claimed
      /\ UNCHANGED <<status, participants, loaded, saved, invites, rejects, removing>>
  BY DEF IInv, AcceptClaim, rosterVars
<1>2. /\ rows \in Seq(Row) /\ c \in AcceptCalls(rows) /\ c.row \in DOMAIN rows
      /\ c.player \in Players /\ c.number \in Nat
  <2>1. rows \in Seq(Row) /\ c \in AcceptCalls(rows)
    BY <1>1, Typed
  <2> QED
    BY <2>1 DEF AcceptCalls
<1>3. CASE ~StillPending(c.row)
  <2>1. accepts' = accepts \ {c} /\ UNCHANGED <<rows, claims>>
    BY <1>3 DEF AcceptClaim
  <2>2. TypeOK'
    BY <1>1, <2>1, Typed, InRows, TypedCalls
  <2>3. Rosters' /\ Locked' /\ OneCall'
    BY <1>1, <2>1, LockedFrame DEF Rosters, OneCall
  <2>4. Offered' /\ Accepting'
    BY <1>1, <2>1, OfferedFrame, AcceptingFrame DEF RowsLess
  <2> QED
    BY <2>2, <2>3, <2>4 DEF IInv
<1>4. CASE StillPending(c.row)
  <2>1. /\ claims' = claims \cup {[row |-> c.row, player |-> c.player]}
        /\ accepts' = (accepts \ {c}) \cup {[c EXCEPT !.claimed = TRUE]}
    BY <1>4 DEF AcceptClaim
  <2>3. PICK q : q = rows'
    OBVIOUS
  <2>4. /\ q \in Seq(Row) /\ Len(q) = Len(rows) /\ DOMAIN q = DOMAIN rows
        /\ q[c.row].status = "accepted" /\ q[c.row].seat = rows[c.row].seat
        /\ \A j \in DOMAIN rows : j # c.row => q[j] = rows[j]
    BY <1>1, <1>4, <2>3, RowClaimed
  <2>5. RowsLess
    BY <1>1, <1>4, RowClaimed
  <2>6. PICK d : d = [c EXCEPT !.claimed = TRUE]
    OBVIOUS
  <2>7. /\ d \in AcceptCalls(rows) /\ d.claimed /\ d.row = c.row /\ d.player = c.player
        /\ d.number = c.number /\ accepts' = (accepts \ {c}) \cup {d}
    BY <1>2, <2>1, <2>6 DEF AcceptCalls
  <2>8. TypeOK'
    <3>1. /\ Claims(rows') = Claims(rows) /\ AcceptCalls(rows') = AcceptCalls(rows)
          /\ RejectCalls(rows') = RejectCalls(rows) /\ RemoveCalls(rows') = RemoveCalls(rows)
      BY <2>3, <2>4 DEF Claims, AcceptCalls, RejectCalls, RemoveCalls
    <3>2. claims' \subseteq Claims(rows) /\ accepts' \subseteq AcceptCalls(rows)
      <4>1. [row |-> c.row, player |-> c.player] \in Claims(rows)
        BY <1>2 DEF Claims
      <4> QED
        BY <1>1, <2>1, <2>7, <4>1, Typed
    <3> QED
      BY <1>1, <2>3, <2>4, <3>1, <3>2, Typed, TypedNext
  <2>9. Rosters' /\ Locked' /\ OneCall'
    BY <1>1, <2>7, LockedFrame DEF Rosters, OneCall
  <2>10. Offered'
    BY <1>1, <2>5, OfferedFrame
  <2>11. Accepting'
    <3>1. SUFFICES ASSUME alone PROVE ClaimedIsFree(d)' /\ accepts' = {d}
      BY <1>1, <2>7 DEF Accepting
    <3>2. removing = {} /\ rows[c.row].number = c.number /\ accepts = {c}
      BY <1>1, <3>1 DEF OneCall, Accepting
    <3>3. /\ c.number + 1 \in DOMAIN participants
          /\ participants[c.number + 1].seat = rows[c.row].seat
          /\ participants[c.number + 1].holder = Nobody
      <4>1. OffersFree(c.row)
        BY <1>1, <1>2, <1>4, <3>1 DEF Offered, StillPending
      <4> QED
        BY <3>2, <4>1 DEF OffersFree, IndexOf
    <3>4. Pending(c.number)' = {}
      BY <1>1, <1>2, <1>4, <2>3, <2>4, <3>1, <3>2 DEF Offered, Pending, StillPending
    <3>5. [row |-> d.row, player |-> d.player] \in claims'
      BY <2>1, <2>7
    <3> QED
      BY <1>1, <1>2, <2>3, <2>4, <2>7, <3>2, <3>3, <3>4, <3>5
      DEF ClaimedIsFree, Seated, Participant
  <2> QED
    BY <2>8, <2>9, <2>10, <2>11 DEF IInv
<1> QED
  BY <1>3, <1>4

\* Whoever claims a seat is put on it, and while no calls overlap it is free.
LEMMA AcceptSeatIs ==
    ASSUME IInv, NEW c \in accepts, AcceptSeat(c)
    PROVE  /\ participants' \in Seating /\ c.player \in Persons /\ c.number \in Nat
           /\ Sound(status', participants')
           /\ \/ participants' = participants
              \/ /\ loaded /\ c.number + 1 \in DOMAIN participants
                 /\ participants' = Held(participants, c.number + 1, c.player)
<1>1. TypeOK /\ Rosters /\ c \in AcceptCalls(rows) /\ participants \in Seating
  BY Typed DEF IInv
<1>2. c.player \in Persons /\ c.player # Nobody /\ c.number \in Nat
  BY <1>1, PlayersAssumption DEF AcceptCalls, Persons
<1>3. CASE ~loaded
  BY <1>1, <1>2, <1>3 DEF AcceptSeat, Rosters
<1>4. CASE loaded
  <2>1. PICK q : q = participants'
    OBVIOUS
  <2>2. q = Claimed(participants, c.number, c.player)
    BY <1>4, <2>1, Zenon DEF AcceptSeat, ClaimSeat, Claimed
  <2>3. \A k \in DOMAIN participants : participants[k].number = k - 1
    BY <1>1 DEF Rosters, Sound
  <2>4. /\ c.number + 1 \in DOMAIN participants
             => q = Held(participants, c.number + 1, c.player)
        /\ c.number + 1 \notin DOMAIN participants => q = participants
    BY <1>1, <1>2, <2>2, <2>3, ClaimedSeat
  <2>5. Sound(status, participants) /\ status' = status
    BY <1>1, <1>4 DEF Rosters, AcceptSeat
  <2>6. CASE c.number + 1 \in DOMAIN participants
    <3>1. q \in Seating /\ Sound(status, q)
      BY <1>1, <1>2, <2>4, <2>5, <2>6, HolderSet, SoundHolder
    <3> QED
      BY <1>2, <1>4, <2>1, <2>4, <2>5, <2>6, <3>1
  <2>7. CASE c.number + 1 \notin DOMAIN participants
    BY <1>1, <1>2, <2>1, <2>4, <2>5, <2>7
  <2> QED
    BY <2>6, <2>7
<1> QED
  BY <1>3, <1>4

LEMMA AcceptSeatKeeps ==
    ASSUME IInv, NEW c \in accepts, AcceptSeat(c), alone' = alone
    PROVE  IInv'
<1>1. /\ TypeOK /\ Rosters /\ Locked /\ OneCall /\ Offered /\ Accepting /\ c.claimed
      /\ invites = {} /\ removing = {} /\ accepts' = accepts \ {c} /\ status' = status
      /\ UNCHANGED <<loaded, rows, claims, invites, rejects, removing>>
  BY DEF IInv, AcceptSeat, Unlocked
<1>2. /\ participants' \in Seating /\ c.player \in Persons /\ c.number \in Nat
      /\ Sound(status', participants')
      /\ \/ participants' = participants
         \/ /\ loaded /\ c.number + 1 \in DOMAIN participants
            /\ participants' = Held(participants, c.number + 1, c.player)
  BY AcceptSeatIs
<1>3. /\ saved' \in Snapshots /\ Sound(saved'.status, saved'.participants)
  <2>1. CASE loaded
    BY <1>1, <1>2, <2>1, SaveIs, Typed DEF AcceptSeat
  <2>2. CASE ~loaded
    BY <1>1, <2>2, Typed DEF AcceptSeat, Rosters
  <2> QED
    BY <2>1, <2>2
<1>4. TypeOK'
  BY <1>1, <1>2, <1>3, Typed, InRows, TypedRoster
<1>5. Rosters' /\ Locked' /\ OneCall'
  <2>1. ~loaded => participants' = participants
    BY <1>2
  <2> QED
    BY <1>1, <1>2, <1>3, <2>1 DEF Rosters, Locked, OneCall
<1>6. Accepting'
  BY <1>1 DEF OneCall, Accepting
<1>7. Offered'
  <2>1. SUFFICES ASSUME alone PROVE Offered'
    BY <1>1 DEF Offered
  <2>2. ClaimedIsFree(c)
    BY <1>1, <2>1 DEF Accepting
  <2>3. ASSUME NEW i \in DOMAIN rows, rows[i].status = "pending" PROVE OffersFree(i)'
    <3>1. OffersFree(i) /\ rows[i].number # c.number
      BY <1>1, <2>1, <2>2, <2>3 DEF Offered, ClaimedIsFree, Pending
    <3>2. /\ rows[i].number + 1 \in DOMAIN participants /\ rows[i].number \in Nat
          /\ participants[rows[i].number + 1].seat = rows[i].seat
          /\ participants[rows[i].number + 1].holder = Nobody /\ Human(rows[i].seat)
      BY <1>1, <3>1, Typed, InRows DEF OffersFree, IndexOf
    <3>3. rows[i].number + 1 # c.number + 1
      BY <1>2, <3>1, <3>2
    <3>4. /\ rows[i].number + 1 \in DOMAIN participants'
          /\ participants'[rows[i].number + 1] = participants[rows[i].number + 1]
      BY <1>2, <3>2, <3>3 DEF Held
    <3>5. IndexOf(rows[i].number)' = rows[i].number + 1
      BY <1>1 DEF IndexOf
    <3> QED
      BY <1>1, <3>2, <3>4, <3>5 DEF OffersFree
  <2> QED
    BY <1>1, <2>1, <2>3 DEF Offered
<1> QED
  BY <1>4, <1>5, <1>6, <1>7 DEF IInv

LEMMA RejectReadKeeps ==
    ASSUME IInv, NEW p \in Players, NEW i \in DOMAIN rows, RejectRead(p, i),
           alone' \in BOOLEAN, alone' => alone /\ Quiet
    PROVE  IInv'
<1>1. /\ TypeOK /\ Rosters /\ Locked /\ OneCall /\ Offered /\ Accepting
      /\ UNCHANGED <<status, participants, loaded, saved, rows, claims, invites, accepts,
                     removing>>
  BY DEF IInv, RejectRead, rosterVars
<1>2. rejects' = rejects \cup {[player |-> p, row |-> i]}
  BY DEF RejectRead
<1>3. TypeOK'
  <2>1. [player |-> p, row |-> i] \in RejectCalls(rows)
    BY DEF RejectCalls
  <2> QED
    BY <1>1, <1>2, <2>1, Typed, TypedNext
<1>4. Rosters' /\ Locked' /\ OneCall'
  BY <1>1, <1>2, LockedFrame DEF Rosters, OneCall, Quiet
<1>5. Offered' /\ Accepting'
  BY <1>1, OfferedFrame, AcceptingFrame DEF RowsLess
<1> QED
  BY <1>3, <1>4, <1>5 DEF IInv

\* A row that is pending no more.
LEMMA RowClosed ==
    ASSUME TypeOK, NEW i \in DOMAIN rows, NEW st \in RowStatuses \ {"pending"}, SetRow(i, st)
    PROVE  RowsLess /\ rows' \in Seq(Row) /\ Len(rows') = Len(rows) /\ rows'[i].status # "pending"
<1>1. PICK q : q = rows'
  OBVIOUS
<1>2. rows \in Seq(Row) /\ q = [rows EXCEPT ![i].status = st] /\ Nobody \in Persons
  BY <1>1, Typed DEF SetRow, Persons
<1>3. /\ q \in Seq(Row) /\ Len(q) = Len(rows) /\ DOMAIN q = DOMAIN rows
      /\ \A j \in DOMAIN rows : /\ q[j].seat = rows[j].seat /\ q[j].number = rows[j].number
                                /\ j # i => q[j] = rows[j]
      /\ q[i].status = st
  <2>1. PICK r \in Row : r = rows[i]
    BY <1>2
  <2> st \in {"pending", "accepted", "rejected", "cancelled"}
    BY DEF RowStatuses
  <2>2. PICK e \in Row : e = [r EXCEPT !.status = st]
    BY DEF Row
  <2>3. e.seat = r.seat /\ e.number = r.number /\ e.status = st
    BY <2>2 DEF Row
  <2>4. q = [rows EXCEPT ![i] = e]
    BY <1>2, <2>1, <2>2
  <2> QED
    BY <1>2, <2>1, <2>3, <2>4, RowReplaced
<1> QED
  BY <1>1, <1>3 DEF RowsLess

LEMMA RejectWriteKeeps ==
    ASSUME IInv, NEW c \in rejects, RejectWrite(c), alone' = alone
    PROVE  IInv'
<1>1. /\ TypeOK /\ Rosters /\ Locked /\ OneCall /\ Offered /\ Accepting
      /\ rejects' = rejects \ {c} /\ SetRow(c.row, "rejected")
      /\ UNCHANGED <<status, participants, loaded, saved, claims, invites, accepts, removing>>
  BY DEF IInv, RejectWrite, rosterVars
<1>2. c.row \in DOMAIN rows
  BY <1>1, Typed DEF RejectCalls
<1>3. RowsLess /\ rows' \in Seq(Row) /\ Len(rows') = Len(rows)
  BY <1>1, <1>2, RowClosed DEF RowStatuses
<1>4. TypeOK'
  BY <1>1, <1>3, Typed, InRows, TypedCalls
<1>5. Rosters' /\ Locked' /\ OneCall'
  BY <1>1, LockedFrame DEF Rosters, OneCall
<1>6. Offered' /\ Accepting'
  BY <1>1, <1>3, OfferedFrame, AcceptingFrame
<1> QED
  BY <1>4, <1>5, <1>6 DEF IInv

-----------------------------------------------------------------------------
(* The oldest and the newest of some rows.                                 *)

LEMMA OldestExists ==
    ASSUME NEW T, T \subseteq Nat, T # {}
    PROVE  \E i \in T : \A j \in T : i <= j
<1>1. PICK i \in T : \A j \in T : <<j, i>> \notin OpToRel(<, Nat)
  BY NatLessThanWellFounded, WFMin
<1>2. \A j \in T : ~(j < i)
  BY <1>1 DEF OpToRel
<1> QED
  BY <1>2

LEMMA NewestExists ==
    ASSUME NEW n \in Nat, NEW T, T \subseteq 1 .. n, T # {}
    PROVE  \E i \in T : \A j \in T : i >= j
<1> DEFINE left == {n - i : i \in T}
<1>1. left \subseteq Nat /\ left # {}
  <2>1. \A i \in T : n - i \in Nat
    OBVIOUS
  <2> QED
    BY <2>1
<1>2. PICK k \in left : \A j \in left : k <= j
  <2> HIDE DEF left
  <2> QED
    BY <1>1, OldestExists
<1>3. PICK i \in T : k = n - i
  OBVIOUS
<1>4. \A j \in T : n - i <= n - j
  BY <1>2, <1>3
<1> QED
  BY <1>4

-----------------------------------------------------------------------------
(* The roster.                                                             *)

\* A step on the roster, begun while nothing else is under way: it saves what
\* it makes of it, and leaves every call alone.
LEMMA RosterStep ==
    ASSUME IInv, CanWrite, Save, status' \in Statuses, participants' \in Seating,
           Sound(status', participants'), rows' \in Seq(Row), Len(rows') = Len(rows),
           UNCHANGED <<loaded, claims, invites, accepts, rejects, removing>>,
           alone' \in BOOLEAN, alone' => alone /\ Quiet,
           alone' => Offered'
    PROVE  IInv'
<1>1. /\ TypeOK /\ Rosters /\ Locked /\ OneCall /\ Offered /\ Accepting
      /\ invites = {} /\ removing = {} /\ loaded
  BY DEF IInv, CanWrite, Unlocked
<1>2. /\ saved' \in Snapshots /\ Sound(saved'.status, saved'.participants)
  BY <1>1, SaveIs
<1>3. TypeOK'
  BY <1>1, <1>2, Typed, InRows, TypedRoster
<1>4. Rosters' /\ Locked' /\ OneCall' /\ Accepting'
  BY <1>1, <1>2 DEF Rosters, Locked, OneCall, Accepting, Quiet
<1>5. Offered'
  BY DEF Offered
<1> QED
  BY <1>3, <1>4, <1>5 DEF IInv

\* What the pending rows are for while nothing else is under way.
LEMMA QuietOffers ==
    ASSUME IInv, alone, Quiet, NEW i \in DOMAIN rows, rows[i].status = "pending"
    PROVE  /\ rows[i].number \in Nat /\ rows[i].number + 1 \in DOMAIN participants
           /\ participants[rows[i].number + 1].seat = rows[i].seat
           /\ participants[rows[i].number + 1].holder = Nobody /\ Human(rows[i].seat)
<1>1. OffersFree(i) /\ removing = {}
  BY DEF IInv, Offered, Quiet
<1>2. rows[i].number \in Nat
  BY Typed, InRows DEF IInv
<1> QED
  BY <1>1, <1>2 DEF OffersFree, IndexOf

\* Rows that are for the same free seats as before.
LEMMA StillOffered ==
    ASSUME IInv, alone, Quiet, UNCHANGED <<invites, removing>>, RowsLess,
           \A i \in DOMAIN rows :
              rows[i].status = "pending" =>
                 /\ rows[i].number + 1 \in DOMAIN participants'
                 /\ participants'[rows[i].number + 1].seat = rows[i].seat
                 /\ participants'[rows[i].number + 1].holder = Nobody
    PROVE  Offered'
<1>1. removing' = {} /\ invites' = {}
  BY DEF Quiet
<1>2. ASSUME NEW i \in DOMAIN rows', rows'[i].status = "pending"
      PROVE  OffersFree(i)'
  <2>1. /\ i \in DOMAIN rows /\ rows[i].status = "pending"
        /\ rows'[i].number = rows[i].number /\ rows'[i].seat = rows[i].seat
    BY <1>2 DEF RowsLess
  <2>2. /\ rows[i].number + 1 \in DOMAIN participants'
        /\ participants'[rows[i].number + 1].seat = rows[i].seat
        /\ participants'[rows[i].number + 1].holder = Nobody
    BY <2>1
  <2>3. Human(rows[i].seat)
    BY <2>1, QuietOffers
  <2>4. IndexOf(rows[i].number)' = rows[i].number + 1
    BY <1>1, <2>1 DEF IndexOf
  <2> QED
    BY <1>1, <2>1, <2>2, <2>3, <2>4 DEF OffersFree
<1>3. \A i, j \in DOMAIN rows' :
         /\ rows'[i].status = "pending" /\ rows'[j].status = "pending"
         /\ rows'[i].number = rows'[j].number
         => i = j
  BY DEF IInv, Offered, RowsLess
<1> QED
  BY <1>1, <1>2, <1>3 DEF Offered

LEMMA AddSeatKeeps ==
    ASSUME IInv, NEW s \in SpareSeats, AddSeat(s), alone' \in BOOLEAN, alone' => alone /\ Quiet
    PROVE  IInv'
<1>1. /\ CanWrite /\ status = "Waiting" /\ status' = status /\ s \notin Roster /\ Save
      /\ UNCHANGED <<loaded, rows, claims, invites, accepts, rejects, removing>>
  BY DEF AddSeat, callVars
<1>2. participants \in Seating /\ Sound(status, participants) /\ status \in Statuses
      /\ rows \in Seq(Row) /\ s \in AllSeats
  BY Typed DEF IInv, Rosters, AllSeats
<1>3. PICK q : q = participants'
  OBVIOUS
<1>4. q = Append(participants, [seat |-> s, number |-> Len(participants), holder |-> Nobody])
  BY <1>3 DEF AddSeat, WithSeat
<1>5. /\ q \in Seating /\ DOMAIN q = DOMAIN participants \cup {Len(participants) + 1}
      /\ \A k \in DOMAIN participants : q[k] = participants[k]
  BY <1>2, <1>4, SeatAdded
<1>6. Sound(status, q)
  BY <1>1, <1>2, <1>4, SoundAdded DEF Roster
<1>7. alone' => Offered'
  <2>1. SUFFICES ASSUME alone' PROVE Offered'
    OBVIOUS
  <2>2. RowsLess
    BY <1>1 DEF RowsLess
  <2> QED
    BY <1>1, <1>3, <1>5, <2>1, <2>2, QuietOffers, StillOffered
<1> QED
  BY <1>1, <1>2, <1>3, <1>5, <1>6, <1>7, RosterStep

\* The row a player who withdraws was let in by.
LEMMA WithdrawnRow ==
    ASSUME TypeOK, NEW n, Withdraw(n)
    PROVE  RowsLess /\ rows' \in Seq(Row) /\ Len(rows') = Len(rows)
<1>0. rows \in Seq(Row)
  BY Typed
<1> DEFINE accepted == {i \in DOMAIN rows : rows[i].number = n /\ rows[i].status = "accepted"}
<1>1. CASE accepted = {}
  BY <1>0, <1>1 DEF Withdraw, MayWithdraw, RowsLess
<1>2. CASE accepted # {}
  <2>1. PICK i \in DOMAIN rows : SetRow(i, "rejected")
    <3>1. SetRow(CHOOSE i \in accepted : \A j \in accepted : i >= j, "rejected")
      BY <1>2 DEF Withdraw
    <3>2. \E i \in accepted : \A j \in accepted : i >= j
      <4>1. Len(rows) \in Nat /\ accepted \subseteq 1 .. Len(rows) /\ accepted # {}
        BY <1>0, <1>2, InRows
      <4> HIDE DEF accepted
      <4> QED
        BY <4>1, NewestExists
    <3> QED
      BY <3>1, <3>2
  <2> QED
    BY <1>0, <2>1, RowClosed DEF RowStatuses
<1> QED
  BY <1>1, <1>2

LEMMA WithdrawKeeps ==
    ASSUME IInv, NEW n \in Numbers, Withdraw(n), alone' \in BOOLEAN, alone' => alone /\ Quiet
    PROVE  IInv'
<1>1. /\ CanWrite /\ status = "Waiting" /\ status' = status /\ Save
      /\ n + 1 \in DOMAIN participants /\ participants' = Vacated(n)
      /\ UNCHANGED <<loaded, claims, invites, accepts, rejects, removing>>
  BY DEF Withdraw, MayWithdraw, callVars, Seated
<1>2. participants \in Seating /\ Sound(status, participants) /\ status \in Statuses
      /\ rows \in Seq(Row) /\ Nobody \in Persons /\ TypeOK
  BY Typed DEF IInv, Rosters, Persons
<1>3. PICK q : q = participants'
  OBVIOUS
<1>4. q = Held(participants, n + 1, Nobody)
  BY <1>1, <1>3 DEF Vacated, Held
<1>5. /\ q \in Seating /\ DOMAIN q = DOMAIN participants /\ q[n + 1].holder = Nobody
      /\ \A k \in DOMAIN participants : /\ q[k].seat = participants[k].seat
                                        /\ k # n + 1 => q[k] = participants[k]
      /\ Sound(status, q)
  BY <1>1, <1>2, <1>4, HolderSet, SoundHolder
<1>6. RowsLess /\ rows' \in Seq(Row) /\ Len(rows') = Len(rows)
  BY <1>2, WithdrawnRow
<1>7. alone' => Offered'
  <2>1. SUFFICES ASSUME alone' PROVE Offered'
    OBVIOUS
  <2>2. ASSUME NEW i \in DOMAIN rows, rows[i].status = "pending"
        PROVE  /\ rows[i].number + 1 \in DOMAIN participants'
               /\ participants'[rows[i].number + 1].seat = rows[i].seat
               /\ participants'[rows[i].number + 1].holder = Nobody
    BY <1>3, <1>5, <2>1, <2>2, QuietOffers
  <2> QED
    BY <1>1, <1>6, <2>1, <2>2, StillOffered
<1> QED
  BY <1>1, <1>2, <1>3, <1>5, <1>6, <1>7, RosterStep

LEMMA SwapSeatsKeeps ==
    ASSUME IInv, NEW a \in Numbers, NEW b \in Numbers, SwapSeats(a, b),
           alone' \in BOOLEAN, alone' => alone /\ Quiet
    PROVE  IInv'
<1>1. /\ CanWrite /\ status = "Waiting" /\ status' = status /\ Save /\ Filled
      /\ a + 1 \in DOMAIN participants /\ b + 1 \in DOMAIN participants
      /\ a \in Nat /\ b \in Nat
      /\ UNCHANGED <<loaded, rows, claims, invites, accepts, rejects, removing>>
  BY DEF SwapSeats, MaySwap, callVars, Seated, Numbers
<1>2. participants \in Seating /\ Sound(status, participants) /\ status \in Statuses
      /\ rows \in Seq(Row)
  BY Typed DEF IInv, Rosters
<1>3. PICK q : q = participants'
  OBVIOUS
<1>4. q = Traded(participants, a, b)
  BY <1>3, Zenon DEF SwapSeats, Participant, Traded
<1>5. q \in Seating /\ Sound(status, q)
  BY <1>1, <1>2, <1>4, SeatsSwapped, SoundSwapped
<1>6. alone' => Offered'
  <2>1. SUFFICES ASSUME alone' PROVE Offered'
    OBVIOUS
  <2>2. \A i \in DOMAIN rows : rows[i].status # "pending"
    BY <1>1, <2>1, QuietOffers DEF Filled
  <2>3. invites' = {}
    BY <1>1, <2>1 DEF Quiet
  <2> QED
    BY <1>1, <2>2, <2>3 DEF Offered
<1> QED
  BY <1>1, <1>2, <1>3, <1>5, <1>6, RosterStep

LEMMA StartEndKeeps ==
    ASSUME IInv, Start \/ End, alone' \in BOOLEAN, alone' => alone /\ Quiet
    PROVE  IInv'
<1>1. /\ CanWrite /\ status' \in Statuses /\ Save
      /\ UNCHANGED <<participants, loaded, rows, claims, invites, accepts, rejects, removing>>
      /\ status' = "Active" => MayStart
  BY DEF Start, End, callVars, Statuses
<1>2. participants \in Seating /\ Sound(status, participants) /\ rows \in Seq(Row)
  BY Typed DEF IInv, Rosters
<1>3. Sound(status', participants')
  BY <1>1, <1>2 DEF Sound, MayStart, Filled
<1>4. alone' => Offered'
  <2>1. RowsLess
    BY <1>1 DEF RowsLess
  <2> QED
    BY <1>1, <2>1, OfferedFrame DEF IInv
<1> QED
  BY <1>1, <1>2, <1>3, <1>4, RosterStep

-----------------------------------------------------------------------------
(* remove_seat_from_game.                                                  *)

LEMMA RemoveSeatKeeps ==
    ASSUME IInv, NEW n \in Numbers, RemoveSeat(n), alone' \in BOOLEAN, alone' => alone /\ Quiet
    PROVE  IInv'
<1>1. /\ TypeOK /\ Rosters /\ Locked /\ OneCall /\ Offered /\ Accepting
      /\ loaded /\ invites = {} /\ removing = {} /\ status = "Waiting" /\ n \in Nat
      /\ n + 1 \in DOMAIN participants
      /\ participants' = Renumbered(RemoveAt(participants, n + 1))
      /\ UNCHANGED <<status, loaded, saved, rows, claims, invites, accepts, rejects>>
  BY DEF IInv, RemoveSeat, MayRemove, CanWrite, Unlocked, Seated, Numbers
<1>2. participants \in Seating /\ rows \in Seq(Row) /\ Sound(status, participants)
  BY <1>1, Typed DEF Rosters
<1>3. PICK q : q = participants'
  OBVIOUS
<1>4. /\ q \in Seating /\ DOMAIN q = 1 .. Len(participants) - 1 /\ Len(participants) \in Nat
      /\ DOMAIN participants = 1 .. Len(participants)
      /\ \A k \in 1 .. Len(participants) - 1 :
            /\ q[k].seat = participants[Without(n, k)].seat
            /\ q[k].holder = participants[Without(n, k)].holder
  <2>1. /\ q \in Seating /\ DOMAIN q = 1 .. Len(participants) - 1
        /\ \A k \in 1 .. Len(participants) - 1 :
              /\ q[k].seat = participants[Without(n, k)].seat
              /\ q[k].holder = participants[Without(n, k)].holder
    BY <1>1, <1>2, <1>3, SeatRemoved
  <2> QED
    BY <1>2, <2>1, InSeating
<1>5. Sound(status, q)
  BY <1>1, <1>2, <1>3, SoundRemoved
<1>6. PICK row \in 0 .. Len(rows) :
         row = IF Pending(n) = {} THEN 0
               ELSE CHOOSE i \in Pending(n) : \A j \in Pending(n) : i <= j
  <2>1. Pending(n) \subseteq 1 .. Len(rows) /\ Len(rows) \in Nat
    BY <1>2, InRows DEF Pending
  <2>2. CASE Pending(n) = {}
    BY <2>1, <2>2
  <2>3. CASE Pending(n) # {}
    <3>1. Pending(n) \subseteq Nat
      BY <2>1
    <3>2. \E i \in Pending(n) : \A j \in Pending(n) : i <= j
      BY <2>3, <3>1, OldestExists
    <3>3. PICK x : x = CHOOSE i \in Pending(n) : \A j \in Pending(n) : i <= j
      OBVIOUS
    <3>4. x \in Pending(n)
      BY <3>2, <3>3
    <3>5. x \in 0 .. Len(rows)
      BY <2>1, <3>4
    <3> QED
      BY <2>3, <3>3, <3>5
  <2> QED
    BY <2>2, <2>3
<1>7. PICK c : c = [number |-> n, step |-> "cancel", row |-> row]
  OBVIOUS
<1>8. /\ c \in RemoveCalls(rows) /\ c.number = n /\ c.step = "cancel" /\ c.row = row
      /\ removing' = {c}
  BY <1>1, <1>6, <1>7 DEF RemoveCalls, RemoveSeat
<1>9. TypeOK'
  BY <1>1, <1>3, <1>4, <1>8, Typed, InRows, TypedRoster
<1>10. Rosters' /\ Locked' /\ OneCall' /\ Accepting'
  BY <1>1, <1>3, <1>5, <1>8 DEF Rosters, Locked, OneCall, Accepting, Quiet
<1>11. Offered'
  <2>1. SUFFICES ASSUME alone' PROVE Offered'
    BY DEF Offered
  <2>2. ASSUME NEW i \in DOMAIN rows, rows[i].status = "pending" PROVE OffersFree(i)'
    <3>1. PICK m \in Nat : m = rows[i].number
      BY <1>2, InRows
    <3>2. /\ m + 1 \in DOMAIN participants
          /\ participants[m + 1].seat = rows[i].seat
          /\ participants[m + 1].holder = Nobody /\ Human(rows[i].seat)
      BY <2>1, <2>2, <3>1, QuietOffers
    <3>3. CASE m = n
      <4>1. Pending(n) = {i}
        BY <1>1, <2>1, <2>2, <3>1, <3>3 DEF Offered, Pending
      <4>2. row = i
        BY <1>6, <4>1
      <4> QED
        BY <1>1, <1>8, <3>1, <3>3, <4>2 DEF OffersFree
    <3>4. CASE m # n
      <4>1. PICK k \in Nat : k = IF m > n THEN m ELSE m + 1
        OBVIOUS
      <4>2. IndexOf(m)' = k
        BY <1>8, <4>1 DEF IndexOf
      <4>3. k \in 1 .. Len(participants) - 1 /\ Without(n, k) = m + 1
        BY <1>1, <1>4, <3>2, <3>4, <4>1 DEF Without
      <4>4. /\ k \in DOMAIN participants' /\ participants'[k].seat = rows[i].seat
            /\ participants'[k].holder = Nobody
        BY <1>3, <1>4, <3>2, <4>3
      <4> QED
        BY <1>1, <1>8, <3>1, <3>2, <3>4, <4>2, <4>4 DEF OffersFree
    <3> QED
      BY <3>3, <3>4
  <2> QED
    BY <1>1, <2>1, <2>2 DEF Offered
<1> QED
  BY <1>9, <1>10, <1>11 DEF IInv

\* The record of a removal as it goes on.
LEMMA RemovalGoesOn ==
    ASSUME TypeOK, NEW c \in removing, NEW st \in {"shift", "save"}, NEW d,
           d = [c EXCEPT !.step = st]
    PROVE  d \in RemoveCalls(rows) /\ d.number = c.number /\ d.number \in Nat /\ d.step = st
<1>1. c \in RemoveCalls(rows)
  BY Typed
<1> QED
  BY <1>1 DEF RemoveCalls

LEMMA RemoveCancelKeeps ==
    ASSUME IInv, NEW c \in removing, RemoveCancel(c), alone' = alone
    PROVE  IInv'
<1>1. /\ TypeOK /\ Rosters /\ Locked /\ OneCall /\ Offered /\ Accepting /\ c.step = "cancel"
      /\ invites = {}
      /\ UNCHANGED <<status, participants, loaded, saved, claims, invites, accepts, rejects>>
  BY DEF IInv, RemoveCancel, rosterVars, Locked
<1>2. PICK d : d = [c EXCEPT !.step = "shift"]
  OBVIOUS
<1>3. /\ removing' = {d} /\ d \in RemoveCalls(rows) /\ d.number = c.number
      /\ c.number \in Nat /\ d.step = "shift" /\ c.row \in 0 .. Len(rows)
  BY <1>1, <1>2, RemovalGoesOn, Typed DEF RemoveCancel, RemoveCalls
<1>4. /\ RowsLess /\ rows' \in Seq(Row) /\ Len(rows') = Len(rows)
      /\ c.row \in DOMAIN rows => rows'[c.row].status # "pending"
  <2>1. rows \in Seq(Row) /\ DOMAIN rows = 1 .. Len(rows)
    BY <1>1, Typed, InRows
  <2>2. CASE c.row = 0
    BY <2>1, <2>2 DEF RemoveCancel, RowsLess
  <2>3. CASE c.row # 0
    <3>1. c.row \in DOMAIN rows /\ SetRow(c.row, "cancelled")
      BY <1>3, <2>1, <2>3 DEF RemoveCancel
    <3> QED
      BY <1>1, <3>1, RowClosed DEF RowStatuses
  <2> QED
    BY <2>2, <2>3
<1>5. TypeOK'
  <2>1. RemoveCalls(rows') = RemoveCalls(rows)
    BY <1>4 DEF RemoveCalls
  <2> QED
    BY <1>1, <1>3, <1>4, <2>1, Typed, InRows, TypedRoster
<1>6. Rosters' /\ Locked' /\ OneCall' /\ Accepting'
  BY <1>1, <1>3 DEF Rosters, Locked, OneCall, Accepting
<1>7. Offered'
  <2>1. SUFFICES ASSUME alone PROVE Offered'
    BY <1>1 DEF Offered
  <2>2. ASSUME NEW i \in DOMAIN rows', rows'[i].status = "pending" PROVE OffersFree(i)'
    <3>1. /\ i \in DOMAIN rows /\ rows[i].status = "pending" /\ i # c.row
          /\ rows'[i].number = rows[i].number /\ rows'[i].seat = rows[i].seat
      BY <1>4, <2>2 DEF RowsLess
    <3>2. OffersFree(i)
      BY <1>1, <2>1, <3>1 DEF Offered
    <3>3. removing = {c}
      BY <1>1 DEF Locked
    <3>4. IndexOf(rows[i].number)' = IndexOf(rows[i].number)
      BY <1>1, <1>3, <3>1, <3>3 DEF IndexOf
    <3> QED
      BY <1>1, <1>3, <3>1, <3>2, <3>3, <3>4 DEF OffersFree
  <2>3. \A i, j \in DOMAIN rows' :
           /\ rows'[i].status = "pending" /\ rows'[j].status = "pending"
           /\ rows'[i].number = rows'[j].number
           => i = j
    BY <1>1, <1>4, <2>1 DEF Offered, RowsLess
  <2> QED
    BY <1>1, <2>2, <2>3 DEF Offered
<1> QED
  BY <1>5, <1>6, <1>7 DEF IInv

LEMMA RemoveShiftKeeps ==
    ASSUME IInv, NEW c \in removing, RemoveShift(c), alone' = alone
    PROVE  IInv'
<1>1. /\ TypeOK /\ Rosters /\ Locked /\ OneCall /\ Offered /\ Accepting /\ c.step = "shift"
      /\ invites = {} /\ rows \in Seq(Row)
      /\ UNCHANGED <<status, participants, loaded, saved, claims, invites, accepts, rejects>>
  BY Typed DEF IInv, RemoveShift, rosterVars, Locked
<1>2. PICK d : d = [c EXCEPT !.step = "save"]
  OBVIOUS
<1>3. /\ removing' = {d} /\ d \in RemoveCalls(rows) /\ d.number = c.number
      /\ c.number \in Nat /\ d.step = "save"
  BY <1>1, <1>2, RemovalGoesOn DEF RemoveShift
<1>4. PICK q : q = rows'
  OBVIOUS
<1>5. /\ q \in Seq(Row) /\ Len(q) = Len(rows) /\ DOMAIN q = DOMAIN rows
      /\ \A i \in DOMAIN rows :
            /\ q[i].seat = rows[i].seat /\ q[i].status = rows[i].status
            /\ q[i].number = IF rows[i].number > c.number THEN rows[i].number - 1
                             ELSE rows[i].number
  <2>1. q = ShiftedFrom(rows, c.number)
    BY <1>4, Zenon DEF RemoveShift, Shifted, ShiftedFrom
  <2> QED
    BY <1>1, <1>3, <2>1, RowsShifted
<1>6. TypeOK'
  <2>1. RemoveCalls(rows') = RemoveCalls(rows)
    BY <1>4, <1>5 DEF RemoveCalls
  <2> QED
    BY <1>1, <1>3, <1>4, <1>5, <2>1, Typed, InRows, TypedRoster
<1>7. Rosters' /\ Locked' /\ OneCall' /\ Accepting'
  BY <1>1, <1>3 DEF Rosters, Locked, OneCall, Accepting
<1>8. Offered'
  <2>1. SUFFICES ASSUME alone PROVE Offered'
    BY <1>1 DEF Offered
  <2>2. removing = {c}
    BY <1>1 DEF Locked
  <2>3. ASSUME NEW i \in DOMAIN rows, rows[i].status = "pending"
        PROVE  /\ rows[i].number \in Nat /\ rows[i].number # c.number
               /\ IndexOf(rows[i].number) = q[i].number + 1
               /\ OffersFree(i)
    <3>1. OffersFree(i) /\ rows[i].number \in Nat
      BY <1>1, <2>1, <2>3, InRows DEF Offered
    <3>2. rows[i].number # c.number
      BY <1>1, <2>2, <3>1 DEF OffersFree
    <3> QED
      BY <1>1, <1>3, <1>5, <2>2, <3>1, <3>2 DEF IndexOf
  <2>4. ASSUME NEW i \in DOMAIN rows', rows'[i].status = "pending" PROVE OffersFree(i)'
    <3>1. /\ i \in DOMAIN rows /\ rows[i].status = "pending" /\ rows'[i].seat = rows[i].seat
          /\ rows'[i].number = q[i].number
      BY <1>4, <1>5, <2>4
    <3>2. IndexOf(rows[i].number)' = q[i].number + 1
      BY <1>3, <3>1 DEF IndexOf
    <3>3. IndexOf(rows[i].number) = q[i].number + 1 /\ OffersFree(i)
      BY <2>3, <3>1
    <3> QED
      BY <1>1, <1>3, <2>2, <3>1, <3>2, <3>3 DEF OffersFree
  <2>5. \A i, j \in DOMAIN rows' :
           /\ rows'[i].status = "pending" /\ rows'[j].status = "pending"
           /\ rows'[i].number = rows'[j].number
           => i = j
    <3>1. SUFFICES ASSUME NEW i \in DOMAIN rows, NEW j \in DOMAIN rows,
                          rows[i].status = "pending", rows[j].status = "pending",
                          q[i].number = q[j].number
                   PROVE  i = j
      BY <1>4, <1>5
    <3>2. rows[i].number = rows[j].number
      BY <1>3, <1>5, <2>3, <3>1
    <3> QED
      BY <1>1, <2>1, <3>1, <3>2 DEF Offered
  <2> QED
    BY <1>1, <2>4, <2>5 DEF Offered
<1> QED
  BY <1>6, <1>7, <1>8 DEF IInv

LEMMA RemoveSaveKeeps ==
    ASSUME IInv, NEW c \in removing, RemoveSave(c), alone' = alone
    PROVE  IInv'
<1>1. /\ TypeOK /\ Rosters /\ Locked /\ OneCall /\ Offered /\ Accepting /\ c.step = "save"
      /\ invites = {} /\ removing' = {} /\ Save
      /\ UNCHANGED <<status, participants, loaded, rows, claims, invites, accepts, rejects>>
      /\ Sound(status, participants)
  BY DEF IInv, RemoveSave, Locked, Rosters
<1>2. saved' \in Snapshots /\ Sound(saved'.status, saved'.participants)
  BY <1>1, SaveIs, Typed DEF Rosters
<1>3. TypeOK'
  <2>1. rows' \in Seq(Row) /\ status' \in Statuses /\ participants' \in Seating
    BY <1>1, Typed
  <2>2. Len(rows) <= Len(rows') /\ alone' \in BOOLEAN
    BY <1>1, <2>1, Typed, InRows
  <2> QED
    BY <1>1, <1>2, <2>1, <2>2, TypedRoster
<1>4. Rosters' /\ Locked' /\ OneCall' /\ Accepting'
  BY <1>1, <1>2 DEF Rosters, Locked, OneCall, Accepting
<1>5. Offered'
  <2>1. SUFFICES ASSUME alone PROVE Offered'
    BY <1>1 DEF Offered
  <2>2. removing = {c}
    BY <1>1 DEF Locked
  <2>3. \A m : IndexOf(m)' = IndexOf(m)
    BY <1>1, <2>2 DEF IndexOf
  <2>4. \A i : OffersFree(i) => OffersFree(i)'
    BY <1>1, <2>2, <2>3 DEF OffersFree
  <2> QED
    BY <1>1, <2>1, <2>4 DEF Offered
<1> QED
  BY <1>3, <1>4, <1>5 DEF IInv

-----------------------------------------------------------------------------
(* A call that fails, and a restart.                                       *)

LEMMA CallFailsKeeps ==
    ASSUME IInv, CallFails, alone' = FALSE
    PROVE  IInv'
<1>1. /\ TypeOK /\ Rosters /\ Locked /\ rows \in Seq(Row)
      /\ invites' \subseteq invites /\ accepts' \subseteq accepts
      /\ rejects' \subseteq rejects /\ removing' \subseteq removing
      /\ UNCHANGED <<status, participants, loaded, saved, rows, claims>>
  <2>1. /\ TypeOK /\ Rosters /\ Locked /\ rows \in Seq(Row)
        /\ UNCHANGED <<status, participants, loaded, saved, rows, claims>>
    BY Typed DEF IInv, CallFails, rosterVars
  <2>2. /\ invites' = invites \/ \E c \in invites : invites' = invites \ {c}
        /\ accepts' = accepts \/ \E c \in accepts : accepts' = accepts \ {c}
        /\ rejects' = rejects \/ \E c \in rejects : rejects' = rejects \ {c}
        /\ removing' = removing \/ removing' = {}
    BY Zenon DEF CallFails
  <2>3. invites' \subseteq invites
    BY <2>2
  <2>4. accepts' \subseteq accepts
    BY <2>2
  <2>5. rejects' \subseteq rejects
    BY <2>2
  <2>6. removing' \subseteq removing
    BY <2>2
  <2> QED
    BY <2>1, <2>3, <2>4, <2>5, <2>6, Zenon
<1>2. TypeOK'
  <2>1. Len(rows) <= Len(rows') /\ rows' \in Seq(Row) /\ claims' \subseteq claims
    BY <1>1, InRows
  <2>2. loaded' \in BOOLEAN /\ alone' \in BOOLEAN
    BY <1>1, Typed
  <2> QED
    BY <1>1, <2>1, <2>2, TypedCalls
<1>3. Rosters'
  BY <1>1 DEF Rosters
<1>4. Locked'
  BY <1>1 DEF Locked, Vacant, Seated, Participant, Human
<1> QED
  BY <1>2, <1>3, <1>4 DEF IInv, OneCall, Offered, Accepting

LEMMA CrashKeeps ==
    ASSUME IInv, Crash, alone' = FALSE
    PROVE  IInv'
<1>1. /\ TypeOK /\ Rosters /\ rows \in Seq(Row) /\ saved \in Snapshots
      /\ status' = saved.status /\ participants' = saved.participants /\ loaded' = TRUE
      /\ invites' = {} /\ accepts' = {} /\ rejects' = {} /\ removing' = {}
      /\ UNCHANGED <<saved, rows, claims>>
  BY Typed DEF IInv, Crash
<1>2. TypeOK'
  <2>1. saved.status \in Statuses /\ saved.participants \in Seating
    BY <1>1 DEF Snapshots
  <2> QED
    BY <1>1, <2>1, Typed, TypedNext
<1>3. Rosters' /\ Locked'
  BY <1>1 DEF Rosters, Locked
<1> QED
  BY <1>2, <1>3 DEF IInv, OneCall, Offered, Accepting

LEMMA StutterKeeps == IInv /\ UNCHANGED vars => IInv'
<1>1. SUFFICES ASSUME IInv, UNCHANGED vars PROVE IInv'
  OBVIOUS
<1>2. TypeOK'
  BY <1>1, Zenon DEF IInv, TypeOK, vars, rosterVars, callVars
<1>3. Rosters' /\ Locked' /\ OneCall'
  BY <1>1 DEF IInv, Rosters, Locked, OneCall, Vacant, Seated, Participant, Human, vars,
              rosterVars, callVars
<1>4. Offered'
  BY <1>1, ZenonT(40) DEF IInv, Offered, OffersFree, IndexOf, Pending, Seated, Participant,
                     Human, vars, rosterVars, callVars
<1>5. Accepting'
  <2>1. /\ participants' = participants /\ rows' = rows /\ claims' = claims
        /\ accepts' = accepts /\ alone' = alone
    BY <1>1 DEF vars, rosterVars, callVars
  <2>2. ASSUME NEW c PROVE ClaimedIsFree(c)' <=> ClaimedIsFree(c)
    BY <2>1, Zenon DEF ClaimedIsFree, Seated, Participant, Pending
  <2> QED
    BY <1>1, <2>1, <2>2, Zenon DEF IInv, Accepting
<1> QED
  BY <1>2, <1>3, <1>4, <1>5 DEF IInv

-----------------------------------------------------------------------------
(* The invariant holds in every state.                                     *)

LEMMA InitKeeps == Init => IInv
<1>1. SUFFICES ASSUME Init PROVE IInv
  OBVIOUS
<1>2. /\ status = "Waiting" /\ participants = FirstRoster /\ FirstRoster \in Seating
      /\ saved = [status |-> status, participants |-> participants]
      /\ Sound("Waiting", FirstRoster) /\ rows = << >> /\ claims = {} /\ invites = {}
      /\ accepts = {} /\ rejects = {} /\ removing = {} /\ alone = TRUE /\ loaded = FALSE
  BY <1>1, FirstRosterIs DEF Init
<1>3. TypeOK
  <2>1. saved \in Snapshots
    BY <1>2 DEF Snapshots, Statuses
  <2>2. rows \in Seq(Row)
    BY <1>2
  <2> QED
    BY <1>2, <2>1, <2>2, Typed DEF Statuses
<1>4. Rosters /\ Locked /\ OneCall
  BY <1>2 DEF Rosters, Locked, OneCall
<1>5. Offered /\ Accepting
  <2>1. DOMAIN rows = {}
    BY <1>2
  <2> QED
    BY <1>2, <2>1 DEF Offered, Accepting
<1> QED
  BY <1>3, <1>4, <1>5 DEF IInv

LEMMA NextKeeps ==
    ASSUME IInv, Next
    PROVE  IInv'
<1>1. alone \in BOOLEAN
  BY Typed DEF IInv
<1>2. CASE Continue /\ UNCHANGED alone
  <2>1. alone' = alone
    BY <1>2
  <2>2. CASE CreateInvite
    BY <2>1, <2>2, CreateInviteKeeps
  <2>3. CASE CreateInsert
    BY <2>1, <2>3, CreateInsertKeeps
  <2>4. CASE \E c \in invites : InviteInsert(c)
    BY <2>1, <2>4, InviteInsertKeeps
  <2>5. CASE \E c \in accepts : AcceptClaim(c) \/ AcceptSeat(c)
    BY <2>1, <2>5, AcceptClaimKeeps, AcceptSeatKeeps
  <2>6. CASE \E c \in rejects : RejectWrite(c)
    BY <2>1, <2>6, RejectWriteKeeps
  <2>7. CASE \E c \in removing : RemoveCancel(c) \/ RemoveShift(c) \/ RemoveSave(c)
    BY <2>1, <2>7, RemoveCancelKeeps, RemoveShiftKeeps, RemoveSaveKeeps
  <2> QED
    BY <1>2, <2>2, <2>3, <2>4, <2>5, <2>6, <2>7 DEF Continue
<1>3. CASE Begin /\ alone' = (alone /\ Quiet)
  <2>1. alone' \in BOOLEAN
    BY <1>3 DEF Quiet
  <2>a. alone' => alone /\ Quiet
    BY <1>3, Zenon
  <2>2. CASE \E r \in Requests, n \in Numbers, who \in Invitees : InviteCheck(r, n, who)
    BY <2>1, <2>a, <2>2, InviteCheckKeeps
  <2>3. CASE \E p \in Players, i \in DOMAIN rows : AcceptRead(p, i) \/ RejectRead(p, i)
    BY <2>1, <2>a, <2>3, AcceptReadKeeps, RejectReadKeeps
  <2>4. CASE \E s \in SpareSeats : AddSeat(s)
    BY <2>1, <2>a, <2>4, AddSeatKeeps
  <2>5. CASE \E n \in Numbers : RemoveSeat(n) \/ Withdraw(n)
    BY <2>1, <2>a, <2>5, RemoveSeatKeeps, WithdrawKeeps
  <2>6. CASE \E m, n \in Numbers : SwapSeats(m, n)
    BY <2>1, <2>a, <2>6, SwapSeatsKeeps
  <2>7. CASE Start \/ End
    BY <2>1, <2>a, <2>7, StartEndKeeps
  <2> QED
    BY <1>3, <2>2, <2>3, <2>4, <2>5, <2>6, <2>7 DEF Begin
<1>4. CASE (CallFails \/ Crash) /\ alone' = FALSE
  BY <1>4, CallFailsKeeps, CrashKeeps
<1> QED
  BY <1>2, <1>3, <1>4 DEF Next

\* The inductive invariant holds in every state the handlers reach.
THEOREM Consistent == Spec => []IInv
<1>1. Init => IInv
  BY InitKeeps
<1>2. IInv /\ [Next]_vars => IInv'
  BY NextKeeps, StutterKeeps
<1> QED
  BY <1>1, <1>2, PTL DEF Spec

\* The roster, the invitation rows and the calls under way keep their types.
THEOREM TypeCorrect == Spec => []TypeOK
<1>1. IInv => TypeOK
  BY DEF IInv
<1> QED
  BY <1>1, Consistent, PTL

\* A game under way has a player on every human seat, in memory and after any
\* restart, whatever accepts, withdrawals and removals preceded its start.
THEOREM StartedGamesAreFull == Spec => []PlayedGameIsFull
<1>1. IInv => PlayedGameIsFull
  BY DEF IInv, Rosters, Sound, PlayedGameIsFull, Filled
<1> QED
  BY <1>1, Consistent, PTL

\* Seats are numbered in order at all times, and while calls do not overlap a
\* seat has one pending invitation at most, which carries the seat's number.
THEOREM RowsFollowSeats == Spec => []PendingRowsFollowSeats
<1>1. IInv => PendingRowsFollowSeats
  <2>1. SUFFICES ASSUME IInv PROVE PendingRowsFollowSeats
    OBVIOUS
  <2>2. /\ participants \in Seating /\ rows \in Seq(Row)
        /\ Sound(status, participants) /\ Offered
    BY <2>1, Typed DEF IInv, Rosters
  <2>3. Numbered
    BY <2>2 DEF Numbered, Sound
  <2>4. ASSUME alone PROVE OnePendingPerSeat
    <3>1. ASSUME NEW n \in Numbers PROVE Cardinality(Pending(n)) <= 1
      <4>1. \A i, j \in Pending(n) : i = j
        BY <2>2, <2>4 DEF Offered, Pending
      <4>2. CASE Pending(n) = {}
        BY <4>2, FS_EmptySet
      <4>3. CASE Pending(n) # {}
        <5>1. PICK i : Pending(n) = {i}
          BY <4>1, <4>3
        <5>2. Cardinality({i}) = 1
          BY FS_Singleton
        <5> QED
          BY <5>1, <5>2
      <4> QED
        BY <4>2, <4>3
    <3> QED
      BY <3>1 DEF OnePendingPerSeat
  <2>5. ASSUME alone, removing = {}, NEW i \in DOMAIN rows, NEW k \in DOMAIN participants,
               rows[i].status = "pending", rows[i].seat = participants[k].seat
        PROVE  rows[i].number = k - 1
    <3>1. OffersFree(i) /\ rows[i].number \in Nat
      BY <2>2, <2>5, InRows DEF Offered
    <3>2. /\ rows[i].number + 1 \in DOMAIN participants
          /\ participants[rows[i].number + 1].seat = rows[i].seat
      BY <2>5, <3>1 DEF OffersFree, IndexOf
    <3>3. rows[i].number + 1 = k
      BY <2>2, <2>5, <3>2 DEF Sound
    <3> QED
      BY <3>1, <3>3
  <2> QED
    BY <2>3, <2>4, <2>5 DEF PendingRowsFollowSeats
<1> QED
  BY <1>1, Consistent, PTL

-----------------------------------------------------------------------------
(* Who comes to sit on a seat.                                             *)

HolderIn(r, s) ==
    IF \E k \in DOMAIN r : r[k].seat = s
    THEN r[CHOOSE k \in DOMAIN r : r[k].seat = s].holder
    ELSE Nobody

LEMMA HolderInIs ==
    ASSUME NEW r, NEW s, \A j, k \in DOMAIN r : r[j].seat = r[k].seat => j = k
    PROVE  /\ \A k \in DOMAIN r : r[k].seat = s => HolderIn(r, s) = r[k].holder
           /\ HolderIn(r, s) # Nobody
                 => \E k \in DOMAIN r : r[k].seat = s /\ r[k].holder = HolderIn(r, s)
<1>1. CASE \E k \in DOMAIN r : r[k].seat = s
  <2>1. PICK c \in DOMAIN r : c = CHOOSE k \in DOMAIN r : r[k].seat = s
    BY <1>1
  <2>2. r[c].seat = s
    BY <1>1, <2>1
  <2>3. HolderIn(r, s) = r[c].holder
    BY <1>1, <2>1 DEF HolderIn
  <2> QED
    BY <2>2, <2>3
<1>2. CASE ~ \E k \in DOMAIN r : r[k].seat = s
  BY <1>2 DEF HolderIn
<1> QED
  BY <1>1, <1>2

LEMMA HolderOfIs ==
    ASSUME NEW s
    PROVE  HolderOf(s) = HolderIn(participants, s) /\ HolderOf(s)' = HolderIn(participants', s)
<1>1. s \in Roster <=> \E k \in DOMAIN participants : participants[k].seat = s
  BY DEF Roster
<1>2. (s \in Roster)' <=> \E k \in DOMAIN participants' : participants'[k].seat = s
  BY DEF Roster
<1> QED
  BY <1>1, <1>2, Zenon DEF HolderOf, HolderIn

\* Nobody sits in the new roster who did not sit on that seat in the old one.
NobodyNew(q, r) ==
    \A k \in DOMAIN q :
        q[k].holder # Nobody =>
            \E j \in DOMAIN r : r[j].seat = q[k].seat /\ r[j].holder = q[k].holder

\* While no calls overlap, a step seats somebody only by accepting.
LEMMA SeatedByAccepting ==
    ASSUME IInv, Next, alone'
    PROVE  \/ NobodyNew(participants', participants)
           \/ \E c \in accepts : AcceptSeat(c)
<1> PICK q : q = participants'
  OBVIOUS
<1>1. participants \in Seating /\ \A n \in Numbers : n \in Nat
  <2>1. Numbers \subseteq Nat
    BY DEF Numbers
  <2> QED
    BY <2>1, Typed DEF IInv
<1>2. q = participants => NobodyNew(q, participants)
  BY DEF NobodyNew
<1>3. CASE Continue
  <2>1. CASE \E c \in accepts : AcceptSeat(c)
    BY <2>1
  <2>2. CASE ~ \E c \in accepts : AcceptSeat(c)
    <3>1. UNCHANGED participants
      BY <1>3, <2>2 DEF Continue, CreateInvite, CreateInsert, InviteInsert, AcceptClaim,
                        RejectWrite, RemoveCancel, RemoveShift, RemoveSave, rosterVars
    <3> QED
      BY <1>2, <3>1
  <2> QED
    BY <2>1, <2>2
<1>4. CASE \E r \in Requests, n \in Numbers, who \in Invitees : InviteCheck(r, n, who)
  BY <1>2, <1>4 DEF InviteCheck, rosterVars
<1>5. CASE \E p \in Players, i \in DOMAIN rows : AcceptRead(p, i) \/ RejectRead(p, i)
  BY <1>2, <1>5 DEF AcceptRead, RejectRead, rosterVars
<1>6. CASE \E s \in SpareSeats : AddSeat(s)
  <2>1. PICK s \in SpareSeats : AddSeat(s)
    BY <1>6
  <2>2. q = Append(participants,
                   [seat |-> s, number |-> Len(participants), holder |-> Nobody])
    BY <2>1 DEF AddSeat, WithSeat
  <2>3. /\ DOMAIN q = DOMAIN participants \cup {Len(participants) + 1}
        /\ \A k \in DOMAIN participants : q[k] = participants[k]
        /\ q[Len(participants) + 1].holder = Nobody
    <3>1. s \in AllSeats
      BY DEF AllSeats
    <3> QED
      BY <1>1, <2>2, <3>1, SeatAdded
  <2> QED
    BY <2>3 DEF NobodyNew
<1>7. CASE \E n \in Numbers : RemoveSeat(n)
  <2>1. PICK n \in Numbers : RemoveSeat(n)
    BY <1>7
  <2>2. q = Renumbered(RemoveAt(participants, n + 1)) /\ n + 1 \in DOMAIN participants
    BY <2>1 DEF RemoveSeat, MayRemove, Seated
  <2>3. /\ DOMAIN q = 1 .. Len(participants) - 1
        /\ \A k \in 1 .. Len(participants) - 1 :
              /\ Without(n, k) \in DOMAIN participants
              /\ q[k].seat = participants[Without(n, k)].seat
              /\ q[k].holder = participants[Without(n, k)].holder
    BY SMTT(30), <1>1, <2>2, SeatRemoved
  <2> QED
    BY <2>3 DEF NobodyNew
<1>8. CASE \E n \in Numbers : Withdraw(n)
  <2>1. PICK n \in Numbers : Withdraw(n)
    BY <1>8
  <2>2. q = Held(participants, n + 1, Nobody) /\ n + 1 \in DOMAIN participants
    BY <2>1 DEF Withdraw, MayWithdraw, Vacated, Held, Seated
  <2>3. /\ DOMAIN q = DOMAIN participants /\ q[n + 1].holder = Nobody
        /\ \A k \in DOMAIN participants : k # n + 1 => q[k] = participants[k]
    BY <1>1, <2>2, HolderSet DEF Persons
  <2> QED
    BY <2>3 DEF NobodyNew
<1>9. CASE \E m, n \in Numbers : SwapSeats(m, n)
  <2>1. PICK m \in Numbers, n \in Numbers : SwapSeats(m, n)
    BY <1>9
  <2>2. /\ m + 1 \in DOMAIN participants /\ n + 1 \in DOMAIN participants
        /\ m \in Nat /\ n \in Nat /\ q = Traded(participants, m, n)
    BY <1>1, <2>1 DEF SwapSeats, MaySwap, Seated, Participant, Traded
  <2>3. /\ DOMAIN q = DOMAIN participants
        /\ \A k \in DOMAIN participants \ {m + 1, n + 1} : q[k] = participants[k]
        /\ q[m + 1].seat = participants[n + 1].seat
        /\ q[m + 1].holder = participants[n + 1].holder
        /\ q[n + 1].seat = participants[m + 1].seat
        /\ q[n + 1].holder = participants[m + 1].holder
    BY <1>1, <2>2, SeatsSwapped
  <2> QED
    BY <2>2, <2>3 DEF NobodyNew
<1>10. CASE Start \/ End
  BY <1>2, <1>10 DEF Start, End
<1>11. Continue \/ Begin
  BY DEF Next
<1> QED
  BY <1>3, <1>4, <1>5, <1>6, <1>7, <1>8, <1>9, <1>10, <1>11 DEF Begin

LEMMA SeatedStep ==
    ASSUME IInv, Next, IInv', alone', NEW s \in AllSeats,
           HolderOf(s)' \in Players \ {HolderOf(s)}
    PROVE  /\ HolderOf(s) = Nobody
           /\ \E c \in claims : rows[c.row].seat = s /\ c.player = HolderOf(s)'
<1> PICK q : q = participants'
  OBVIOUS
<1> PICK h : h = HolderIn(q, s)
  OBVIOUS
<1>1. /\ \A j, k \in DOMAIN participants :
            participants[j].seat = participants[k].seat => j = k
      /\ \A j, k \in DOMAIN q : q[j].seat = q[k].seat => j = k
      /\ participants \in Seating
  BY Typed DEF IInv, Rosters, Sound
<1>2. HolderOf(s) = HolderIn(participants, s) /\ HolderOf(s)' = h
  BY HolderOfIs
<1>3. h \in Players /\ h # HolderIn(participants, s) /\ h # Nobody
  BY <1>2, PlayersAssumption
<1>4. PICK k \in DOMAIN q : q[k].seat = s /\ q[k].holder = h
  BY <1>1, <1>3, HolderInIs
<1>5. \A j \in DOMAIN participants :
         participants[j].seat = s => HolderIn(participants, s) = participants[j].holder
  BY <1>1, HolderInIs
<1>6. ~NobodyNew(q, participants)
  BY <1>3, <1>4, <1>5 DEF NobodyNew
<1>7. PICK c \in accepts : AcceptSeat(c)
  BY <1>6, SeatedByAccepting
<1>8. /\ c.player \in Persons /\ c.number \in Nat
      /\ q # participants /\ c.number + 1 \in DOMAIN participants
      /\ q = Held(participants, c.number + 1, c.player)
  <2>1. q # participants
    BY <1>6 DEF NobodyNew
  <2> QED
    BY <1>7, <2>1, AcceptSeatIs
<1>9. /\ DOMAIN q = DOMAIN participants /\ q[c.number + 1].holder = c.player
      /\ \A j \in DOMAIN participants : /\ q[j].seat = participants[j].seat
                                        /\ j # c.number + 1 => q[j] = participants[j]
  BY SMTT(30), <1>1, <1>8, HolderSet
<1>10. k = c.number + 1
  BY <1>3, <1>4, <1>5, <1>9
<1>11. ClaimedIsFree(c)
  <2>1. Accepting /\ alone /\ c.claimed
    <3>1. alone
      BY DEF Next
    <3> QED
      BY <1>7, <3>1 DEF IInv, AcceptSeat
  <2> QED
    BY <2>1 DEF Accepting
<1>12. /\ participants[k].holder = Nobody /\ participants[k].seat = rows[c.row].seat
       /\ [row |-> c.row, player |-> c.player] \in claims
  BY <1>10, <1>11 DEF ClaimedIsFree, Participant
<1>13. HolderOf(s) = Nobody /\ rows[c.row].seat = s /\ c.player = h
  BY <1>2, <1>4, <1>5, <1>9, <1>10, <1>12
<1>14. PICK e \in claims : e.row = c.row /\ e.player = c.player
  BY <1>12
<1> QED
  BY <1>2, <1>13, <1>14

\* While calls do not overlap and none fails, a player only comes to sit on a
\* seat that is free and that an invitation they claimed was for, however the
\* seats have been renumbered since it was sent.
THEOREM PlayersSitWhereInvited == Spec => SeatedByInvitation
<1>1. IInv /\ IInv' /\ [Next]_vars =>
        [alone' =>
          \A s \in AllSeats :
            HolderOf(s)' \in Players \ {HolderOf(s)} =>
                /\ HolderOf(s) = Nobody
                /\ \E c \in claims : rows[c.row].seat = s /\ c.player = HolderOf(s)']_vars
  BY SeatedStep
<1> QED
  BY <1>1, Consistent, PTL DEF Spec, SeatedByInvitation

-----------------------------------------------------------------------------
(* What the games panel offers.                                            *)

\* The newest row of a seat is the only one that may be pending: what the
\* panel shows of a seat, the status of its newest row, leaves no other out.
NewestIsOffered ==
    alone => \A i, j \in DOMAIN rows :
                 i < j /\ rows[i].seat = rows[j].seat => rows[i].status # "pending"

\* The rows keep their seats, and none turns pending.
NoneReopened ==
    /\ DOMAIN rows' = DOMAIN rows
    /\ \A i \in DOMAIN rows :
          /\ rows'[i].seat = rows[i].seat
          /\ rows'[i].status = "pending" => rows[i].status = "pending"

LEMMA NewestNoneReopened ==
    ASSUME NewestIsOffered, alone' => alone, NoneReopened
    PROVE  NewestIsOffered'
  BY DEF NewestIsOffered, NoneReopened

LEMMA NewestAppended ==
    ASSUME TypeOK, NewestIsOffered, alone' => alone,
           NEW s \in AllSeats, NEW n \in Nat, NEW who \in Persons,
           rows' = Append(rows, NewRow(s, n, who)),
           alone => \A i \in DOMAIN rows : rows[i].seat = s => rows[i].status # "pending"
    PROVE  NewestIsOffered'
<1>1. PICK q : q = rows'
  OBVIOUS
<1>a. rows \in Seq(Row)
  BY Typed
<1>2. Len(rows) \in Nat /\ DOMAIN rows = 1 .. Len(rows)
  BY <1>a, InRows
<1>3. /\ DOMAIN q = DOMAIN rows \cup {Len(rows) + 1} /\ \A i \in DOMAIN rows : q[i] = rows[i]
      /\ q[Len(rows) + 1].seat = s
  BY <1>1, <1>a, RowAppended
<1>4. ASSUME alone', NEW i \in DOMAIN q, NEW j \in DOMAIN q, i < j, q[i].seat = q[j].seat
      PROVE  q[i].status # "pending"
  <2>1. i \in DOMAIN rows /\ q[i] = rows[i]
    BY <1>2, <1>3, <1>4
  <2>2. CASE j \in DOMAIN rows
    BY <1>3, <1>4, <2>1, <2>2 DEF NewestIsOffered
  <2>3. CASE j = Len(rows) + 1
    BY <1>3, <1>4, <2>1, <2>3
  <2> QED
    BY <1>3, <2>2, <2>3
<1> QED
  BY <1>1, <1>4 DEF NewestIsOffered

LEMMA NewestCreateInvite ==
    ASSUME IInv, NewestIsOffered, CreateInvite, alone' = alone
    PROVE  NewestIsOffered'
<1>1. PICK k \in DOMAIN FirstSeats, who \in (Players \ {Creator}) \cup {Nobody} :
         /\ k > 1 /\ Human(FirstSeats[k])
         /\ \A j \in 2 .. Len(FirstSeats) :
               (\E i \in DOMAIN rows : rows[i].number = j - 1)
                 <=> (j < k /\ Human(FirstSeats[j]))
         /\ rows' = Append(rows, NewRow(FirstSeats[k], k - 1, who))
  BY DEF CreateInvite
<1>2. PICK n \in Nat : n = k - 1 /\ k = n + 1
  BY <1>1, FirstRosterIs
<1>3. FirstSeats[k] \in AllSeats /\ who \in Persons
      /\ rows' = Append(rows, NewRow(FirstSeats[k], n, who))
  BY <1>1, <1>2, FirstRosterIs DEF Persons
<1>4. ASSUME alone, NEW i \in DOMAIN rows, rows[i].seat = FirstSeats[k],
             rows[i].status = "pending"
      PROVE  FALSE
  <2>1. ~loaded /\ removing = {} /\ participants = FirstRoster /\ OffersFree(i)
    BY <1>4 DEF IInv, OneCall, Rosters, Offered, CreateInvite
  <2>2. rows[i].number \in Nat
    BY <1>4, Typed, InRows DEF IInv
  <2>3. /\ rows[i].number + 1 \in DOMAIN FirstSeats
        /\ FirstSeats[rows[i].number + 1] = FirstSeats[k]
    BY <1>4, <2>1, FirstRosterIs DEF OffersFree, IndexOf
  <2>4. rows[i].number + 1 = k
    BY <2>3, SeatsAssumption DEF IsInjective
  <2>5. rows[i].number = n
    BY <1>2, <2>2, <2>4
  <2>6. k \in 2 .. Len(FirstSeats)
    BY <1>1, FirstRosterIs
  <2> QED
    BY <1>1, <1>2, <1>4, <2>5, <2>6
<1> QED
  BY <1>3, <1>2, <1>4, NewestAppended DEF IInv

LEMMA NewestInviteInsert ==
    ASSUME IInv, NewestIsOffered, NEW c \in invites, InviteInsert(c), alone' = alone
    PROVE  NewestIsOffered'
<1>1. Vacant(c.number) /\ removing = {} /\ c \in InviteCalls
  BY Typed DEF IInv, Locked
<1>2. PICK n \in Nat, who \in Persons, s \in AllSeats :
         n = c.number /\ who = c.invitee /\ s = Participant(c.number).seat
  <2>1. c.number \in Nat /\ c.invitee \in Persons /\ c.number + 1 \in DOMAIN participants
    BY <1>1 DEF InviteCalls, Vacant, Seated
  <2>2. participants[c.number + 1].seat \in AllSeats
    BY <2>1, Typed, InSeating DEF IInv
  <2> QED
    BY <2>1, <2>2 DEF Participant
<1>3. rows' = Append(rows, NewRow(s, n, who))
  BY <1>2 DEF InviteInsert
<1>4. ASSUME alone, NEW i \in DOMAIN rows, rows[i].seat = s, rows[i].status = "pending"
      PROVE  FALSE
  <2>1. OffersFree(i) /\ Pending(n) = {} /\ rows[i].number \in Nat
    BY <1>2, <1>4, Typed, InRows DEF IInv, Offered
  <2>2. /\ rows[i].number + 1 \in DOMAIN participants
        /\ participants[rows[i].number + 1].seat = s
    BY <1>1, <1>4, <2>1 DEF OffersFree, IndexOf
  <2>3. n + 1 \in DOMAIN participants /\ participants[n + 1].seat = s
    BY <1>1, <1>2 DEF Vacant, Seated, Participant
  <2>4. rows[i].number + 1 = n + 1
    BY <2>2, <2>3 DEF IInv, Rosters, Sound
  <2>5. rows[i].number = n
    BY <2>1, <2>4
  <2> QED
    BY <1>4, <2>1, <2>5 DEF Pending
<1> QED
  BY <1>3, <1>4, NewestAppended DEF IInv

LEMMA NewestNext ==
    ASSUME IInv, NewestIsOffered, Next
    PROVE  NewestIsOffered'
<1>0. TypeOK /\ rows \in Seq(Row)
  BY Typed DEF IInv
<1>1. alone' => alone
  BY Zenon DEF Next
<1>a. UNCHANGED rows => NoneReopened
  BY DEF NoneReopened
<1>b. RowsLess => NoneReopened
  BY DEF RowsLess, NoneReopened
<1>2. CASE Continue /\ UNCHANGED alone
  <2>1. CASE CreateInvite
    BY <1>2, <2>1, NewestCreateInvite
  <2>2. CASE \E c \in invites : InviteInsert(c)
    BY <1>2, <2>2, NewestInviteInsert
  <2>3. CASE CreateInsert \/ \E c \in accepts : AcceptSeat(c)
    <3>1. UNCHANGED rows
      BY <2>3 DEF CreateInsert, AcceptSeat
    <3> QED
      BY <1>1, <1>a, <3>1, NewestNoneReopened
  <2>4. CASE \E c \in accepts : AcceptClaim(c)
    <3>1. PICK c \in accepts : AcceptClaim(c)
      BY <2>4
    <3>2. CASE StillPending(c.row)
      BY <1>0, <1>1, <1>b, <3>1, <3>2, RowClaimed, NewestNoneReopened
    <3>3. CASE ~StillPending(c.row)
      <4>1. UNCHANGED rows
        BY <3>1, <3>3 DEF AcceptClaim
      <4> QED
        BY <1>1, <1>a, <4>1, NewestNoneReopened
    <3> QED
      BY <3>2, <3>3
  <2>5. CASE \E c \in rejects : RejectWrite(c)
    <3>1. PICK c \in rejects : SetRow(c.row, "rejected")
      BY <2>5 DEF RejectWrite
    <3>2. c.row \in DOMAIN rows
      BY <1>0, <3>1, Typed DEF RejectCalls
    <3> QED
      BY <1>0, <1>1, <1>b, <3>1, <3>2, RowClosed, NewestNoneReopened DEF RowStatuses
  <2>6. CASE \E c \in removing : RemoveCancel(c)
    <3>1. PICK c \in removing : RemoveCancel(c)
      BY <2>6
    <3>2. CASE c.row = 0
      <4>1. UNCHANGED rows
        BY <3>1, <3>2 DEF RemoveCancel
      <4> QED
        BY <1>1, <1>a, <4>1, NewestNoneReopened
    <3>3. CASE c.row # 0
      <4>1. c.row \in DOMAIN rows /\ SetRow(c.row, "cancelled")
        BY <1>0, <3>1, <3>3, Typed, InRows DEF RemoveCancel, RemoveCalls
      <4> QED
        BY <1>0, <1>1, <1>b, <4>1, RowClosed, NewestNoneReopened DEF RowStatuses
    <3> QED
      BY <3>2, <3>3
  <2>7. CASE \E c \in removing : RemoveShift(c)
    <3>1. PICK c \in removing : RemoveShift(c)
      BY <2>7
    <3>2. c.number \in Nat
      BY <1>0, <3>1, Typed DEF RemoveCalls
    <3>3. PICK q : q = rows'
      OBVIOUS
    <3>4. q = ShiftedFrom(rows, c.number)
      BY <3>1, <3>3, Zenon DEF RemoveShift, Shifted, ShiftedFrom
    <3>5. NoneReopened
      BY <1>0, <3>2, <3>3, <3>4, RowsShifted DEF NoneReopened
    <3> QED
      BY <1>1, <3>5, NewestNoneReopened
  <2>8. CASE \E c \in removing : RemoveSave(c)
    <3>1. UNCHANGED rows
      BY <2>8 DEF RemoveSave
    <3> QED
      BY <1>1, <1>a, <3>1, NewestNoneReopened
  <2> QED
    BY <1>2, <2>1, <2>2, <2>3, <2>4, <2>5, <2>6, <2>7, <2>8 DEF Continue
<1>3. CASE Begin
  <2>1. CASE \E n \in Numbers : Withdraw(n)
    BY <1>0, <1>1, <1>b, <2>1, WithdrawnRow, NewestNoneReopened
  <2>2. CASE ~ \E n \in Numbers : Withdraw(n)
    <3>1. UNCHANGED rows
      BY <1>3, <2>2 DEF Begin, InviteCheck, AcceptRead, RejectRead, AddSeat, RemoveSeat,
                        SwapSeats, Start, End
    <3> QED
      BY <1>1, <1>a, <3>1, NewestNoneReopened
  <2> QED
    BY <2>1, <2>2
<1>4. CASE (CallFails \/ Crash) /\ alone' = FALSE
  BY <1>4 DEF NewestIsOffered
<1> QED
  BY <1>2, <1>3, <1>4 DEF Next

\* While calls do not overlap, a seat's newest row is the only one that may be
\* pending, through every renumbering.
THEOREM NewestOffered == Spec => []NewestIsOffered
<1>1. Init => NewestIsOffered
  BY DEF Init, NewestIsOffered
<1>2. IInv /\ NewestIsOffered /\ [Next]_vars => NewestIsOffered'
  <2>1. UNCHANGED vars /\ NewestIsOffered => NewestIsOffered'
    BY DEF vars, NewestIsOffered
  <2> QED
    BY <2>1, NewestNext
<1> QED
  BY <1>1, <1>2, Consistent, PTL DEF Spec

\* An invitation that is shown as the newest one of its seat.
LEMMA ShownAsPending ==
    ASSUME IInv, NewestIsOffered, alone, NEW n, OwnHistory(n), NEW i \in Pending(n)
    PROVE  InvitationStatus(n) = "Pending"
<1> DEFINE history == {j \in DOMAIN rows : rows[j].number = n}
           newest == CHOOSE j \in history : \A k \in history : j >= k
<1>1. /\ rows \in Seq(Row) /\ Len(rows) \in Nat /\ DOMAIN rows = 1 .. Len(rows)
      /\ i \in history /\ rows[i].status = "pending"
  BY Typed, InRows DEF IInv, Pending
<1>2. newest \in history /\ newest >= i
  <2>1. history \subseteq 1 .. Len(rows) /\ history # {}
    BY <1>1
  <2> HIDE DEF history
  <2>2. \E j \in history : \A k \in history : j >= k
    BY <1>1, <2>1, NewestExists
  <2> QED
    BY <1>1, <2>2
<1>3. rows[newest].seat = rows[i].seat
  BY <1>1, <1>2 DEF OwnHistory
<1>4. newest = i
  <2>1. newest \in DOMAIN rows /\ i \in DOMAIN rows
    BY <1>1, <1>2
  <2>2. ~(i < newest)
    BY <1>1, <1>3, <2>1 DEF NewestIsOffered
  <2> HIDE DEF newest
  <2> QED
    BY <1>1, <1>2, <2>1, <2>2
<1>5. history # {} /\ rows[newest].status = "pending"
  BY <1>1, <1>4
<1> QED
  BY <1>5, Zenon DEF InvitationStatus

\* What a row's buttons offer, and the page of a mailed one.
LEMMA RowOffersAre ==
    ASSUME NEW p, NEW o \in RowOffers(p) \cup LinkOffers
    PROVE  \E i \in DOMAIN rows :
              /\ rows[i].status = "pending"
              /\ \/ o = Offer("accept", i, i) /\ rows[i].invitee \in {p, Nobody}
                 \/ o = Offer("reject", i, i) /\ rows[i].invitee = p
<1>1. CASE o \in LinkOffers
  BY <1>1 DEF LinkOffers, Preview
<1>2. CASE o \in RowOffers(p)
  <2>1. CASE Relationship(p) = "InvitedByName"
    <3>1. o \in {Offer(what, i, i) : what \in {"accept", "reject"}, i \in NamedFor(p)}
      BY <1>2, <2>1 DEF RowOffers
    <3> QED
      BY <3>1 DEF NamedFor
  <2>2. CASE Relationship(p) = "InvitedOpen"
    <3>1. o \in {Offer("accept", i, i) : i \in OpenToAll}
      BY <1>2, <2>2 DEF RowOffers
    <3> QED
      BY <3>1 DEF OpenToAll
  <2>3. CASE Relationship(p) \notin {"InvitedByName", "InvitedOpen"}
    BY <1>2, <2>3 DEF RowOffers
  <2> QED
    BY <2>1, <2>2, <2>3
<1> QED
  BY <1>1, <1>2

\* What the page of a game offers.
LEMMA OffersAre ==
    ASSUME NEW p, NEW o \in Offers(p)
    PROVE  \/ /\ status = "Waiting"
              /\ \E n \in 0 .. LastSeat : o \in Manage(p, n)
           \/ /\ CanReorder(p)
              /\ \E n, m \in 0 .. LastSeat : o = Offer("swap", n, m)
           \/ CanReorder(p) /\ o = Offer("start", 0, 0)
           \/ p = Creator /\ ~Over /\ o = Offer("abort", 0, 0)
<1>1. Access(p) # "Rejected"
  BY DEF Offers
<1>2. \/ status = "Waiting" /\ o \in UNION {Manage(p, n) : n \in 0 .. LastSeat}
      \/ CanReorder(p) /\ o \in UNION {Arrows(n) : n \in 0 .. LastSeat}
      \/ CanReorder(p) /\ o \in {Offer("start", 0, 0)}
      \/ p = Creator /\ ~Over /\ o \in {Offer("abort", 0, 0)}
  BY <1>1 DEF Offers
<1>3. \A n \in 0 .. LastSeat : o \in Arrows(n) => \E m \in 0 .. LastSeat : o = Offer("swap", n, m)
  BY DEF Arrows
<1> QED
  BY <1>2, <1>3

\* A page that shows the game as it is offers nothing the server would refuse,
\* and no invitation to a seat that is not free, for any players, seats and
\* engines; but for the two offers OffersAreAccepted excepts.
THEOREM PanelOffersAreAccepted == Spec => []OffersAreAccepted
<1>1. ASSUME IInv, NewestIsOffered PROVE OffersAreAccepted
  <2> SUFFICES ASSUME Unlocked, loaded, NEW p \in Players,
                      NEW o \in Offers(p) \cup RowOffers(p) \cup LinkOffers
               PROVE  \/ Accepted(p, o)
                      \/ o.what = "start" /\ Len(participants) < 2
                      \/ o.what = "send" /\ ~(OwnHistory(o.seat) /\ alone)
    BY DEF OffersAreAccepted
  <2>1. /\ CanWrite /\ removing = {}
        /\ Len(participants) \in Nat /\ DOMAIN participants = 1 .. Len(participants)
    BY <1>1, Typed, InSeating DEF IInv, CanWrite, Unlocked
  <2>2. \A n \in 0 .. LastSeat : n \in Nat /\ Seated(n)
    BY <2>1 DEF LastSeat, Seated
  <2>3. CanReorder(p) => status = "Waiting" /\ Filled /\ MayManage(p)
    BY DEF CanReorder, IsReadyToStart, Filled, Human, MayManage
  <2>4. CASE o \in RowOffers(p) \cup LinkOffers
    <3>1. PICK i \in DOMAIN rows :
             /\ rows[i].status = "pending"
             /\ \/ o = Offer("accept", i, i) /\ rows[i].invitee \in {p, Nobody}
                \/ o = Offer("reject", i, i) /\ rows[i].invitee = p
      BY <2>4, RowOffersAre
    <3>2. CASE o = Offer("reject", i, i) /\ rows[i].invitee = p
      <4>1. o.what = "reject" /\ o.seat = i
        BY <3>2 DEF Offer
      <4> QED
        BY <3>2, <4>1 DEF Accepted
    <3>3. CASE o = Offer("accept", i, i) /\ rows[i].invitee \in {p, Nobody}
      <4>1. o.what = "accept" /\ o.seat = i
        BY <3>3 DEF Offer
      <4>2. Claimable(p, i)
        BY <3>1, <3>3 DEF Claimable
      <4>3. alone => Vacant(rows[i].number)
        <5>1. alone => OffersFree(i)
          BY <1>1, <3>1 DEF IInv, Offered
        <5> QED
          BY <2>1, <5>1 DEF OffersFree, IndexOf, Vacant, Seated, Participant
      <4> QED
        BY <4>1, <4>2, <4>3 DEF Accepted, InvitationIsGood
    <3> QED
      BY <3>1, <3>2, <3>3
  <2>5. CASE o \in Offers(p)
    <3>1. ASSUME status = "Waiting", NEW n \in 0 .. LastSeat, o \in Manage(p, n)
          PROVE  \/ Accepted(p, o)
                 \/ o.what = "send" /\ ~(OwnHistory(o.seat) /\ alone)
      <4>1. CASE o = Offer("send", n, n)
        <5>1. /\ o.what = "send" /\ o.seat = n /\ p = Creator /\ Human(Participant(n).seat)
              /\ Participant(n).holder = Nobody /\ InvitationStatus(n) # "Pending"
          BY <3>1, <4>1 DEF Manage, Offer
        <5>2. Vacant(n)
          BY <2>2, <5>1 DEF Vacant
        <5>3. OwnHistory(n) /\ alone => Pending(n) = {}
          BY <1>1, <5>1, ShownAsPending
        <5> QED
          BY <3>1, <5>1, <5>2, <5>3 DEF Accepted, OpenTo, MayManage
      <4>2. CASE o = Offer("remove", n, n)
        <5>1. o.what = "remove" /\ o.seat = n /\ p = Creator /\ Participant(n).holder # Creator
          BY <3>1, <4>2 DEF Manage, Offer
        <5> QED
          BY <2>1, <2>2, <3>1, <5>1 DEF Accepted, MayRemove, MayManage
      <4>3. CASE o = Offer("withdraw", n, n)
        <5>1. /\ o.what = "withdraw" /\ o.seat = n /\ p = Participant(n).holder
              /\ Participant(n).holder # Creator
          BY <3>1, <4>3 DEF Manage, Offer
        <5>2. Participant(n).holder # Nobody
          BY <5>1, PlayersAssumption
        <5> QED
          BY <2>1, <2>2, <3>1, <5>1, <5>2 DEF Accepted, MayWithdraw
      <4> QED
        BY <3>1, <4>1, <4>2, <4>3 DEF Manage
    <3>2. ASSUME CanReorder(p), NEW n \in 0 .. LastSeat, NEW m \in 0 .. LastSeat,
                 o = Offer("swap", n, m)
          PROVE  Accepted(p, o)
      <4>1. o.what = "swap" /\ o.seat = n /\ o.other = m
        BY <3>2 DEF Offer
      <4> QED
        BY <2>1, <2>2, <2>3, <3>2, <4>1 DEF Accepted, MaySwap
    <3>3. ASSUME CanReorder(p), o = Offer("start", 0, 0)
          PROVE  \/ Accepted(p, o)
                 \/ o.what = "start" /\ Len(participants) < 2
      <4>1. o.what = "start"
        BY <3>3 DEF Offer
      <4>2. Len(participants) < 2 \/ MayStart
        BY <2>1, <2>3, <3>3 DEF MayStart
      <4> QED
        BY <2>1, <2>3, <3>3, <4>1, <4>2, Zenon DEF Accepted
    <3>4. ASSUME p = Creator, ~Over, o = Offer("abort", 0, 0)
          PROVE  Accepted(p, o)
      <4>1. o.what = "abort"
        BY <3>4 DEF Offer
      <4> QED
        BY <2>1, <3>4, <4>1 DEF Accepted, MayManage
    <3> QED
      BY <2>5, <3>1, <3>2, <3>3, <3>4, OffersAre
  <2> QED
    BY <2>4, <2>5
<1> QED
  BY <1>1, Consistent, NewestOffered, PTL

-----------------------------------------------------------------------------
(* The form of a new game.                                                 *)

\* An invitation sent for a seat that was added in the form, for any name and
\* whoever the players are, reaches whom the form said, again after a player it
\* let in has withdrawn; but for the two exceptions SendReachesTheAsked states.
THEOREM AddedSeatsAreOffered ==
    ASSUME NEW kind \in {"named", "open", "email", "engine"}, NEW name, NEW players
    PROVE  SendReachesTheAsked(kind, name, players)
<1> SUFFICES ASSUME kind # "engine", CanAdd(kind, name),
                    NEW seat \in SeatsAdded(AddSeatRow(kind, name), players)
             PROVE  LET asked == Other(kind, IF kind = "open" THEN NoName ELSE name)
                        named(p) == IF p = OpenSeat THEN Other("open", NoName) ELSE Other("named", p)
                        admitted == IF kind = "named" THEN {name} ELSE players
                    IN  /\ Sent(seat) = IF kind = "named" THEN named(name) ELSE asked
                        /\ \A p \in admitted :
                              Sent(Given(seat, p)) = IF kind = "email" THEN asked ELSE named(p)
  BY DEF SendReachesTheAsked
<1>1. CASE kind = "named"
  <2>1. seat = [kind |-> "human", name |-> name, email |-> NoName]
    BY <1>1 DEF SeatsAdded, AddSeatRow
  <2> QED
    BY <1>1, <2>1 DEF Sent, Given, NoName
<1>2. CASE kind = "open"
  <2>1. seat = [kind |-> "human", name |-> OpenSeat, email |-> NoName]
    BY <1>2 DEF SeatsAdded, AddSeatRow
  <2> QED
    BY <1>2, <2>1 DEF Sent, Given
<1>3. CASE kind = "email"
  <2>1. seat = [kind |-> "human", name |-> name, email |-> name] /\ name # NoName
    BY <1>3 DEF SeatsAdded, AddSeatRow, CanAdd, NeedsName
  <2> QED
    BY <1>3, <2>1 DEF Sent, Given
<1> QED
  BY <1>1, <1>2, <1>3

\* A set of numbers has a least one.
LEMMA LeastExists ==
    ASSUME NEW T, T \subseteq Nat, T # {}
    PROVE  \E i \in T : \A j \in T : i <= j
<1>1. PICK i \in T : \A j \in T : <<j, i>> \notin OpToRel(<, Nat)
  BY NatLessThanWellFounded, WFMin
<1>2. \A j \in T : ~(j < i)
  BY <1>1 DEF OpToRel
<1> QED
  BY <1>2

\* What leaves out 0, and the next of every number it leaves out, is empty.
LEMMA FromZeroOn ==
    ASSUME NEW T, T \subseteq Nat, 0 \notin T, \A n \in Nat : n \notin T => n + 1 \notin T
    PROVE  T = {}
<1> SUFFICES ASSUME T # {} PROVE FALSE
  OBVIOUS
<1>1. PICK i \in T : \A j \in T : i <= j
  BY LeastExists
<1>2. PICK j \in Nat : i = j + 1
  <2>1. i # 0 /\ i \in Nat
    BY <1>1
  <2>2. i - 1 \in Nat /\ i = (i - 1) + 1
    BY <2>1
  <2> QED
    BY <2>2
<1>3. j \notin T
  BY <1>1, <1>2
<1> QED
  BY <1>1, <1>2, <1>3

-----------------------------------------------------------------------------
\* A sequence t of n + 1 elements: those of f in order, with e after the first p.
PutIn(t, f, e, p, n) ==
    /\ Len(t) = n + 1 /\ t[p + 1] = e
    /\ \A i \in 1 .. p : t[i] = f[i]
    /\ \A i \in p + 1 .. n : t[i + 1] = f[i]

\* What InsertAt returns.
LEMMA InsertIs ==
    ASSUME NEW X, NEW s \in Seq(X), NEW e \in X, NEW n \in Nat, n = Len(s), NEW p \in 0 .. n
    PROVE  InsertAt(s, p + 1, e) \in Seq(X) /\ PutIn(InsertAt(s, p + 1, e), s, e, p, n)
<1>1. PICK a : a = SubSeq(s, 1, p)
  OBVIOUS
<1>2. PICK b : b = SubSeq(s, p + 1, n)
  OBVIOUS
<1>3. PICK o \in Seq(X) : o = <<e>> /\ Len(o) = 1 /\ o[1] = e
  <2>1. <<e>> \in Seq(X) /\ Len(<<e>>) = 1 /\ <<e>>[1] = e
    OBVIOUS
  <2> QED
    BY <2>1
<1>4. a \in Seq(X) /\ Len(a) = p /\ \A k \in 1 .. p : a[k] = s[k]
  BY <1>1, SubSeqProperties
<1>5. b \in Seq(X) /\ Len(b) = n - p /\ \A k \in 1 .. n - p : b[k] = s[p + k]
  <2>1. p + 1 \in Int /\ n \in Int /\ \A k \in p + 1 .. n : s[k] \in X
    OBVIOUS
  <2>2. /\ SubSeq(s, p + 1, n) \in Seq(X)
        /\ Len(SubSeq(s, p + 1, n)) = IF p + 1 <= n THEN n - (p + 1) + 1 ELSE 0
        /\ \A k \in 1 .. n - (p + 1) + 1 : SubSeq(s, p + 1, n)[k] = s[(p + 1) + k - 1]
    BY <2>1, SubSeqProperties
  <2>3. /\ b \in Seq(X)
        /\ Len(b) = IF p + 1 <= n THEN n - (p + 1) + 1 ELSE 0
        /\ \A k \in 1 .. n - (p + 1) + 1 : b[k] = s[(p + 1) + k - 1]
    BY <1>2, <2>2, Zenon
  <2>4. /\ n - (p + 1) + 1 = n - p /\ (IF p + 1 <= n THEN n - (p + 1) + 1 ELSE 0) = n - p
        /\ \A k \in Nat : (p + 1) + k - 1 = p + k
    OBVIOUS
  <2>5. b \in Seq(X) /\ Len(b) = n - p /\ \A k \in 1 .. n - p : b[k] = s[(p + 1) + k - 1]
    BY <2>3, <2>4, Zenon
  <2>6. \A k \in 1 .. n - p : k \in Nat
    OBVIOUS
  <2>7. \A k \in 1 .. n - p : b[k] = s[p + k]
    BY <2>4, <2>5, <2>6, Zenon
  <2> QED
    BY <2>5, <2>7, Zenon
<1>6. PICK u : u = a \o o
  OBVIOUS
<1>7. /\ u \in Seq(X) /\ Len(u) = p + 1
      /\ \A k \in 1 .. p + 1 : u[k] = IF k <= p THEN a[k] ELSE e
  <2>1. /\ u \in Seq(X) /\ Len(u) = Len(a) + Len(o)
        /\ \A k \in 1 .. Len(a) + Len(o) : u[k] = IF k <= Len(a) THEN a[k] ELSE o[k - Len(a)]
    <3>1. a \in Seq(X) /\ o \in Seq(X)
      BY <1>3, <1>4
    <3> QED
      BY <1>6, <3>1, ConcatProperties, Zenon
  <2>2. \A k \in 1 .. p + 1 : ~(k <= p) => k - p = 1
    OBVIOUS
  <2> QED
    BY <1>3, <1>4, <2>1, <2>2
<1>8. PICK t : t = u \o b
  OBVIOUS
<1>9. /\ t \in Seq(X) /\ Len(t) = n + 1
      /\ \A k \in 1 .. n + 1 : t[k] = IF k <= p + 1 THEN u[k] ELSE b[k - (p + 1)]
  <2>1. /\ t \in Seq(X) /\ Len(t) = Len(u) + Len(b)
        /\ \A k \in 1 .. Len(u) + Len(b) : t[k] = IF k <= Len(u) THEN u[k] ELSE b[k - Len(u)]
    <3>1. u \in Seq(X) /\ b \in Seq(X)
      BY <1>5, <1>7
    <3> QED
      BY <1>8, <3>1, ConcatProperties, Zenon
  <2> QED
    BY <1>5, <1>7, <2>1
<1>10. t = InsertAt(s, p + 1, e)
  <2>1. (p + 1) - 1 = p
    OBVIOUS
  <2>2. InsertAt(s, p + 1, e) = SubSeq(s, 1, (p + 1) - 1) \o <<e>> \o SubSeq(s, p + 1, n)
    BY DEF InsertAt
  <2> QED
    BY <1>1, <1>2, <1>3, <1>6, <1>8, <2>1, <2>2
<1>11. PutIn(t, s, e, p, n)
  <2>1. t[p + 1] = e
    BY <1>7, <1>9
  <2>2. \A i \in 1 .. p : t[i] = s[i]
    BY <1>4, <1>7, <1>9
  <2>3. \A i \in p + 1 .. n : t[i + 1] = s[i]
    <3>1. \A i \in p + 1 .. n : /\ i + 1 \in 1 .. n + 1 /\ ~(i + 1 <= p + 1)
                                /\ (i + 1) - (p + 1) \in 1 .. n - p
                                /\ p + ((i + 1) - (p + 1)) = i
      OBVIOUS
    <3> QED
      BY <1>5, <1>9, <3>1
  <2> QED
    BY <1>9, <2>1, <2>2, <2>3 DEF PutIn
<1> QED
  BY <1>9, <1>10, <1>11

-----------------------------------------------------------------------------
\* A draft: seats of the four kinds, with what was typed for their names.
OtherKinds == NeedsName \cup {"open", "engine"}
OtherSeats == [kind : OtherKinds, name : FormNames \cup {NoName}]
Drafted == [creator : BOOLEAN, position : Nat, others : Seq(OtherSeats), hours : Nat]

\* Where the user's own row is, in bounds.
LEMMA PlaceIs ==
    ASSUME NEW d \in Drafted
    PROVE  /\ Len(d.others) \in Nat /\ Place(d) \in 0 .. Len(d.others)
           /\ d.position <= Len(d.others) => Place(d) = d.position
  BY DEF Drafted, Place

\* None of the others is taken for the user's own row.
LEMMA OtherIs ==
    ASSUME NEW d \in Drafted, NEW i \in 1 .. Len(d.others)
    PROVE  d.others[i] \in OtherSeats /\ d.others[i].kind \in OtherKinds /\ d.others[i] # You
<1>1. d.others[i] \in OtherSeats
  BY DEF Drafted
<1>2. \A r \in OtherSeats : r.kind \in OtherKinds
  BY DEF OtherSeats
<1>3. You.kind \notin OtherKinds
  BY DEF You, OtherKinds, NeedsName
<1> QED
  BY <1>1, <1>2, <1>3

\* The table: the others in order, and the user's own row at its place.
LEMMA RowsAre ==
    ASSUME NEW d \in Drafted, NEW n \in Nat, n = Len(d.others)
    PROVE  /\ Rows(d) \in Seq(OtherSeats \cup {You})
           /\ d.creator => PutIn(Rows(d), d.others, You, Place(d), n)
           /\ ~d.creator => Rows(d) = d.others
<1>1. PICK p \in 0 .. n : p = Place(d)
  BY PlaceIs
<1>2. d.others \in Seq(OtherSeats \cup {You})
  <2>1. d.others \in Seq(OtherSeats)
    BY DEF Drafted
  <2> QED
    BY <2>1
<1>3. /\ InsertAt(d.others, p + 1, You) \in Seq(OtherSeats \cup {You})
      /\ PutIn(InsertAt(d.others, p + 1, You), d.others, You, p, n)
  BY <1>2, InsertIs
<1>4. CASE d.creator
  BY <1>1, <1>3, <1>4, Zenon DEF Rows
<1>5. CASE ~d.creator
  BY <1>2, <1>5, Zenon DEF Rows
<1> QED
  BY <1>4, <1>5

\* The steps of build_seats.
Built(g, d, n) ==
    g = [i \in 0 .. n |-> IF i = 0 THEN CreatorAfter(d, 0)
                          ELSE g[i - 1] \o <<SeatRequest(d, i)>> \o CreatorAfter(d, i)]

\* The recursion of build_seats has a solution.
LEMMA BuiltExists ==
    ASSUME NEW d, NEW m \in Nat
    PROVE  \E g : Built(g, d, m)
<1> DEFINE next(s, i) == s \o <<SeatRequest(d, i)>> \o CreatorAfter(d, i)
           missing == {n \in Nat : ~ \E g : Built(g, d, n)}
<1>1. \A n : \A g : Built(g, d, n)
                      <=> g = [k \in 0 .. n |-> IF k = 0 THEN CreatorAfter(d, 0)
                                                ELSE next(g[k - 1], k)]
  BY DEF Built
<1>2. 0 \notin missing
  <2>1. PICK g : g = [k \in 0 .. 0 |-> CreatorAfter(d, 0)]
    OBVIOUS
  <2>2. \A k \in 0 .. 0 : k = 0
    OBVIOUS
  <2>3. g = [k \in 0 .. 0 |-> IF k = 0 THEN CreatorAfter(d, 0) ELSE next(g[k - 1], k)]
    <3> HIDE DEF next
    <3> QED
      BY <2>1, <2>2
  <2> QED
    BY <1>1, <2>3
<1>3. ASSUME NEW n \in Nat, n \notin missing PROVE n + 1 \notin missing
  <2>1. PICK g : Built(g, d, n)
    BY <1>3
  <2> HIDE DEF next
  <2>2. PICK h : h = [k \in 0 .. n + 1 |-> IF k = 0 THEN CreatorAfter(d, 0)
                                           ELSE next(g[k - 1], k)]
    OBVIOUS
  <2>3. \A k \in 0 .. n : g[k] = IF k = 0 THEN CreatorAfter(d, 0) ELSE next(g[k - 1], k)
    BY <1>1, <2>1
  <2>4. \A k \in 0 .. n : g[k] = h[k]
    BY <2>2, <2>3
  <2>5. \A k \in 0 .. n + 1 : k # 0 => g[k - 1] = h[k - 1]
    BY <2>4
  <2>6. h = [k \in 0 .. n + 1 |-> IF k = 0 THEN CreatorAfter(d, 0) ELSE next(h[k - 1], k)]
    BY <2>2, <2>5
  <2>7. Built(h, d, n + 1)
    BY <1>1, <2>6
  <2> QED
    BY <2>7
<1>4. missing = {}
  <2>1. missing \subseteq Nat
    OBVIOUS
  <2> HIDE DEF missing
  <2> QED
    BY <1>2, <1>3, <2>1, FromZeroOn
<1> QED
  BY <1>4

SeatRequests == {SeatRequest(d, i) : d \in Drafted, i \in Nat} \cup {CreatorRequest}

\* The seats of the first i others, and the creator's if it is among them.
SeatsUpTo(s, d, p, i) ==
    /\ s \in Seq(SeatRequests)
    /\ IF d.creator /\ p <= i
       THEN PutIn(s, [k \in 1 .. i |-> SeatRequest(d, k)], CreatorRequest, p, i)
       ELSE Len(s) = i /\ \A k \in 1 .. i : s[k] = SeatRequest(d, k)

\* Another of the others is put in, and the creator after it if that is its place.
LEMMA OneMore ==
    ASSUME NEW d \in Drafted, NEW p \in Nat, NEW i \in Nat, NEW s, SeatsUpTo(s, d, p, i),
           p = Place(d)
    PROVE  SeatsUpTo(s \o <<SeatRequest(d, i + 1)>> \o CreatorAfter(d, i + 1), d, p, i + 1)
<1>1. PICK e \in SeatRequests : e = SeatRequest(d, i + 1)
  BY DEF SeatRequests
<1>2. PICK t : t = s \o <<e>>
  OBVIOUS
<1>3. s \in Seq(SeatRequests)
  BY DEF SeatsUpTo
<1>4. /\ t \in Seq(SeatRequests) /\ Len(t) = Len(s) + 1 /\ t[Len(s) + 1] = e
      /\ \A k \in 1 .. Len(s) : t[k] = s[k]
  <2>1. t = Append(s, e)
    BY <1>2, <1>3
  <2> QED
    BY <1>3, <2>1
<1>5. PICK c \in SeatRequests : c = CreatorRequest
  BY DEF SeatRequests
<1>6. CASE d.creator /\ p <= i
  <2>1. PutIn(s, [k \in 1 .. i |-> SeatRequest(d, k)], CreatorRequest, p, i)
    BY <1>6 DEF SeatsUpTo
  <2>2. /\ Len(s) = i + 1 /\ s[p + 1] = c
        /\ \A k \in 1 .. p : s[k] = SeatRequest(d, k)
        /\ \A k \in p + 1 .. i : s[k + 1] = SeatRequest(d, k)
    <3>1. PICK f : f = [k \in 1 .. i |-> SeatRequest(d, k)]
      OBVIOUS
    <3>2. PutIn(s, f, c, p, i)
      BY <1>5, <2>1, <3>1
    <3>3. (\A k \in 1 .. p : k \in 1 .. i) /\ (\A k \in p + 1 .. i : k \in 1 .. i)
      BY <1>6
    <3>4. /\ \A k \in 1 .. p : f[k] = SeatRequest(d, k)
          /\ \A k \in p + 1 .. i : f[k] = SeatRequest(d, k)
      BY <3>1, <3>3
    <3> QED
      BY <3>2, <3>4 DEF PutIn
  <2>3. CreatorAfter(d, i + 1) = << >>
    <3>1. i + 1 # p
      BY <1>6
    <3> QED
      BY <3>1 DEF CreatorAfter
  <2>4. t \o << >> = t
    BY <1>4
  <2>5. /\ Len(t) = (i + 1) + 1 /\ t[p + 1] = c
        /\ \A k \in 1 .. p : t[k] = SeatRequest(d, k)
        /\ \A k \in p + 1 .. i + 1 : t[k + 1] = SeatRequest(d, k)
    <3>1. p + 1 \in 1 .. i + 1
      BY <1>6
    <3>2. \A k \in 1 .. p : k \in 1 .. i + 1
      BY <1>6
    <3>3. \A k \in p + 1 .. i + 1 : k = i + 1 \/ (k \in p + 1 .. i /\ k + 1 \in 1 .. i + 1)
      BY <1>6
    <3> QED
      BY <1>1, <1>4, <2>2, <3>1, <3>2, <3>3
  <2>6. PutIn(t, [k \in 1 .. i + 1 |-> SeatRequest(d, k)], CreatorRequest, p, i + 1)
    <3>1. PICK f : f = [k \in 1 .. i + 1 |-> SeatRequest(d, k)]
      OBVIOUS
    <3>2. \A k \in 1 .. p : f[k] = SeatRequest(d, k)
      BY <1>6, <3>1
    <3>3. \A k \in p + 1 .. i + 1 : f[k] = SeatRequest(d, k)
      BY <1>6, <3>1
    <3> QED
      BY <1>5, <2>5, <3>1, <3>2, <3>3 DEF PutIn
  <2>7. p <= i + 1
    BY <1>6
  <2> QED
    BY <1>1, <1>2, <1>4, <1>6, <2>3, <2>4, <2>6, <2>7, Zenon DEF SeatsUpTo
<1>7. CASE ~(d.creator /\ p <= i)
  <2>1. Len(s) = i /\ \A k \in 1 .. i : s[k] = SeatRequest(d, k)
    BY <1>7, Zenon DEF SeatsUpTo
  <2>2. Len(t) = i + 1 /\ \A k \in 1 .. i + 1 : t[k] = SeatRequest(d, k)
    <3>1. \A k \in 1 .. i + 1 : k = i + 1 \/ k \in 1 .. i
      OBVIOUS
    <3> QED
      BY <1>1, <1>4, <2>1, <3>1
  <2>3. CASE d.creator /\ p = i + 1
    <3>1. CreatorAfter(d, i + 1) = <<c>>
      BY <1>5, <2>3, Zenon DEF CreatorAfter
    <3>2. PICK u : u = t \o <<c>>
      OBVIOUS
    <3>3. u = Append(t, c)
      BY <1>4, <3>2
    <3>4. /\ u \in Seq(SeatRequests) /\ Len(u) = (i + 1) + 1 /\ u[(i + 1) + 1] = c
          /\ \A k \in 1 .. i + 1 : u[k] = t[k]
      BY <1>4, <2>2, <3>3
    <3>5. PutIn(u, [k \in 1 .. i + 1 |-> SeatRequest(d, k)], CreatorRequest, p, i + 1)
      <4>1. PICK f : f = [k \in 1 .. i + 1 |-> SeatRequest(d, k)]
        OBVIOUS
      <4>2. \A k \in 1 .. p : u[k] = f[k]
        BY <2>2, <2>3, <3>4, <4>1
      <4>3. \A k \in p + 1 .. i + 1 : FALSE
        BY <2>3
      <4> QED
        BY <1>5, <2>3, <3>4, <4>1, <4>2, <4>3 DEF PutIn
    <3>6. p <= i + 1
      BY <2>3
    <3> QED
      BY <1>1, <1>2, <2>3, <3>1, <3>2, <3>4, <3>5, <3>6, Zenon DEF SeatsUpTo
  <2>4. CASE ~(d.creator /\ p = i + 1)
    <3>1. CreatorAfter(d, i + 1) = << >>
      BY <2>4, Zenon DEF CreatorAfter
    <3>2. t \o << >> = t
      BY <1>4
    <3>3. ~(d.creator /\ p <= i + 1)
      <4>1. p <= i + 1 => p <= i \/ p = i + 1
        OBVIOUS
      <4> QED
        BY <1>7, <2>4, <4>1
    <3> QED
      BY <1>1, <1>2, <1>4, <2>2, <3>1, <3>2, <3>3, Zenon DEF SeatsUpTo
  <2> QED
    BY <2>3, <2>4
<1> QED
  BY <1>6, <1>7

\* The request has the others in order, and the creator at its place.
LEMMA SeatsAre ==
    ASSUME NEW d \in Drafted, NEW n \in Nat, n = Len(d.others)
    PROVE  SeatsUpTo(BuildSeats(d), d, Place(d), n)
<1>1. PICK g : g = CHOOSE f : Built(f, d, n)
  OBVIOUS
<1>2. Built(g, d, n)
  BY <1>1, BuiltExists
<1>3. BuildSeats(d) = g[n]
  BY <1>1, Zenon DEF BuildSeats, Built
<1>4. PICK p \in Nat : p = Place(d)
  BY PlaceIs
<1> DEFINE wrong == {i \in Nat : i <= n /\ ~SeatsUpTo(g[i], d, p, i)}
<1>5. 0 \notin wrong
  <2>1. g[0] = CreatorAfter(d, 0)
    BY <1>2 DEF Built
  <2>2. CASE d.creator /\ p = 0
    <3>1. g[0] = <<CreatorRequest>>
      BY <1>4, <2>1, <2>2 DEF CreatorAfter
    <3>2. PICK u \in Seq(SeatRequests) : u = <<CreatorRequest>> /\ Len(u) = 1 /\ u[1] = CreatorRequest
      <4>1. <<CreatorRequest>> \in Seq(SeatRequests)
        BY DEF SeatRequests
      <4> QED
        BY <4>1
    <3>3. PutIn(u, [k \in 1 .. 0 |-> SeatRequest(d, k)], CreatorRequest, 0, 0)
      <4>1. PICK f : f = [k \in 1 .. 0 |-> SeatRequest(d, k)]
        OBVIOUS
      <4>2. \A k \in 1 .. 0 : FALSE
        OBVIOUS
      <4>3. \A k \in 0 + 1 .. 0 : FALSE
        OBVIOUS
      <4>4. Len(u) = 0 + 1 /\ u[0 + 1] = CreatorRequest
        BY <3>2
      <4> QED
        BY <4>1, <4>2, <4>3, <4>4, Zenon DEF PutIn
    <3>4. p <= 0
      BY <2>2
    <3> QED
      BY <2>2, <3>1, <3>2, <3>3, <3>4, Zenon DEF SeatsUpTo
  <2>3. CASE ~(d.creator /\ p = 0)
    <3>1. g[0] = << >>
      BY <1>4, <2>1, <2>3 DEF CreatorAfter
    <3>2. ~(d.creator /\ p <= 0)
      BY <2>3
    <3>3. /\ << >> \in Seq(SeatRequests) /\ Len(<< >>) = 0
          /\ \A k \in 1 .. 0 : << >>[k] = SeatRequest(d, k)
      OBVIOUS
    <3> QED
      BY <3>1, <3>2, <3>3, Zenon DEF SeatsUpTo
  <2> QED
    BY <2>2, <2>3
<1>6. ASSUME NEW i \in Nat, i \notin wrong PROVE i + 1 \notin wrong
  <2>1. CASE i + 1 <= n
    <3>1. SeatsUpTo(g[i], d, p, i)
      BY <1>6, <2>1
    <3>2. g[i + 1] = g[i] \o <<SeatRequest(d, i + 1)>> \o CreatorAfter(d, i + 1)
      <4>1. i + 1 \in 0 .. n /\ i + 1 # 0 /\ (i + 1) - 1 = i
        BY <2>1
      <4>2. \A k \in 0 .. n : k # 0 =>
               g[k] = g[k - 1] \o <<SeatRequest(d, k)>> \o CreatorAfter(d, k)
        BY <1>2 DEF Built
      <4> QED
        BY <4>1, <4>2
    <3>3. SeatsUpTo(g[i + 1], d, p, i + 1)
      BY <1>4, <3>1, <3>2, OneMore
    <3> QED
      BY <3>3
  <2> QED
    BY <2>1
<1>7. wrong = {}
  <2>1. wrong \subseteq Nat
    OBVIOUS
  <2> HIDE DEF wrong
  <2> QED
    BY <1>5, <1>6, <2>1, FromZeroOn
<1> QED
  BY <1>3, <1>4, <1>7

\* What is taken out and put back in where it was.
LEMMA Reinserted ==
    ASSUME NEW X, NEW t \in Seq(X), NEW n \in Nat, Len(t) = n + 1, NEW p \in 0 .. n
    PROVE  InsertAt(RemoveAt(t, p + 1), p + 1, t[p + 1]) = t
<1>1. PICK e \in X : e = t[p + 1]
  OBVIOUS
<1>2. PICK s \in Seq(X) : s = RemoveAt(t, p + 1) /\ Len(s) = n
                          /\ \A k \in 1 .. n : s[k] = t[Without(p, k)]
  <2>1. p + 1 \in DOMAIN t /\ Len(t) - 1 = n /\ p \in Nat
    OBVIOUS
  <2>2. /\ RemoveAt(t, p + 1) \in Seq(X) /\ Len(RemoveAt(t, p + 1)) = n
        /\ \A k \in 1 .. n : RemoveAt(t, p + 1)[k] = t[Without(p, k)]
    BY <2>1, Remaining
  <2> QED
    BY <2>2
<1>3. PICK u \in Seq(X) : u = InsertAt(s, p + 1, e) /\ PutIn(u, s, e, p, n)
  BY <1>2, InsertIs
<1>4. Len(u) = n + 1
  BY <1>3 DEF PutIn
<1>5. ASSUME NEW k \in 1 .. n + 1 PROVE u[k] = t[k]
  <2>1. CASE k = p + 1
    BY <1>1, <1>3, <2>1 DEF PutIn
  <2>2. CASE k <= p
    <3>1. k \in 1 .. p /\ k \in 1 .. n
      BY <2>2
    <3> QED
      BY <1>2, <1>3, <2>2, <3>1 DEF PutIn, Without
  <2>3. CASE k > p + 1
    <3>1. PICK j \in p + 1 .. n : k = j + 1 /\ ~(j <= p) /\ j \in 1 .. n
      <4>1. k - 1 \in p + 1 .. n /\ k = (k - 1) + 1 /\ ~(k - 1 <= p) /\ k - 1 \in 1 .. n
        BY <2>3
      <4> QED
        BY <4>1
    <3> QED
      BY <1>2, <1>3, <3>1 DEF PutIn, Without
  <2> QED
    BY <2>1, <2>2, <2>3
<1>6. u = t
  BY <1>3, <1>4, <1>5
<1> QED
  BY <1>1, <1>2, <1>3, <1>6

\* Two neighbours change places.
LEMMA ExchangedIs ==
    ASSUME NEW X, NEW t \in Seq(X), NEW m \in Nat, m = Len(t), NEW i \in 1 .. m - 1
    PROVE  /\ Exchanged(t, i, i + 1) \in Seq(X) /\ Len(Exchanged(t, i, i + 1)) = m
           /\ \A k \in 1 .. m : Exchanged(t, i, i + 1)[k] =
                 IF k = i THEN t[i + 1] ELSE IF k = i + 1 THEN t[i] ELSE t[k]
<1>1. PICK a \in X, b \in X : a = t[i] /\ b = t[i + 1]
  OBVIOUS
<1>2. PICK u : u = [t EXCEPT ![i] = b, ![i + 1] = a]
  OBVIOUS
<1>3. u \in Seq(X) /\ Len(u) = m
  BY <1>1, <1>2
<1>4. \A k \in 1 .. m : u[k] = IF k = i THEN b ELSE IF k = i + 1 THEN a ELSE t[k]
  BY <1>2
<1> QED
  BY <1>1, <1>2, <1>3, <1>4 DEF Exchanged

\* Moving a row exchanges it with its neighbour, and what is left is a draft.
LEMMA SwappedIs ==
    ASSUME NEW d \in Drafted, NEW m \in Nat, m = Len(Rows(d)), NEW i \in 1 .. m - 1
    PROVE  /\ Swapped(d, i, i + 1) \in Drafted
           /\ Rows(Swapped(d, i, i + 1)) = Exchanged(Rows(d), i, i + 1)
<1> DEFINE X == OtherSeats \cup {You}
<1>1. PICK n \in Nat : n = Len(d.others)
  BY PlaceIs
<1>2. PICK t \in Seq(X) : t = Rows(d)
  BY <1>1, RowsAre
<1>3. PICK e \in Seq(X) : /\ e = Exchanged(t, i, i + 1) /\ Len(e) = m
                          /\ \A k \in 1 .. m : e[k] = IF k = i THEN t[i + 1]
                                                      ELSE IF k = i + 1 THEN t[i] ELSE t[k]
  <2> HIDE DEF X
  <2>1. m = Len(t)
    BY <1>2
  <2> QED
    BY <2>1, ExchangedIs
<1>4. PICK mine : mine = {k \in DOMAIN e : e[k] = You}
  OBVIOUS
<1>5. PICK z : z = Swapped(d, i, i + 1)
  OBVIOUS
<1>6. z = IF mine = {} THEN [d EXCEPT !.position = 0, !.others = e]
          ELSE LET me == CHOOSE k \in mine : TRUE
               IN  [d EXCEPT !.position = me - 1, !.others = RemoveAt(e, me)]
  BY <1>2, <1>3, <1>4, <1>5, Zenon DEF Swapped
<1>7. d.creator \in BOOLEAN /\ d.others \in Seq(OtherSeats)
  BY DEF Drafted
<1>8. \A k \in 1 .. n : d.others[k] # You
  BY <1>1, OtherIs
<1>9. CASE ~d.creator
  <2>1. t = d.others /\ m = n
    BY <1>1, <1>2, <1>9, RowsAre
  <2>2. \A k \in 1 .. m : e[k] \in OtherSeats /\ e[k] # You
    <3>1. i \in 1 .. n /\ i + 1 \in 1 .. n
      BY <2>1
    <3>2. \A k \in 1 .. n : t[k] \in OtherSeats /\ t[k] # You
      BY <1>1, <1>7, <1>8, <2>1
    <3> QED
      BY <1>3, <2>1, <3>1, <3>2
  <2>3. mine = {}
    BY <1>3, <1>4, <2>2
  <2>4. z = [d EXCEPT !.position = 0, !.others = e]
    BY <1>6, <2>3
  <2>5. e \in Seq(OtherSeats)
    BY <1>3, <2>2
  <2>6. z \in Drafted /\ ~z.creator /\ z.others = e
    BY <1>9, <2>4, <2>5 DEF Drafted
  <2>7. Rows(z) = e
    BY <2>6, Zenon DEF Rows
  <2> QED
    BY <1>2, <1>3, <1>5, <2>6, <2>7
<1>10. CASE d.creator
  <2>1. PICK p \in 0 .. n : p = Place(d)
    BY <1>1, PlaceIs
  <2>2. PutIn(t, d.others, You, p, n)
    BY <1>1, <1>2, <1>10, <2>1, RowsAre
  <2>3. m = n + 1 /\ t[p + 1] = You /\ \A k \in 1 .. m : k # p + 1 => t[k] # You
    <3>1. m = n + 1 /\ t[p + 1] = You
      BY <1>2, <2>2 DEF PutIn
    <3>2. ASSUME NEW k \in 1 .. m, k # p + 1 PROVE t[k] # You
      <4>1. CASE k <= p
        <5>1. k \in 1 .. p /\ k \in 1 .. n
          BY <3>1, <4>1
        <5> QED
          BY <1>8, <2>2, <5>1 DEF PutIn
      <4>2. CASE ~(k <= p)
        <5>1. k - 1 \in p + 1 .. n /\ k = (k - 1) + 1 /\ k - 1 \in 1 .. n
          BY <3>1, <3>2, <4>2
        <5> QED
          BY <1>8, <2>2, <5>1 DEF PutIn
      <4> QED
        BY <4>1, <4>2
    <3> QED
      BY <3>1, <3>2
  <2>4. PICK q \in 0 .. n : /\ e[q + 1] = You /\ q + 1 \in 1 .. m
                            /\ \A k \in 1 .. m : k # q + 1 => e[k] # You
    <3>1. PICK q \in 0 .. n : q = IF p + 1 = i THEN i ELSE IF p = i THEN i - 1 ELSE p
      <4>1. (IF p + 1 = i THEN i ELSE IF p = i THEN i - 1 ELSE p) \in 0 .. n
        BY <2>3
      <4> QED
        BY <4>1
    <3>2. q + 1 \in 1 .. m
      BY <2>3
    <3>3. e[q + 1] = You
      BY <1>3, <2>3, <3>1, <3>2
    <3>4. ASSUME NEW k \in 1 .. m, k # q + 1 PROVE e[k] # You
      BY <1>3, <2>3, <3>1, <3>4
    <3> QED
      BY <3>2, <3>3, <3>4
  <2>5. mine = {q + 1}
    <3>1. DOMAIN e = 1 .. m
      BY <1>3
    <3> QED
      BY <1>4, <2>4, <3>1
  <2>6. PICK s : s = RemoveAt(e, q + 1)
    OBVIOUS
  <2>7. z = [d EXCEPT !.position = q, !.others = s]
    <3>1. (CHOOSE k \in mine : TRUE) = q + 1
      BY <2>5
    <3>2. (q + 1) - 1 = q /\ mine # {}
      BY <2>5
    <3> QED
      BY <1>6, <2>6, <3>1, <3>2
  <2>8. s \in Seq(OtherSeats) /\ Len(s) = n
    <3>1. /\ q \in Nat /\ q + 1 \in DOMAIN e /\ Len(e) - 1 = n
      BY <1>3, <2>3, <2>4
    <3>2. /\ s \in Seq(X) /\ Len(s) = n
          /\ \A k \in 1 .. n : s[k] = e[Without(q, k)] /\ Without(q, k) \in DOMAIN e
      <4> HIDE DEF X
      <4> QED
        BY <2>6, <3>1, Remaining
    <3>3. ASSUME NEW k \in 1 .. n PROVE s[k] \in OtherSeats
      <4>1. Without(q, k) \in 1 .. m /\ Without(q, k) # q + 1
        BY <2>3 DEF Without
      <4>2. s[k] \in X /\ s[k] # You
        BY <2>4, <3>2, <4>1
      <4> QED
        BY <4>2
    <3> QED
      BY <3>2, <3>3
  <2>9. z \in Drafted /\ z.creator /\ z.others = s /\ z.position = q
    <3>1. q \in Nat /\ s \in Seq(OtherSeats)
      BY <2>8
    <3> QED
      BY <1>10, <2>7, <3>1 DEF Drafted
  <2>10. Place(z) = q
    BY <2>8, <2>9, PlaceIs
  <2>11. Rows(z) = InsertAt(s, q + 1, You)
    BY <2>9, <2>10, Zenon DEF Rows
  <2>12. InsertAt(s, q + 1, e[q + 1]) = e
    <3> HIDE DEF X
    <3> QED
      BY <1>3, <2>3, <2>6, Reinserted
  <2>13. Rows(z) = e
    BY <2>4, <2>11, <2>12
  <2> QED
    BY <1>2, <1>3, <1>5, <2>9, <2>13
<1> QED
  BY <1>7, <1>9, <1>10

\* The presets are drafts, and an edit makes a draft of a draft.
LEMMA PresetsAreDrafts == Presets \subseteq Drafted
<1>1. \A kind \in OtherKinds : Other(kind, NoName) \in OtherSeats
  BY DEF Other, OtherSeats
<1>2. "engine" \in OtherKinds /\ "named" \in OtherKinds /\ "open" \in OtherKinds
  BY DEF OtherKinds, NeedsName
<1>3. DefaultHours \in Nat /\ 0 \in Nat
  BY DEF DefaultHours
<1>4. ASSUME NEW kind \in {"engine", "named", "open"}
      PROVE  [creator |-> TRUE, position |-> 0, others |-> <<Other(kind, NoName)>>,
              hours |-> DefaultHours] \in Drafted
  <2>1. PICK o \in OtherSeats : o = Other(kind, NoName)
    BY <1>1, <1>2
  <2>2. <<o>> \in Seq(OtherSeats)
    OBVIOUS
  <2> QED
    BY <1>3, <2>1, <2>2 DEF Drafted
<1>5. [creator |-> FALSE, position |-> 0,
       others |-> <<Other("engine", NoName), Other("engine", NoName)>>,
       hours |-> DefaultHours] \in Drafted
  <2>1. PICK o \in OtherSeats : o = Other("engine", NoName)
    BY <1>1, <1>2
  <2>2. <<o, o>> \in Seq(OtherSeats)
    OBVIOUS
  <2> QED
    BY <1>3, <2>1, <2>2 DEF Drafted
<1> QED
  BY <1>4, <1>5 DEF Presets

\* The edits make a draft of a draft: those of the rows,
LEMMA RowEditsKeep ==
    ASSUME NEW d \in Drafted, NEW e \in RowEdits(d)
    PROVE  e \in Drafted
<1>1. PICK n \in Nat : n = Len(d.others) /\ DOMAIN d.others = 1 .. n
  <2>1. d.others \in Seq(OtherSeats)
    BY DEF Drafted
  <2> QED
    BY <2>1
<1>2. d.others \in Seq(OtherSeats)
  BY DEF Drafted
<1>3. \A s \in Seq(OtherSeats) : [d EXCEPT !.others = s] \in Drafted
  BY DEF Drafted
<1>4. CASE e = [d EXCEPT !.creator = FALSE]
  BY <1>4 DEF Drafted
<1>5. CASE e \in {[d EXCEPT !.others = RemoveAt(@, i)] : i \in DOMAIN d.others}
  <2>1. PICK i \in 1 .. n : e = [d EXCEPT !.others = RemoveAt(d.others, i)]
    BY <1>1, <1>5
  <2>2. PICK j \in Nat : i = j + 1
    <3>1. i - 1 \in Nat /\ i = (i - 1) + 1
      OBVIOUS
    <3> QED
      BY <3>1
  <2>3. RemoveAt(d.others, i) \in Seq(OtherSeats)
    BY <1>1, <1>2, <2>2, Remaining
  <2> QED
    BY <1>3, <2>1, <2>3
<1>6. CASE e \in {[d EXCEPT !.others[i].name = name] :
                    i \in {j \in DOMAIN d.others : d.others[j].kind \in NeedsName},
                    name \in FormNames}
  <2>1. PICK i \in 1 .. n, name \in FormNames : e = [d EXCEPT !.others[i].name = name]
    BY <1>1, <1>6
  <2>2. PICK o \in OtherSeats : o = [d.others[i] EXCEPT !.name = name]
    <3>1. PICK r \in OtherSeats : r = d.others[i]
      BY <1>1, OtherIs
    <3>2. [r EXCEPT !.name = name] \in OtherSeats
      BY DEF OtherSeats
    <3> QED
      BY <3>1, <3>2
  <2>3. PICK s : s = [d.others EXCEPT ![i] = o]
    OBVIOUS
  <2>4. s \in Seq(OtherSeats)
    BY <1>1, <1>2, <2>3
  <2>5. e = [d EXCEPT !.others = s]
    BY <2>1, <2>2, <2>3
  <2> QED
    BY <1>3, <2>4, <2>5
<1>7. CASE e \in {Swapped(d, i, i + 1) : i \in {j \in DOMAIN Rows(d) : j < Len(Rows(d))}}
  <2>1. PICK m \in Nat : m = Len(Rows(d)) /\ DOMAIN Rows(d) = 1 .. m
    <3>1. Rows(d) \in Seq(OtherSeats \cup {You})
      BY <1>1, RowsAre
    <3> QED
      BY <3>1
  <2>2. PICK i \in 1 .. m : i < m /\ e = Swapped(d, i, i + 1)
    BY <1>7, <2>1
  <2>3. i \in 1 .. m - 1
    BY <2>2
  <2> QED
    BY <2>1, <2>2, <2>3, SwappedIs
<1> QED
  BY <1>4, <1>5, <1>6, <1>7 DEF RowEdits

\* and those below the table.
LEMMA FormEditsKeep ==
    ASSUME NEW d \in Drafted, NEW e \in FormEdits(d)
    PROVE  e \in Drafted
<1>1. CASE e = [d EXCEPT !.creator = TRUE]
  BY <1>1 DEF Drafted
<1>2. CASE e \in {[d EXCEPT !.others = Append(@, Other(kind, NoName))] :
                    kind \in {"named", "open", "email", "engine"}}
  <2>1. PICK kind \in {"named", "open", "email", "engine"} :
           e = [d EXCEPT !.others = Append(d.others, Other(kind, NoName))]
    BY <1>2
  <2>2. PICK o \in OtherSeats : o = Other(kind, NoName)
    <3>1. kind \in OtherKinds
      BY DEF OtherKinds, NeedsName
    <3>2. Other(kind, NoName) \in OtherSeats
      BY <3>1 DEF Other, OtherSeats
    <3> QED
      BY <3>2
  <2>3. PICK s \in Seq(OtherSeats) : s = Append(d.others, o)
    <3>1. d.others \in Seq(OtherSeats)
      BY DEF Drafted
    <3>2. Append(d.others, o) \in Seq(OtherSeats)
      BY <3>1
    <3> QED
      BY <3>2
  <2> QED
    BY <2>1, <2>2, <2>3 DEF Drafted
<1>3. CASE e \in {[d EXCEPT !.hours = h] : h \in FormHours}
  BY <1>3, FormAssumption DEF Drafted
<1> QED
  BY <1>1, <1>2, <1>3 DEF FormEdits

-----------------------------------------------------------------------------
\* What the edits of a set of drafts make, and the steps of Drafts.
Edited(S) == S \cup UNION {RowEdits(d) \cup FormEdits(d) : d \in S}
DraftSteps(g, m) == g = [n \in 0 .. m |-> IF n = 0 THEN Presets ELSE Edited(g[n - 1])]

\* So do all of them together.
LEMMA EditedAreDrafts ==
    ASSUME NEW S, S \subseteq Drafted
    PROVE  Edited(S) \subseteq Drafted
<1>1. ASSUME NEW d \in S PROVE RowEdits(d) \cup FormEdits(d) \subseteq Drafted
  <2>1. d \in Drafted
    OBVIOUS
  <2> QED
    BY <2>1, RowEditsKeep, FormEditsKeep
<1> QED
  BY <1>1 DEF Edited

\* The recursion of Drafts has a solution,
LEMMA DraftStepsExist ==
    ASSUME NEW m \in Nat
    PROVE  \E g : DraftSteps(g, m)
<1> DEFINE missing == {n \in Nat : ~ \E g : DraftSteps(g, n)}
<1>1. \A n : \A g : DraftSteps(g, n)
                      <=> g = [k \in 0 .. n |-> IF k = 0 THEN Presets ELSE Edited(g[k - 1])]
  BY DEF DraftSteps
<1>2. 0 \notin missing
  <2>1. PICK g : g = [k \in 0 .. 0 |-> Presets]
    OBVIOUS
  <2>2. \A k \in 0 .. 0 : k = 0
    OBVIOUS
  <2>3. g = [k \in 0 .. 0 |-> IF k = 0 THEN Presets ELSE Edited(g[k - 1])]
    BY <2>1, <2>2
  <2> QED
    BY <1>1, <2>3
<1>3. ASSUME NEW n \in Nat, n \notin missing PROVE n + 1 \notin missing
  <2>1. PICK g : DraftSteps(g, n)
    BY <1>3
  <2>2. PICK h : h = [k \in 0 .. n + 1 |-> IF k = 0 THEN Presets ELSE Edited(g[k - 1])]
    OBVIOUS
  <2>3. \A k \in 0 .. n : g[k] = IF k = 0 THEN Presets ELSE Edited(g[k - 1])
    BY <1>1, <2>1
  <2>4. \A k \in 0 .. n : g[k] = h[k]
    BY <2>2, <2>3
  <2>5. \A k \in 0 .. n + 1 : k # 0 => g[k - 1] = h[k - 1]
    BY <2>4
  <2>6. h = [k \in 0 .. n + 1 |-> IF k = 0 THEN Presets ELSE Edited(h[k - 1])]
    BY <2>2, <2>5
  <2>7. DraftSteps(h, n + 1)
    BY <1>1, <2>6
  <2> QED
    BY <2>7
<1>4. missing = {}
  <2>1. missing \subseteq Nat
    OBVIOUS
  <2> HIDE DEF missing
  <2> QED
    BY <1>2, <1>3, <2>1, FromZeroOn
<1> QED
  BY <1>4

\* and all it comes to are drafts.
LEMMA DraftsAre == \A n \in 0 .. MaxEdits : Drafts[n] \subseteq Drafted
<1>1. PICK g : g = CHOOSE f : DraftSteps(f, MaxEdits)
  OBVIOUS
<1>2. DraftSteps(g, MaxEdits)
  BY <1>1, DraftStepsExist, FormAssumption
<1>3. Drafts = g
  BY <1>1, Zenon DEF Drafts, DraftSteps, Edited
<1>4. \A n \in 0 .. MaxEdits : g[n] = IF n = 0 THEN Presets ELSE Edited(g[n - 1])
  BY <1>2 DEF DraftSteps
<1> DEFINE wrong == {n \in Nat : n <= MaxEdits /\ ~(g[n] \subseteq Drafted)}
<1>5. 0 \notin wrong
  BY <1>4, PresetsAreDrafts, FormAssumption
<1>6. ASSUME NEW n \in Nat, n \notin wrong PROVE n + 1 \notin wrong
  <2>1. CASE n + 1 <= MaxEdits
    <3>1. g[n] \subseteq Drafted
      BY <1>6, <2>1, FormAssumption
    <3>2. g[n + 1] = Edited(g[n])
      <4>1. n + 1 \in 0 .. MaxEdits /\ n + 1 # 0 /\ (n + 1) - 1 = n
        BY <2>1, FormAssumption
      <4> QED
        BY <1>4, <4>1
    <3> QED
      BY <3>1, <3>2, EditedAreDrafts
  <2> QED
    BY <2>1
<1>7. wrong = {}
  <2>1. wrong \subseteq Nat
    OBVIOUS
  <2> HIDE DEF wrong
  <2> QED
    BY <1>5, <1>6, <2>1, FromZeroOn
<1> QED
  BY <1>3, <1>7, FormAssumption

\* A row that is the user's, or one of the others.
YourRow(s, t, i) == s[i] = CreatorRequest /\ t[i] = You
OtherRow(s, t, d, i) ==
    \E k \in 1 .. Len(d.others) : s[i] = SeatRequest(d, k) /\ t[i] = d.others[k]
Matches(s, t, d, l, q) ==
    /\ \A i \in 1 .. l : IF i = q THEN YourRow(s, t, i) ELSE OtherRow(s, t, d, i)
    /\ \A k \in 1 .. Len(d.others) :
          \E i \in 1 .. l : i # q /\ s[i] = SeatRequest(d, k) /\ t[i] = d.others[k]

\* Row by row the request is the table.
LEMMA RowByRow ==
    ASSUME NEW d \in Drafted
    PROVE  \E l \in Nat : /\ Len(BuildSeats(d)) = l /\ DOMAIN BuildSeats(d) = 1 .. l
                          /\ Len(Rows(d)) = l /\ DOMAIN Rows(d) = 1 .. l
                          /\ \E q \in Nat : Matches(BuildSeats(d), Rows(d), d, l, q)
<1>1. PICK n \in Nat : n = Len(d.others)
  BY PlaceIs
<1>2. PICK p \in 0 .. n : p = Place(d)
  BY <1>1, PlaceIs
<1>3. PICK t \in Seq(OtherSeats \cup {You}) : t = Rows(d)
  BY <1>1, RowsAre
<1>4. PICK s : s = BuildSeats(d)
  OBVIOUS
<1>5. SeatsUpTo(s, d, p, n)
  BY <1>1, <1>2, <1>4, SeatsAre
<1>6. s \in Seq(SeatRequests)
  BY <1>5 DEF SeatsUpTo
<1>7. CASE d.creator
  <2>1. PICK f : f = [k \in 1 .. n |-> SeatRequest(d, k)]
    OBVIOUS
  <2>2. PutIn(s, f, CreatorRequest, p, n)
    <3>1. p <= n
      BY <1>2
    <3> QED
      BY <1>5, <1>7, <2>1, <3>1, Zenon DEF SeatsUpTo
  <2>3. PutIn(t, d.others, You, p, n)
    BY <1>1, <1>2, <1>3, <1>7, RowsAre
  <2>4. Len(s) = n + 1 /\ Len(t) = n + 1
    BY <2>2, <2>3 DEF PutIn
  <2>5. YourRow(s, t, p + 1)
    BY <2>2, <2>3 DEF PutIn, YourRow
  <2>6. ASSUME NEW k \in 1 .. n
        PROVE  LET i == IF k <= p THEN k ELSE k + 1
               IN  s[i] = SeatRequest(d, k) /\ t[i] = d.others[k]
    <3>1. f[k] = SeatRequest(d, k)
      BY <2>1
    <3>2. CASE k <= p
      <4>1. k \in 1 .. p
        BY <3>2
      <4> QED
        BY <2>2, <2>3, <3>1, <3>2, <4>1 DEF PutIn
    <3>3. CASE ~(k <= p)
      <4>1. k \in p + 1 .. n
        BY <3>3
      <4> QED
        BY <2>2, <2>3, <3>1, <3>3, <4>1 DEF PutIn
    <3> QED
      BY <3>2, <3>3
  <2>7. ASSUME NEW i \in 1 .. n + 1, i # p + 1 PROVE OtherRow(s, t, d, i)
    <3>1. PICK k \in 1 .. n : i = IF k <= p THEN k ELSE k + 1
      <4>1. CASE i <= p
        <5>1. i \in 1 .. n /\ i = IF i <= p THEN i ELSE i + 1
          BY <4>1
        <5> QED
          BY <5>1
      <4>2. CASE ~(i <= p)
        <5>1. i - 1 \in 1 .. n /\ i = IF i - 1 <= p THEN i - 1 ELSE (i - 1) + 1
          BY <2>7, <4>2
        <5> QED
          BY <5>1
      <4> QED
        BY <4>1, <4>2
    <3> QED
      BY <1>1, <2>6, <3>1 DEF OtherRow
  <2>8. ASSUME NEW k \in 1 .. n
        PROVE  \E i \in 1 .. n + 1 :
                  i # p + 1 /\ s[i] = SeatRequest(d, k) /\ t[i] = d.others[k]
    <3>1. PICK i \in 1 .. n + 1 : i # p + 1 /\ i = IF k <= p THEN k ELSE k + 1
      <4>1. /\ (IF k <= p THEN k ELSE k + 1) \in 1 .. n + 1
            /\ (IF k <= p THEN k ELSE k + 1) # p + 1
        OBVIOUS
      <4> QED
        BY <4>1
    <3> QED
      BY <2>6, <3>1
  <2>9. Matches(s, t, d, n + 1, p + 1)
    BY <1>1, <2>5, <2>7, <2>8 DEF Matches
  <2>10. DOMAIN s = 1 .. n + 1 /\ DOMAIN t = 1 .. n + 1 /\ n + 1 \in Nat /\ p + 1 \in Nat
    BY <1>3, <1>6, <2>4
  <2> QED
    BY <1>3, <1>4, <2>4, <2>9, <2>10
<1>8. CASE ~d.creator
  <2>1. t = d.others
    BY <1>1, <1>3, <1>8, RowsAre
  <2>2. Len(s) = n /\ \A k \in 1 .. n : s[k] = SeatRequest(d, k)
    BY <1>5, <1>8, Zenon DEF SeatsUpTo
  <2>3. \A i \in 1 .. n : i # 0
    OBVIOUS
  <2>4. Matches(s, t, d, n, 0)
    BY <1>1, <2>1, <2>2, <2>3 DEF Matches, OtherRow
  <2>5. Len(t) = n /\ DOMAIN s = 1 .. n /\ DOMAIN t = 1 .. n
    BY <1>1, <1>3, <1>6, <2>1, <2>2
  <2> QED
    BY <1>3, <1>4, <2>2, <2>4, <2>5
<1> QED
  BY <1>7, <1>8

\* What is asked for one of the others.
LEMMA SeatRequestIs ==
    ASSUME NEW d \in Drafted, NEW k \in 1 .. Len(d.others)
    PROVE  LET r == d.others[k]
               s == SeatRequest(d, k)
           IN  /\ r.kind \in OtherKinds /\ s.name = r.name
               /\ s.kind = (IF r.kind = "engine" THEN "engine" ELSE "human")
               /\ s.claim = (IF r.kind = "engine" THEN "none" ELSE r.kind)
               /\ s.claim # "creator"
<1>1. d.others[k].kind \in OtherKinds
  BY OtherIs
<1>2. d.others[k].kind # "creator"
  BY <1>1 DEF OtherKinds, NeedsName
<1> QED
  BY <1>1, <1>2 DEF SeatRequest

\* Every row of the table is a seat of the request, in the same order.
LEMMA RequestIsTable ==
    ASSUME NEW d \in Drafted
    PROVE  RequestFollowsTable(d)
<1>1. PICK l \in Nat : /\ Len(BuildSeats(d)) = l /\ Len(Rows(d)) = l /\ DOMAIN Rows(d) = 1 .. l
                       /\ \E q \in Nat : Matches(BuildSeats(d), Rows(d), d, l, q)
  BY RowByRow
<1>2. PICK q \in Nat : Matches(BuildSeats(d), Rows(d), d, l, q)
  BY <1>1
<1>3. PICK s, t : s = BuildSeats(d) /\ t = Rows(d)
  OBVIOUS
<1>4. ASSUME NEW i \in 1 .. l
      PROVE  /\ s[i].claim = CASE t[i].kind = "you" -> "creator"
                               [] t[i].kind = "engine" -> "none"
                               [] OTHER -> t[i].kind
             /\ s[i].name = t[i].name
  <2>1. CASE i = q
    <3>1. s[i] = CreatorRequest /\ t[i] = You
      BY <1>2, <1>3, <2>1 DEF Matches, YourRow
    <3> QED
      BY <3>1 DEF CreatorRequest, You
  <2>2. CASE i # q
    <3>1. PICK k \in 1 .. Len(d.others) : s[i] = SeatRequest(d, k) /\ t[i] = d.others[k]
      BY <1>2, <1>3, <2>2 DEF Matches, OtherRow
    <3>2. t[i].kind \in OtherKinds /\ s[i].name = t[i].name
          /\ s[i].claim = IF t[i].kind = "engine" THEN "none" ELSE t[i].kind
      BY <3>1, SeatRequestIs
    <3>3. t[i].kind # "you"
      BY <3>2 DEF OtherKinds, NeedsName
    <3> QED
      BY <3>2, <3>3
  <2> QED
    BY <2>1, <2>2
<1> QED
  BY <1>1, <1>3, <1>4 DEF RequestFollowsTable

\* The server takes what the form lets pass.
LEMMA RequestIsTaken ==
    ASSUME NEW d \in Drafted, CanSubmit(d)
    PROVE  ServerTakesIt(d)
<1>1. SUFFICES ASSUME Len(Rows(d)) >= MinimumSeats
               PROVE  Outcome(Submission(d)) =
                         IF Starts(BuildSeats(d)) THEN "started" ELSE "waiting"
  BY DEF ServerTakesIt
<1>2. PICK l \in Nat : /\ Len(BuildSeats(d)) = l /\ DOMAIN BuildSeats(d) = 1 .. l
                       /\ Len(Rows(d)) = l
                       /\ \E q \in Nat : Matches(BuildSeats(d), Rows(d), d, l, q)
  BY RowByRow
<1>3. PICK q \in Nat : Matches(BuildSeats(d), Rows(d), d, l, q)
  BY <1>2
<1>4. PICK s, t : s = BuildSeats(d) /\ t = Rows(d)
  OBVIOUS
<1>5. ASSUME NEW i \in 1 .. l
      PROVE  /\ s[i].kind = "human" => s[i].claim # "none"
             /\ s[i].claim = "creator" => i = q
  <2>1. CASE i = q
    BY <1>3, <1>4, <2>1 DEF Matches, YourRow, CreatorRequest
  <2>2. CASE i # q
    <3>1. PICK k \in 1 .. Len(d.others) : s[i] = SeatRequest(d, k)
      BY <1>3, <1>4, <2>2 DEF Matches, OtherRow
    <3> QED
      BY <3>1, SeatRequestIs DEF OtherKinds, NeedsName
  <2> QED
    BY <2>1, <2>2
<1>6. PICK sub : sub = Submission(d)
  OBVIOUS
<1>7. sub.seats = s /\ sub.seconds = d.hours * 3600 /\ sub.startImmediately = ~NeedsInvitations(d)
  BY <1>4, <1>6 DEF Submission
<1>8. Creates(sub)
  <2>1. PICK mine : mine = {i \in DOMAIN s : s[i].kind = "human" /\ s[i].claim = "creator"}
    OBVIOUS
  <2>2. Cardinality(mine) <= 1
    <3>1. mine \subseteq {q}
      BY <1>2, <1>4, <1>5, <2>1
    <3>2. mine = {} \/ mine = {q}
      BY <3>1
    <3>3. Cardinality({}) = 0 /\ Cardinality({q}) = 1
      BY FS_EmptySet, FS_Singleton
    <3> QED
      BY <3>2, <3>3
  <2>3. Len(s) >= MinimumSeats
    BY <1>1, <1>2, <1>4
  <2>4. \A i \in DOMAIN s : s[i].kind = "human" => s[i].claim # "none"
    BY <1>2, <1>4, <1>5
  <2>5. sub.seconds >= 3600 /\ sub.seconds <= 3456000
    <3>1. d.hours \in 1 .. 960
      BY DEF CanSubmit, HoursAllowed
    <3> QED
      BY <1>7, <3>1
  <2> QED
    BY <1>7, <2>1, <2>2, <2>3, <2>4, <2>5 DEF Creates
<1>9. Starts(s) <=> ~NeedsInvitations(d)
  <2>1. d.others \in Seq(OtherSeats)
    BY DEF Drafted
  <2>2. DOMAIN d.others = 1 .. Len(d.others)
    BY <2>1
  <2>3. ASSUME NEW k \in 1 .. Len(d.others), d.others[k].kind # "engine"
        PROVE  ~Starts(s)
    <3>1. PICK i \in 1 .. l : s[i] = SeatRequest(d, k)
      BY <1>3, <1>4 DEF Matches
    <3>2. s[i].kind = "human" /\ s[i].claim # "creator"
      BY <2>3, <3>1, SeatRequestIs
    <3> QED
      BY <1>2, <1>4, <3>2 DEF Starts
  <2>4. ASSUME NEW i \in 1 .. l, s[i].kind = "human", s[i].claim # "creator"
        PROVE  NeedsInvitations(d)
    <3>1. i # q
      BY <1>3, <1>4, <2>4 DEF Matches, YourRow, CreatorRequest
    <3>2. PICK k \in 1 .. Len(d.others) : s[i] = SeatRequest(d, k)
      BY <1>3, <1>4, <3>1 DEF Matches, OtherRow
    <3>3. d.others[k].kind # "engine"
      BY <2>4, <3>2, SeatRequestIs
    <3> QED
      BY <2>2, <3>3 DEF NeedsInvitations
  <2> QED
    BY <1>2, <1>4, <2>2, <2>3, <2>4 DEF Starts, NeedsInvitations
<1>10. CASE Starts(s)
  <2>1. sub.startImmediately = TRUE
    <3>1. PICK w \in BOOLEAN : w = ~NeedsInvitations(d)
      OBVIOUS
    <3>2. w = TRUE
      BY <1>9, <1>10, <3>1
    <3>3. sub.startImmediately = w
      BY <1>6, <3>1 DEF Submission
    <3> QED
      BY <3>2, <3>3
  <2>2. Outcome(sub) = "started"
    <3>1. sub.startImmediately /\ Creates(sub) /\ Starts(sub.seats)
      BY <1>7, <1>8, <1>10, <2>1
    <3> QED
      BY <3>1, Zenon DEF Outcome
  <2> QED
    BY <1>4, <1>6, <1>10, <2>2, Zenon
<1>11. CASE ~Starts(s)
  <2>1. sub.startImmediately = FALSE
    <3>1. PICK w \in BOOLEAN : w = ~NeedsInvitations(d)
      OBVIOUS
    <3>2. w = FALSE
      BY <1>9, <1>11, <3>1
    <3>3. sub.startImmediately = w
      BY <1>6, <3>1 DEF Submission
    <3> QED
      BY <3>2, <3>3
  <2>2. Outcome(sub) = "waiting"
    <3>1. ~sub.startImmediately /\ Creates(sub)
      BY <1>8, <2>1
    <3> QED
      BY <3>1, Zenon DEF Outcome
  <2> QED
    BY <1>4, <1>6, <1>11, <2>2, Zenon
<1> QED
  BY <1>10, <1>11

\* SubmittedAsShown: for whatever is typed, whoever the players are, and however
\* many edits the draft has had.
THEOREM DraftsAreShown == Spec => []SubmittedAsShown
<1>1. ASSUME NEW kind \in NeedsName \cup {"open", "engine"}, NEW name \in FormNames
      PROVE  SendReachesTheAsked(kind, name, FormPlayers)
  <2>1. kind \in {"named", "open", "email", "engine"}
    BY DEF NeedsName
  <2> QED
    BY <2>1, AddedSeatsAreOffered
<1>2. ASSUME NEW d \in Drafts[MaxEdits]
      PROVE  MovesAreLocal(d) /\ (CanSubmit(d) => RequestFollowsTable(d) /\ ServerTakesIt(d))
  <2>1. d \in Drafted
    <3>1. MaxEdits \in 0 .. MaxEdits
      BY FormAssumption
    <3> QED
      BY <3>1, DraftsAre
  <2>2. MovesAreLocal(d)
    <3>1. PICK m \in Nat : m = Len(Rows(d))
      BY <2>1, RowByRow
    <3>2. \A i \in 1 .. m - 1 : Rows(Swapped(d, i, i + 1)) = Exchanged(Rows(d), i, i + 1)
      BY <2>1, <3>1, SwappedIs
    <3> QED
      BY <3>1, <3>2 DEF MovesAreLocal
  <2> QED
    BY <2>1, <2>2, RequestIsTable, RequestIsTaken
<1>3. SubmittedAsShown
  BY <1>1, <1>2, Zenon DEF SubmittedAsShown
<1> QED
  BY <1>3, PTL
=============================================================================
