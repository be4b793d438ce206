---------------------------- MODULE Ratings_proofs ----------------------------
(* Theorems about Ratings, for any finite set of games, any table of seats, *)
(* any scores and a history of any length.                                  *)
EXTENDS Ratings, FiniteSetTheorems, SequenceTheorems, WellFoundedInduction, TLAPS

-----------------------------------------------------------------------------
(* Greatest elements and finite sets.                                       *)

LEMMA TheGreatest ==
    ASSUME NEW T, T \subseteq Nat, NEW x \in T, \A y \in T : x >= y
    PROVE  Max(T) = x
<1>1. \A y \in T : (\A z \in T : y >= z) => y = x
  OBVIOUS
<1> QED
  BY <1>1 DEF Max

LEMMA LeastExists ==
    ASSUME NEW T, T \subseteq Nat, T # {}
    PROVE  \E i \in T : \A j \in T : i <= j
<1>1. PICK i \in T : \A j \in T : <<j, i>> \notin OpToRel(<, Nat)
  BY NatLessThanWellFounded, WFMin
<1>2. \A j \in T : ~(j < i)
  BY <1>1 DEF OpToRel
<1> QED
  BY <1>2

LEMMA GreatestIs ==
    ASSUME NEW m \in Nat, NEW T, T \subseteq 0 .. m, T # {}
    PROVE  Max(T) \in T
<1> DEFINE left == {m - i : i \in T}
<1>1. left \subseteq Nat /\ left # {}
  <2>1. \A i \in T : m - i \in Nat
    OBVIOUS
  <2> QED
    BY <2>1
<1>2. PICK k \in left : \A j \in left : k <= j
  <2> HIDE DEF left
  <2> QED
    BY <1>1, LeastExists
<1>3. PICK i \in T : k = m - i
  OBVIOUS
<1>4. \A j \in T : m - i <= m - j
  BY <1>2, <1>3
<1>5. \A j \in T : i >= j
  BY <1>4
<1> QED
  BY <1>5 DEF Max

LEMMA ImageIsFinite ==
    ASSUME NEW S, IsFiniteSet(S), NEW f, DOMAIN f = S
    PROVE  IsFiniteSet({f[x] : x \in S})
<1> DEFINE T == {f[x] : x \in S}
           h == [x \in S |-> f[x]]
<1>1. h \in Surjection(S, T)
  BY DEF Surjection
<1> QED
  BY <1>1, FS_Surjection

\* A finite set in some order has every element once.
LEMMA InSomeOrder ==
    ASSUME NEW S, IsFiniteSet(S)
    PROVE  LET t == SetToSeq(S)
           IN  /\ t \in Seq(S) /\ \A i \in DOMAIN t : t[i] \in S
               /\ \A i, j \in DOMAIN t : t[i] = t[j] => i = j
               /\ \A x \in S : \E i \in DOMAIN t : t[i] = x
<1>1. PICK n \in Nat : n = Cardinality(S)
  BY FS_CardinalityType
<1>2. PICK f : f \in Bijection(1 .. n, S)
  BY <1>1, FS_CardinalityType DEF ExistsBijection
<1>3. f \in [1 .. n -> S] /\ IsInjective(f)
  BY <1>2 DEF Bijection, Injection, IsInjective
<1>4. PICK t : t = SetToSeq(S)
  OBVIOUS
<1>5. t \in [1 .. n -> S] /\ IsInjective(t)
  BY <1>1, <1>3, <1>4 DEF SetToSeq
<1>6. t \in Seq(S) /\ Len(t) = n
  BY <1>5
<1>7. t \in Injection(1 .. n, S)
  BY <1>5 DEF Injection, IsInjective
<1>8. Cardinality(1 .. n) = n
  BY FS_Interval
<1>9. t \in Surjection(1 .. n, S)
  BY <1>1, <1>7, <1>8, FS_Injection
<1>10. \A x \in S : \E i \in 1 .. n : t[i] = x
  BY <1>9 DEF Surjection
<1>11. \A i, j \in 1 .. n : t[i] = t[j] => i = j
  BY <1>5 DEF IsInjective
<1> QED
  BY <1>4, <1>6, <1>10, <1>11

-----------------------------------------------------------------------------
(* The history.                                                             *)

LEMMA ResultIs ==
    ASSUME NEW r \in Results
    PROVE  /\ r # NoResult
           /\ r.exit \in [Seats -> Exits] /\ r.score \in [Seats -> Scores]
           /\ \E s \in Seats : r.exit[s] = "none"
<1>1. PICK e \in [Seats -> Exits], v \in [Seats -> Scores] : r.exit = e /\ r.score = v
  BY DEF Results
<1>2. \E s \in Seats : r.exit[s] = "none"
  BY DEF Results
<1>3. 1 \in Seats
  BY SeatsAssumption DEF Seats
<1>4. DOMAIN r.exit # {}
  BY <1>1, <1>3
<1>5. NoResult.exit = << >> /\ DOMAIN << >> = {}
  BY DEF NoResult
<1>6. r # NoResult
  BY <1>4, <1>5
<1> QED
  BY <1>1, <1>2, <1>6

LEMMA MovesAreFew ==
    ASSUME NEW g \in Games, NEW r
    PROVE  IsFiniteSet(Moves(g, r)) /\ Moves(g, r) \subseteq Subjects
<1>1. IsFiniteSet(Ranked(r)) /\ Ranked(r) \subseteq Seats
  <2>1. IsFiniteSet(Seats)
    BY SeatsAssumption, FS_Interval DEF Seats
  <2> QED
    BY <2>1, FS_Subset DEF Ranked
<1>2. PICK f : f = [s \in Ranked(r) |-> Holder[g][s]]
  OBVIOUS
<1>3. DOMAIN f = Ranked(r)
  BY <1>2
<1>4. IsFiniteSet({f[s] : s \in Ranked(r)})
  BY <1>1, <1>3, ImageIsFinite
<1>5. {f[s] : s \in Ranked(r)} = {Holder[g][s] : s \in Ranked(r)}
  BY <1>2
<1>6. \A s \in Ranked(r) : Holder[g][s] \in Subjects
  BY <1>1, HolderAssumption
<1> QED
  BY <1>4, <1>5, <1>6, FS_EmptySet DEF Moves

\* The rows of a settlement: one for each subject it moves.
LEMMA RowsAre ==
    ASSUME NEW g \in Games, NEW r, NEW S,
           \A x : x \in S <=> \E p \in Moves(g, r) : x = Row(g, r, p),
           NEW t, t = SetToSeq(S)
    PROVE  /\ t \in Seq(S)
           /\ \A k \in DOMAIN t : \E p \in Moves(g, r) : t[k] = Row(g, r, p)
           /\ \A p \in Moves(g, r) : \E k \in DOMAIN t : t[k] = Row(g, r, p)
           /\ \A i, j \in DOMAIN t : t[i] = t[j] => i = j
<1>1. PICK f : f = [p \in Moves(g, r) |-> Row(g, r, p)]
  OBVIOUS
<1>3. IsFiniteSet(S)
  <2>1. DOMAIN f = Moves(g, r) /\ IsFiniteSet(Moves(g, r))
    BY <1>1, MovesAreFew
  <2>2. IsFiniteSet({f[p] : p \in Moves(g, r)})
    BY <2>1, ImageIsFinite
  <2>3. {f[p] : p \in Moves(g, r)} = S
    BY <1>1
  <2> QED
    BY <2>2, <2>3
<1>5. /\ t \in Seq(S) /\ \A i \in DOMAIN t : t[i] \in S
      /\ \A i, j \in DOMAIN t : t[i] = t[j] => i = j
      /\ \A x \in S : \E i \in DOMAIN t : t[i] = x
  BY <1>3, InSomeOrder
<1>7. \A k \in DOMAIN t : \E p \in Moves(g, r) : t[k] = Row(g, r, p)
  <2>1. ASSUME NEW k \in DOMAIN t PROVE \E p \in Moves(g, r) : t[k] = Row(g, r, p)
    <3>1. t[k] \in S
      BY <1>5
    <3> QED
      BY <3>1
  <2> QED
    BY <2>1
<1>8. \A p \in Moves(g, r) : \E k \in DOMAIN t : t[k] = Row(g, r, p)
  BY <1>5
<1> QED
  BY <1>5, <1>7, <1>8

\* The table after a settlement: a subject it moves has one row more, the last.
LEMMA TableGrows ==
    ASSUME NEW g \in Games, NEW r, SettleRatings(g, r),
           history \in Seq({history[i] : i \in DOMAIN history})
    PROVE  /\ history' \in Seq({history'[i] : i \in DOMAIN history'})
           /\ DOMAIN history \subseteq Nat
           /\ \A i \in DOMAIN history : i \in DOMAIN history' /\ history'[i] = history[i]
           /\ \A p \in Subjects \ Moves(g, r) : RatingHistory(p)' = RatingHistory(p)
           /\ \A p \in Moves(g, r) : \E n \in Nat :
                 /\ RatingHistory(p)' = RatingHistory(p) \cup {n}
                 /\ n \in DOMAIN history' /\ history'[n] = Row(g, r, p)
                 /\ \A i \in DOMAIN history : i < n
           /\ \A i \in DOMAIN history' :
                 i \in DOMAIN history \/ history'[i].game = g
<1>1. PICK S : S = {Row(g, r, p) : p \in Moves(g, r)}
  OBVIOUS
<1>2. PICK t : t = SetToSeq(S)
  OBVIOUS
<1>3. /\ t \in Seq(S)
      /\ \A k \in DOMAIN t : \E p \in Moves(g, r) : t[k] = Row(g, r, p)
      /\ \A p \in Moves(g, r) : \E k \in DOMAIN t : t[k] = Row(g, r, p)
      /\ \A i, j \in DOMAIN t : t[i] = t[j] => i = j
  <2>1. \A x : x \in S <=> \E p \in Moves(g, r) : x = Row(g, r, p)
    BY <1>1
  <2> QED
    BY <1>2, <2>1, RowsAre
<1>4. history' = history \o t
  BY <1>1, <1>2 DEF SettleRatings
<1>5. PICK n \in Nat, m \in Nat : n = Len(history) /\ m = Len(t) /\ DOMAIN t = 1 .. m
  BY <1>3
<1>6. PICK H : H = {history[i] : i \in DOMAIN history} \cup S
  OBVIOUS
<1>7. history \in Seq(H) /\ t \in Seq(H)
  BY <1>3, <1>6
<1>8. /\ history' \in Seq(H) /\ Len(history') = n + m
      /\ \A i \in 1 .. n : history'[i] = history[i]
      /\ \A k \in 1 .. m : history'[n + k] = t[k]
  BY <1>4, <1>5, <1>7
<1>9. DOMAIN history = 1 .. n /\ DOMAIN history' = 1 .. n + m
  BY <1>5, <1>7, <1>8
<1>10. history' \in Seq({history'[i] : i \in DOMAIN history'})
  <2>1. PICK V : V = {history'[i] : i \in DOMAIN history'}
    OBVIOUS
  <2>2. history' \in [1 .. n + m -> V] /\ n + m \in Nat
    BY <1>8, <1>9, <2>1
  <2>3. history' \in Seq(V)
    BY <2>2
  <2> QED
    BY <2>1, <2>3
<1>11. ASSUME NEW i \in n + 1 .. n + m
       PROVE  i - n \in 1 .. m /\ history'[i] = t[i - n]
  <2>1. PICK k \in 1 .. m : k = i - n /\ n + k = i
    <3>1. i - n \in 1 .. m /\ n + (i - n) = i
      OBVIOUS
    <3> QED
      BY <3>1
  <2> QED
    BY <1>8, <2>1
<1>12. \A p : Row(g, r, p).subject = p /\ Row(g, r, p).game = g
  BY DEF Row
<1>13. ASSUME NEW p \in Subjects \ Moves(g, r)
       PROVE  RatingHistory(p)' = RatingHistory(p)
  <2>1. ASSUME NEW i \in n + 1 .. n + m PROVE history'[i].subject # p
    <3>1. i - n \in DOMAIN t /\ history'[i] = t[i - n]
      BY <1>5, <1>11
    <3>2. PICK q \in Moves(g, r) : t[i - n] = Row(g, r, q)
      BY <1>3, <3>1
    <3> QED
      BY <1>12, <3>1, <3>2
  <2>2. \A i \in 1 .. n : history'[i].subject = history[i].subject
    BY <1>8
  <2> QED
    BY <1>9, <2>1, <2>2 DEF RatingHistory
<1>14. ASSUME NEW p \in Moves(g, r)
       PROVE  \E o \in Nat :
                 /\ RatingHistory(p)' = RatingHistory(p) \cup {o}
                 /\ o \in DOMAIN history' /\ history'[o] = Row(g, r, p)
                 /\ \A i \in DOMAIN history : i < o
  <2>1. PICK k \in 1 .. m : t[k] = Row(g, r, p)
    BY <1>3, <1>5
  <2>2. PICK o \in Nat : o = n + k /\ o \in 1 .. n + m /\ o > n
    OBVIOUS
  <2>3. history'[o] = Row(g, r, p)
    BY <1>8, <2>1, <2>2
  <2>4. ASSUME NEW i \in n + 1 .. n + m, history'[i].subject = p
        PROVE  i = o
    <3>1. PICK q \in Moves(g, r) : t[i - n] = Row(g, r, q)
      BY <1>3, <1>5, <1>11
    <3>2. q = p
      BY <1>11, <1>12, <2>4, <3>1
    <3>3. i - n = k
      <4>1. i - n \in DOMAIN t /\ k \in DOMAIN t
        BY <1>5, <1>11, <2>1
      <4>2. t[i - n] = t[k]
        BY <2>1, <3>1, <3>2
      <4> QED
        BY <1>3, <4>1, <4>2
    <3> QED
      BY <2>2, <3>3
  <2>5. \A i \in 1 .. n : history'[i].subject = history[i].subject
    BY <1>8
  <2>6. RatingHistory(p)' = RatingHistory(p) \cup {o}
    <3>1. history'[o].subject = p /\ o \in DOMAIN history'
      BY <1>9, <1>12, <2>2, <2>3
    <3>2. \A i \in DOMAIN history' : i \in DOMAIN history \/ i \in n + 1 .. n + m
      BY <1>9
    <3>3. \A i \in DOMAIN history : i \in DOMAIN history'
                                   /\ history'[i].subject = history[i].subject
      BY <1>9, <2>5
    <3>4. \A i : (i \in DOMAIN history' /\ history'[i].subject = p)
                 <=> (i \in DOMAIN history /\ history[i].subject = p) \/ i = o
      BY <2>4, <3>1, <3>2, <3>3
    <3> QED
      BY <3>4 DEF RatingHistory
  <2> QED
    BY <1>9, <2>2, <2>3, <2>6
<1>15. \A i \in DOMAIN history' : i \in DOMAIN history \/ history'[i].game = g
  <2>1. ASSUME NEW i \in n + 1 .. n + m PROVE history'[i].game = g
    <3>1. i - n \in DOMAIN t /\ history'[i] = t[i - n]
      BY <1>5, <1>11
    <3>2. PICK q \in Moves(g, r) : t[i - n] = Row(g, r, q)
      BY <1>3, <3>1
    <3> QED
      BY <1>12, <3>1, <3>2
  <2>2. \A i \in 1 .. n + m : i \in 1 .. n \/ i \in n + 1 .. n + m
    OBVIOUS
  <2> QED
    BY <1>9, <2>1, <2>2
<1>16. /\ DOMAIN history \subseteq Nat
       /\ \A i \in DOMAIN history : i \in DOMAIN history' /\ history'[i] = history[i]
  BY <1>8, <1>9
<1> QED
  BY <1>10, <1>13, <1>14, <1>15, <1>16

\* What is shown as the current rating is the rating: it begins at the default.
LEMMA CurrentIs ==
    ASSUME RowsComeFromResults, NEW p \in Subjects
    PROVE  CurrentRating(p) = rating[p]
  BY DEF RowsComeFromResults, CurrentRating

LEMMA SettlingKeeps ==
    ASSUME IInv, NEW g \in Games, NEW r, SettleRatings(g, r), resaved \subseteq resaved',
           \/ result[g] = NoResult
           \/ g \in resaved',
           result'[g] # NoResult,
           \A f \in Games \ {g} : result'[f] = result[f]
    PROVE  /\ history' \in Seq({history'[i] : i \in DOMAIN history'})
           /\ rated' \in [Subjects -> Nat]
           /\ RowsComeFromResults'
           /\ HistoryIsTheRating'
<1> DEFINE M == Moves(g, r)
           Until(some) == IF some = {} THEN Default ELSE history[Max(some)].after
           UntilNow(some) == IF some = {} THEN Default ELSE history'[Max(some)].after
           Points(p) == RatingHistory(p)
<1>1. /\ history' \in Seq({history'[i] : i \in DOMAIN history'})
      /\ DOMAIN history \subseteq Nat
      /\ \A i \in DOMAIN history : i \in DOMAIN history' /\ history'[i] = history[i]
      /\ \A p \in Subjects \ M : RatingHistory(p)' = RatingHistory(p)
      /\ \A p \in M : \E n \in Nat :
            /\ RatingHistory(p)' = RatingHistory(p) \cup {n}
            /\ n \in DOMAIN history' /\ history'[n] = Row(g, r, p)
            /\ \A i \in DOMAIN history : i < n
      /\ \A i \in DOMAIN history' : i \in DOMAIN history \/ history'[i].game = g
  BY TableGrows DEF IInv
<1>2. /\ M \subseteq Subjects
      /\ \A p \in Subjects : /\ rated[p] \in Nat
                             /\ rating'[p] = IF p \in M THEN After(g, r, p) ELSE rating[p]
                             /\ rated'[p] = rated[p] + IF p \in M THEN 1 ELSE 0
      /\ rated' \in [Subjects -> Nat]
  <2>1. M \subseteq Subjects
    BY MovesAreFew
  <2>2. rated \in [Subjects -> Nat]
    BY DEF IInv
  <2> QED
    BY <2>1, <2>2 DEF SettleRatings
<1>3. RowsComeFromResults'
  <2>1. \A p \in Subjects : rated'[p] = 0 => rating'[p] = Default
    BY <1>2 DEF IInv, RowsComeFromResults
  <2>2. \A i \in DOMAIN history' : history'[i].game \in Games /\ result'[history'[i].game] # NoResult
    BY <1>1 DEF IInv, RowsComeFromResults
  <2> QED
    BY <2>1, <2>2 DEF RowsComeFromResults
<1>4. ASSUME NEW p \in Subjects
      PROVE  /\ RatingHistory(p) \subseteq DOMAIN history
             /\ RatingHistory(p) \subseteq Nat
             /\ IsFiniteSet(RatingHistory(p))
             /\ \A i \in RatingHistory(p) : history[i].before = Until({j \in RatingHistory(p) : j < i})
             /\ rating[p] = Until(RatingHistory(p))
             /\ rated[p] = Cardinality(RatingHistory(p))
             /\ \A i, j \in RatingHistory(p) :
                   history[i].game = history[j].game => i = j \/ history[i].game \in resaved
             /\ CurrentRating(p)' = rating'[p]
  <2>1. RatingHistory(p) \subseteq DOMAIN history
    BY DEF RatingHistory
  <2>2. IsFiniteSet(DOMAIN history)
    <3>1. DOMAIN history = 1 .. Len(history) /\ Len(history) \in Nat
      BY DEF IInv
    <3> QED
      BY <3>1, FS_Interval
  <2>3. IsFiniteSet(RatingHistory(p))
    BY <2>1, <2>2, FS_Subset
  <2>4. CurrentRating(p) = rating[p]
    BY CurrentIs DEF IInv
  <2>5. CurrentRating(p)' = rating'[p]
    BY <1>3 DEF RowsComeFromResults, CurrentRating
  <2>6. /\ \A i \in RatingHistory(p) : history[i].before = Until({j \in RatingHistory(p) : j < i})
        /\ CurrentRating(p) = Until(RatingHistory(p))
        /\ rated[p] = Cardinality(RatingHistory(p))
        /\ \A i, j \in RatingHistory(p) :
             history[i].game = history[j].game => i = j \/ history[i].game \in resaved
    BY Zenon DEF IInv, HistoryIsTheRating
  <2> QED
    BY <1>1, <2>1, <2>3, <2>4, <2>5, <2>6
<1> SUFFICES HistoryIsTheRating'
  BY <1>1, <1>2, <1>3
<1>5. SUFFICES ASSUME NEW p \in Subjects, NEW P, P = RatingHistory(p)'
               PROVE  /\ \A i \in P : history'[i].before = UntilNow({j \in P : j < i})
                      /\ CurrentRating(p)' = UntilNow(P)
                      /\ rated'[p] = Cardinality(P)
                      /\ \A i, j \in P :
                            history'[i].game = history'[j].game =>
                                i = j \/ history'[i].game \in resaved'
  BY Zenon DEF HistoryIsTheRating
<1>6. PICK Q : Q = RatingHistory(p)
  OBVIOUS
<1>7. /\ Q \subseteq DOMAIN history /\ Q \subseteq Nat /\ IsFiniteSet(Q)
      /\ \A i \in Q : history[i].before = Until({j \in Q : j < i})
      /\ rating[p] = Until(Q)
      /\ rated[p] = Cardinality(Q)
      /\ \A i, j \in Q :
            history[i].game = history[j].game => i = j \/ history[i].game \in resaved
      /\ CurrentRating(p)' = rating'[p]
  <2> HIDE DEF Until, UntilNow
  <2> QED
    BY <1>4, <1>6
<1>8. \A i \in Q : history'[i] = history[i]
  BY <1>1, <1>7
<1>9. ASSUME NEW T, T \subseteq Q PROVE UntilNow(T) = Until(T)
  <2>1. CASE T = {}
    BY <2>1
  <2>2. CASE T # {}
    <3>1. Max(T) \in T
      <4>1. PICK n \in Nat : T \subseteq 0 .. n
        <5>1. Len(history) \in Nat /\ DOMAIN history = 1 .. Len(history)
          BY DEF IInv
        <5> QED
          BY <1>7, <1>9, <5>1
      <4> QED
        BY <2>2, <4>1, GreatestIs
    <3> QED
      BY <1>8, <1>9, <2>2, <3>1
  <2> QED
    BY <2>1, <2>2
<1>10. CASE p \notin M
  <2>1. P = Q /\ rating'[p] = rating[p] /\ rated'[p] = rated[p]
    BY <1>1, <1>2, <1>5, <1>6, <1>10
  <2>2. ASSUME NEW i \in P PROVE history'[i].before = UntilNow({j \in P : j < i})
    <3>1. {j \in Q : j < i} \subseteq Q
      OBVIOUS
    <3>2. history[i].before = Until({j \in Q : j < i})
      BY <1>7, <2>1
    <3> HIDE DEF Until, UntilNow
    <3> QED
      BY <1>8, <1>9, <2>1, <3>1, <3>2
  <2>3. CurrentRating(p)' = UntilNow(P)
    <3> HIDE DEF Until, UntilNow
    <3> QED
      BY <1>7, <1>9, <2>1
  <2>4. \A i, j \in P : history'[i].game = history'[j].game => i = j \/ history'[i].game \in resaved'
    BY <1>7, <1>8, <2>1
  <2> QED
    BY <1>7, <2>1, <2>2, <2>3, <2>4
<1>11. CASE p \in M
  <2>1. PICK n \in Nat :
          /\ P = Q \cup {n} /\ n \in DOMAIN history' /\ history'[n] = Row(g, r, p)
          /\ \A i \in DOMAIN history : i < n
    BY <1>1, <1>5, <1>6, <1>11
  <2>2. (\A i \in Q : i < n) /\ n \notin Q
    BY <1>7, <2>1
  <2>3. rating'[p] = After(g, r, p) /\ rated'[p] = Cardinality(Q) + 1
    BY <1>2, <1>7, <1>11
  <2>4. Cardinality(P) = Cardinality(Q) + 1
    BY <1>7, <2>1, <2>2, FS_AddElement
  <2>5. history'[n].before = rating[p] /\ history'[n].after = rating'[p] /\ history'[n].game = g
    BY <2>1, <2>3 DEF Row
  <2>6. ASSUME NEW i \in P PROVE history'[i].before = UntilNow({j \in P : j < i})
    <3>1. CASE i = n
      <4>1. {j \in P : j < i} = Q
        BY <1>7, <2>1, <2>2, <3>1
      <4> HIDE DEF Until, UntilNow
      <4> QED
        BY <1>7, <1>9, <2>5, <3>1, <4>1
    <3>2. CASE i \in Q
      <4>1. PICK T : T = {j \in Q : j < i}
        OBVIOUS
      <4>2. {j \in P : j < i} = T /\ T \subseteq Q
        BY <1>7, <2>1, <2>2, <3>2, <4>1
      <4> HIDE DEF Until, UntilNow
      <4>3. history[i].before = Until(T)
        BY <1>7, <3>2, <4>1
      <4> QED
        BY <1>8, <1>9, <3>2, <4>2, <4>3
    <3> QED
      BY <2>1, <3>1, <3>2
  <2>7. CurrentRating(p)' = UntilNow(P)
    <3>1. Max(P) = n
      BY <1>7, <2>1, <2>2, TheGreatest
    <3> QED
      BY <1>7, <2>1, <2>5, <3>1
  <2>8. ASSUME NEW i \in P, NEW j \in P, history'[i].game = history'[j].game
        PROVE  i = j \/ history'[i].game \in resaved'
    <3>1. CASE i \in Q /\ j \in Q
      BY <1>7, <1>8, <2>8, <3>1
    <3>2. ASSUME NEW k \in Q, history'[k].game = g PROVE g \in resaved'
      <4>1. k \in DOMAIN history /\ history[k].game = g
        BY <1>7, <1>8, <3>2
      <4>2. result[g] # NoResult
        BY <4>1 DEF IInv, RowsComeFromResults
      <4> QED
        BY <4>2
    <3> QED
      BY <2>1, <2>5, <2>8, <3>1, <3>2
  <2> QED
    BY <2>3, <2>4, <2>6, <2>7, <2>8
<1> QED
  BY <1>10, <1>11

LEMMA InitKeeps == Init => IInv
<1>1. SUFFICES ASSUME Init PROVE IInv
  OBVIOUS
<1>2. /\ result = [g \in Games |-> NoResult] /\ rated = [p \in Subjects |-> 0]
      /\ rating = [p \in Subjects |-> Default] /\ history = << >> /\ kept = Games
  BY <1>1 DEF Init
<1>3. DOMAIN history = {} /\ history \in Seq({history[i] : i \in DOMAIN history})
  BY <1>2
<1>4. RowsComeFromResults
  BY <1>2, <1>3 DEF RowsComeFromResults
<1>5. HistoryIsTheRating
  <2>1. \A p \in Subjects : RatingHistory(p) = {}
    BY <1>3 DEF RatingHistory
  <2>2. \A p \in Subjects : CurrentRating(p) = Default
    BY <1>2 DEF CurrentRating
  <2>3. \A p \in Subjects : rated[p] = Cardinality({})
    BY <1>2, FS_EmptySet
  <2> QED
    BY <2>1, <2>2, <2>3 DEF HistoryIsTheRating
<1> QED
  BY <1>2, <1>3, <1>4, <1>5 DEF IInv

\* Nothing is settled, and results stay.
LEMMA DroppingKeeps ==
    ASSUME IInv, UNCHANGED <<result, rating, rated, history, resaved>>, kept' \subseteq kept
    PROVE  IInv'
<1>1. RowsComeFromResults'
  BY DEF IInv, RowsComeFromResults
<1>2. HistoryIsTheRating'
  <2>1. HistoryIsTheRating
    BY DEF IInv
  <2>2. \A p : RatingHistory(p)' = RatingHistory(p) /\ CurrentRating(p)' = CurrentRating(p)
    BY DEF RatingHistory, CurrentRating
  <2>3. history' = history /\ rated' = rated /\ resaved' = resaved
    OBVIOUS
  <2> QED
    BY <2>1, <2>2, <2>3, ZenonT(60) DEF HistoryIsTheRating
<1> QED
  BY <1>1, <1>2 DEF IInv

\* The history a subject has, the rating and the count of its games agree
\* through every settlement, second save and deletion: the inductive invariant.
THEOREM Consistent == Spec => []IInv
<1>1. ASSUME IInv, [Next]_vars PROVE IInv'
  <2>1. ASSUME NEW g \in Games, NEW r \in Results, Settle(g, r) PROVE IInv'
    <3>1. /\ result[g] = NoResult /\ result' = [result EXCEPT ![g] = r]
          /\ SettleRatings(g, r) /\ UNCHANGED <<kept, resaved>>
      BY <2>1 DEF Settle
    <3>2. result \in [Games -> Results \cup {NoResult}] /\ kept \subseteq Games
      BY <1>1 DEF IInv
    <3>3. result'[g] # NoResult /\ \A f \in Games \ {g} : result'[f] = result[f]
      BY <3>1, <3>2, ResultIs
    <3>4. /\ history' \in Seq({history'[i] : i \in DOMAIN history'})
          /\ rated' \in [Subjects -> Nat]
          /\ RowsComeFromResults' /\ HistoryIsTheRating'
      BY <1>1, <3>1, <3>3, SettlingKeeps
    <3>5. result' \in [Games -> Results \cup {NoResult}] /\ kept' \subseteq Games
      BY <3>1, <3>2
    <3> QED
      BY <3>4, <3>5 DEF IInv
  <2>2. ASSUME NEW g \in Games, Resave(g) PROVE IInv'
    <3>1. /\ result[g] # NoResult /\ SettleRatings(g, result[g])
          /\ kept' = kept \cup {g} /\ resaved' = resaved \cup {g} /\ result' = result
      BY <2>2 DEF Resave
    <3>2. /\ history' \in Seq({history'[i] : i \in DOMAIN history'})
          /\ rated' \in [Subjects -> Nat]
          /\ RowsComeFromResults' /\ HistoryIsTheRating'
      <4>1. \A f \in Games \ {g} : result'[f] = result[f]
        BY <3>1
      <4>2. resaved \subseteq resaved' /\ g \in resaved' /\ result'[g] # NoResult
        BY <3>1
      <4> QED
        BY <1>1, <3>1, <4>1, <4>2, SettlingKeeps
    <3>3. result' \in [Games -> Results \cup {NoResult}] /\ kept' \subseteq Games
      BY <1>1, <3>1 DEF IInv
    <3> QED
      BY <3>2, <3>3 DEF IInv
  <2>3. ASSUME NEW g \in Games, DropRow(g) PROVE IInv'
    BY <1>1, <2>3, DroppingKeeps DEF DropRow, RowDeleted
  <2>4. ASSUME NEW g \in Games, DropSession(g) PROVE IInv'
    BY <1>1, <2>4, DroppingKeeps DEF DropSession
  <2>5. ASSUME NEW g \in Games, Sweep(g) PROVE IInv'
    BY <1>1, <2>5, DroppingKeeps DEF Sweep, RowDeleted
  <2>6. CASE UNCHANGED vars
    BY <1>1, <2>6, DroppingKeeps DEF vars
  <2> QED
    BY <1>1, <2>1, <2>2, <2>3, <2>4, <2>5, <2>6 DEF Next
<1>2. IInv /\ [Next]_vars => IInv'
  BY <1>1
<1> QED
  BY <1>2, InitKeeps, PTL DEF Spec

\* The history is the rating, of every subject, however games end and are deleted.
THEOREM HistoriesAreRatings == Spec => []HistoryIsTheRating
<1>1. IInv => HistoryIsTheRating
  BY DEF IInv
<1> QED
  BY <1>1, Consistent, PTL

-----------------------------------------------------------------------------
(* Who won.                                                                *)

LEMMA WinnersLead ==
    ASSUME NEW r \in Results, NEW s \in Seats
    PROVE  Outcome(r, s) = "win" <=> s \in Leaders(r)
<1>1. PICK v : v = r.score
  OBVIOUS
<1>2. \A t \in Seats : v[t] \in Int
  BY <1>1, ResultIs, RatingAssumption
<1>3. PICK S : S = Seats \ Left(r)
  OBVIOUS
<1>4. S \subseteq Seats
  BY <1>3
<1>5. BestOf(r, S) = {x \in S : \A t \in S : v[x] >= v[t]}
  BY <1>1 DEF BestOf
<1>6. Leaders(r) = {x \in S : \A t \in S \ {x} : v[x] > v[t]}
  BY <1>1, <1>3 DEF Leaders
<1>7. Outcome(r, s) = "win" <=> s \in S /\ s \in BestOf(r, S) /\ BestOf(r, S) = {s}
  BY <1>3 DEF Outcome
<1>8. ASSUME s \in S, BestOf(r, S) = {s}, NEW t \in S \ {s} PROVE v[s] > v[t]
  <2>1. \A x \in S : v[s] >= v[x]
    BY <1>5, <1>8
  <2>2. PICK x \in S : v[x] > v[t]
    BY <1>2, <1>4, <1>5, <1>8
  <2> QED
    BY <1>2, <1>4, <2>1, <2>2
<1>9. ASSUME s \in S, \A t \in S \ {s} : v[s] > v[t] PROVE BestOf(r, S) = {s}
  <2>1. \A t \in S : v[s] >= v[t]
    BY <1>2, <1>4, <1>9
  <2>2. ASSUME NEW x \in S, x # s PROVE ~(\A t \in S : v[x] >= v[t])
    BY <1>2, <1>4, <1>9, <2>2
  <2> QED
    BY <1>5, <1>9, <2>1, <2>2
<1> QED
  BY <1>6, <1>7, <1>8, <1>9

\* A game is won by one seat at most, so counting the seats that won is counting
\* the games.
LEMMA WinsAreGames ==
    ASSUME IInv, NEW p \in Subjects
    PROVE  SubjectStats(p).wins =
             Cardinality({g \in kept : \E s \in Seats :
                             /\ result[g] # NoResult /\ Holder[g][s] = p
                             /\ Leaders(result[g]) = {s}})
<1> DEFINE Won(g, s) == result[g] # NoResult /\ Holder[g][s] = p /\ Leaders(result[g]) = {s}
           games == {g \in kept : \E s \in Seats : Won(g, s)}
           pairs == {gs \in kept \X Seats : Won(gs[1], gs[2])}
<1>1. \A g \in kept : result[g] # NoResult => result[g] \in Results
  BY DEF IInv
<1>2. ASSUME NEW r \in Results, NEW s \in Seats
      PROVE  Outcome(r, s) = "win" <=> Leaders(r) = {s}
  <2>1. Outcome(r, s) = "win" <=> s \in Leaders(r)
    BY <1>2, WinnersLead
  <2>2. ASSUME NEW t \in Leaders(r), s \in Leaders(r) PROVE t = s
    <3>1. SUFFICES ASSUME t # s PROVE FALSE
      OBVIOUS
    <3>2. r.score[s] > r.score[t] /\ r.score[t] > r.score[s] /\ s \in Seats /\ t \in Seats
      BY <2>2, <3>1 DEF Leaders
    <3>3. r.score[s] \in Int /\ r.score[t] \in Int
      BY <3>2, ResultIs, RatingAssumption
    <3> QED
      BY <3>2, <3>3
  <2> QED
    BY <2>1, <2>2
<1>3. SubjectStats(p).wins = Cardinality(pairs)
  <2>1. PICK seats : seats = {gs \in kept \X Seats :
                                 result[gs[1]] # NoResult /\ Holder[gs[1]][gs[2]] = p}
    OBVIOUS
  <2>2. SubjectStats(p).wins =
          Cardinality({gs \in seats : Outcome(result[gs[1]], gs[2]) \in {"win"}})
    BY <2>1 DEF SubjectStats
  <2>3. \A gs \in seats : Outcome(result[gs[1]], gs[2]) \in {"win"} <=> Leaders(result[gs[1]]) = {gs[2]}
    BY <1>1, <1>2, <2>1
  <2>4. {gs \in seats : Outcome(result[gs[1]], gs[2]) \in {"win"}} = pairs
    BY <2>1, <2>3
  <2> QED
    BY <2>2, <2>4
<1>4. IsFiniteSet(pairs)
  <2>1. IsFiniteSet(kept) /\ IsFiniteSet(Seats)
    <3>1. IsFiniteSet(Seats)
      BY SeatsAssumption, FS_Interval DEF Seats
    <3>2. IsFiniteSet(kept)
      BY HolderAssumption, FS_Subset DEF IInv
    <3> QED
      BY <3>1, <3>2
  <2>2. IsFiniteSet(kept \X Seats)
    BY <2>1, FS_Product
  <2>3. pairs \subseteq kept \X Seats
    OBVIOUS
  <2> HIDE DEF pairs
  <2> QED
    BY <2>2, <2>3, FS_Subset
<1> DEFINE f == [gs \in pairs |-> gs[1]]
<1>5. f \in Bijection(pairs, games)
  <2>1. f \in [pairs -> games]
    OBVIOUS
  <2>2. \A x, y \in pairs : f[x] = f[y] => x = y
    <3>1. SUFFICES ASSUME NEW x \in pairs, NEW y \in pairs, x[1] = y[1] PROVE x = y
      OBVIOUS
    <3>2. {x[2]} = {y[2]}
      BY <3>1
    <3>3. x = <<x[1], x[2]>> /\ y = <<y[1], y[2]>>
      OBVIOUS
    <3> QED
      BY <3>1, <3>2, <3>3
  <2>3. ASSUME NEW g \in games PROVE \E x \in pairs : f[x] = g
    <3>1. PICK s \in Seats : Won(g, s)
      BY <2>3
    <3>2. <<g, s>> \in pairs
      BY <2>3, <3>1
    <3>3. f[<<g, s>>] = g
      BY <3>2
    <3> QED
      BY <3>2, <3>3
  <2>4. DOMAIN f = pairs
    OBVIOUS
  <2> HIDE DEF pairs, games, f
  <2> QED
    BY <2>1, <2>2, <2>3, <2>4 DEF Bijection, Injection, Surjection, IsInjective
<1>6. Cardinality(games) = Cardinality(pairs)
  <2> HIDE DEF pairs, games, f
  <2> QED
    BY <1>4, <1>5, FS_Bijection DEF ExistsBijection
<1> QED
  BY <1>3, <1>6

\* See OneVerdict, for any number of seats and any scores.
THEOREM VerdictsAgree == Spec => []OneVerdict
<1>1. IInv => OneVerdict
  <2>1. SUFFICES ASSUME IInv PROVE OneVerdict
    OBVIOUS
  <2>2. ASSUME NEW g \in Games, result[g] # NoResult
        PROVE  Leaders(result[g]) = {s \in Seats : Outcome(result[g], s) = "win"}
    <3>1. result[g] \in Results
      BY <2>1, <2>2 DEF IInv
    <3>2. Leaders(result[g]) \subseteq Seats
      BY DEF Leaders
    <3> QED
      BY <3>1, <3>2, WinnersLead
  <2> QED
    BY <2>1, <2>2, WinsAreGames, Zenon DEF OneVerdict
<1> QED
  BY <1>1, Consistent, PTL

-----------------------------------------------------------------------------
(* What a settlement adds up to.                                           *)

\* Induction over finite sets: of a family of them one is the smallest.
LEMMA SmallestExists ==
    ASSUME NEW F, F # {}, \A s \in F : IsFiniteSet(s)
    PROVE  \E s \in F : \A t \in F : Cardinality(s) <= Cardinality(t)
<1> DEFINE sizes == {Cardinality(s) : s \in F}
<1>1. sizes \subseteq Nat /\ sizes # {}
  BY FS_CardinalityType
<1>2. PICK n \in sizes : \A j \in sizes : n <= j
  <2> HIDE DEF sizes
  <2> QED
    BY <1>1, LeastExists
<1> QED
  BY <1>2

LEMMA LessOne ==
    ASSUME NEW s, IsFiniteSet(s), NEW x \in s
    PROVE  IsFiniteSet(s \ {x}) /\ Cardinality(s \ {x}) < Cardinality(s)
<1>1. IsFiniteSet(s \ {x}) /\ Cardinality(s \ {x}) = Cardinality(s) - 1
  BY FS_RemoveElement
<1>2. Cardinality(s) \in Nat
  BY FS_CardinalityType
<1> QED
  BY <1>1, <1>2

\* The sums of f over the subsets of S, one element taken out after another.
Pick(s) == CHOOSE x \in s : TRUE
Sums(g, f, S) ==
    g = [s \in S |-> IF s = {} THEN 0 ELSE f[Pick(s)] + g[s \ {Pick(s)}]]

LEMMA PickIs ==
    ASSUME NEW s, s # {}
    PROVE  Pick(s) \in s
  BY DEF Pick

LEMMA SumsExist ==
    ASSUME NEW S, IsFiniteSet(S), NEW f
    PROVE  \E g : Sums(g, f, SUBSET S)
<1> DEFINE parts(n) == {s \in SUBSET S : Cardinality(s) <= n}
<1> DEFINE missing == {n \in Nat : ~ \E g : Sums(g, f, parts(n))}
<1>0. \A s \in SUBSET S : IsFiniteSet(s) /\ Cardinality(s) \in Nat
  BY FS_Subset, FS_CardinalityType
<1>1. 0 \notin missing
  <2>1. \A s \in parts(0) : s = {}
    BY <1>0, FS_EmptySet
  <2>2. PICK g : g = [s \in parts(0) |-> 0]
    OBVIOUS
  <2>3. Sums(g, f, parts(0))
    BY <2>1, <2>2 DEF Sums
  <2> QED
    BY <2>3
<1>2. ASSUME NEW n \in Nat, n \notin missing
      PROVE  n + 1 \notin missing
  <2>1. PICK g : Sums(g, f, parts(n))
    BY <1>2
  <2>2. PICK h : h = [s \in parts(n + 1) |->
                        IF s = {} THEN 0 ELSE f[Pick(s)] + g[s \ {Pick(s)}]]
    OBVIOUS
  <2>3. \A t \in parts(n) : t \in parts(n + 1) /\ h[t] = g[t]
    <3>1. \A t \in parts(n) : t \in parts(n + 1)
      BY <1>0
    <3>2. \A t \in parts(n) : g[t] = IF t = {} THEN 0 ELSE f[Pick(t)] + g[t \ {Pick(t)}]
      BY <2>1 DEF Sums
    <3> QED
      BY <2>2, <3>1, <3>2
  <2>4. \A s \in parts(n + 1) : s # {} => s \ {Pick(s)} \in parts(n)
    <3>1. SUFFICES ASSUME NEW s \in parts(n + 1), s # {}
                   PROVE  s \ {Pick(s)} \in parts(n)
      OBVIOUS
    <3>2. Cardinality(s \ {Pick(s)}) < Cardinality(s) /\ s \ {Pick(s)} \in SUBSET S
      BY <1>0, <3>1, LessOne, PickIs
    <3>3. Cardinality(s) \in Nat /\ Cardinality(s \ {Pick(s)}) \in Nat
      BY <1>0, <3>2
    <3> QED
      BY <3>1, <3>2, <3>3
  <2>5. \A s \in parts(n + 1) :
           s # {} => g[s \ {Pick(s)}] = h[s \ {Pick(s)}]
    BY <2>3, <2>4, Zenon
  <2>6. h = [s \in parts(n + 1) |->
                        IF s = {} THEN 0 ELSE f[Pick(s)] + h[s \ {Pick(s)}]]
    <3> HIDE DEF parts
    <3> QED
      BY <2>2, <2>5
  <2> HIDE DEF parts
  <2> QED
    BY <2>6 DEF Sums
<1>3. missing = {}
  <2>1. SUFFICES ASSUME missing # {} PROVE FALSE
    OBVIOUS
  <2>2. PICK n \in missing : \A j \in missing : n <= j
    <3>1. missing \subseteq Nat
      OBVIOUS
    <3> HIDE DEF missing
    <3> QED
      BY <2>1, <3>1, LeastExists
  <2>3. n \in Nat /\ n # 0
    BY <1>1
  <2> HIDE DEF missing
  <2>4. n - 1 \in Nat /\ n - 1 \notin missing /\ (n - 1) + 1 = n
    BY <2>2, <2>3
  <2> QED
    BY <1>2, <2>4
<1>4. parts(Cardinality(S)) = SUBSET S
  BY FS_Subset
<1>5. Cardinality(S) \in Nat
  BY FS_CardinalityType
<1>6. \E g : Sums(g, f, parts(Cardinality(S)))
  <2> HIDE DEF parts
  <2> QED
    BY <1>3, <1>5
<1> QED
  BY <1>4, <1>6

\* The sum of whole numbers is one.
LEMMA SumIsInt ==
    ASSUME NEW S, IsFiniteSet(S), NEW f, \A x \in S : f[x] \in Int,
           NEW g, Sums(g, f, SUBSET S)
    PROVE  g[S] \in Int
<1> DEFINE odd == {s \in SUBSET S : g[s] \notin Int}
<1>1. SUFFICES ASSUME odd # {} PROVE FALSE
  OBVIOUS
<1>2. \A s \in odd : IsFiniteSet(s)
  BY FS_Subset
<1>3. PICK s \in odd : \A t \in odd : Cardinality(s) <= Cardinality(t)
  <2> HIDE DEF odd
  <2> QED
    BY <1>1, <1>2, SmallestExists
<1>4. s \in SUBSET S /\ g[s] \notin Int
  OBVIOUS
<1>5. g[s] = IF s = {} THEN 0 ELSE f[Pick(s)] + g[s \ {Pick(s)}]
  BY <1>4 DEF Sums
<1>6. s # {} /\ Pick(s) \in s
  BY <1>4, <1>5, PickIs
<1>7. IsFiniteSet(s) /\ Cardinality(s \ {Pick(s)}) < Cardinality(s)
      /\ IsFiniteSet(s \ {Pick(s)})
  BY <1>2, <1>6, LessOne
<1>8. Cardinality(s) \in Nat /\ Cardinality(s \ {Pick(s)}) \in Nat
  BY <1>7, FS_CardinalityType
<1>9. s \ {Pick(s)} \notin odd
  <2> HIDE DEF odd
  <2> QED
    BY <1>3, <1>7, <1>8
<1>10. g[s \ {Pick(s)}] \in Int
  BY <1>4, <1>9
<1> QED
  BY <1>4, <1>5, <1>6, <1>10

LEMMA SumOfOne ==
    ASSUME NEW x, NEW f, f[x] \in Int, NEW g, Sums(g, f, SUBSET {x})
    PROVE  g[{x}] = f[x]
<1>1. Pick({x}) = x /\ {x} \ {x} = {}
  BY PickIs
<1>2. g[{}] = 0 /\ g[{x}] = f[Pick({x})] + g[{x} \ {Pick({x})}]
  BY DEF Sums
<1>3. g[{x}] = f[x] + 0
  BY <1>1, <1>2, Zenon
<1> QED
  BY <1>3

\* What the expectation is of, and the ratings: whole numbers.
Whole == Expect \in [Int -> Int] /\ \A p \in Subjects : rating[p] \in Int

LEMMA SeatChangeIs ==
    ASSUME Whole, NEW g \in Games, NEW r, NEW s \in Ranked(r), Rates(r)
    PROVE  /\ SeatChange(g, r, s) \in Int
           /\ \A t : Ranked(r) \ {s} = {t} =>
                 SeatChange(g, r, s) =
                   KStep(r) * (Share(r, s, t) - Expect[rating[Holder[g][s]] - rating[Holder[g][t]]])
<1>1. PICK R : R = Ranked(r)
  OBVIOUS
<1>2. R \subseteq Seats /\ IsFiniteSet(R)
  <2>1. IsFiniteSet(Seats)
    BY SeatsAssumption, FS_Interval DEF Seats
  <2> QED
    BY <1>1, <2>1, FS_Subset DEF Ranked
<1>3. PICK S : S = R \ {s}
  OBVIOUS
<1>4. S \subseteq Seats /\ IsFiniteSet(S)
  BY <1>2, <1>3, FS_Subset
<1>5. PICK f : f = [t \in S |-> Share(r, s, t) - Expect[rating[Holder[g][s]] - rating[Holder[g][t]]]]
  OBVIOUS
<1>6. \A t \in S : f[t] \in Int
  <2>1. SUFFICES ASSUME NEW t \in S PROVE f[t] \in Int
    OBVIOUS
  <2>2. Holder[g][s] \in Subjects /\ Holder[g][t] \in Subjects
    BY <1>1, <1>2, <1>4, HolderAssumption
  <2>3. PICK d \in Int : d = rating[Holder[g][s]] - rating[Holder[g][t]]
    BY <2>2 DEF Whole
  <2>4. Expect[d] \in Int
    BY DEF Whole
  <2>5. Win \in Int /\ Win \div 2 \in Int
    BY RatingAssumption
  <2>6. Share(r, s, t) \in Int
    BY <2>5 DEF Share
  <2> QED
    BY <1>5, <2>3, <2>4, <2>6
<1>7. PICK k : Sums(k, f, SUBSET S) /\ MapThenSumSet(
                  LAMBDA t : Share(r, s, t)
                             - Expect[rating[Holder[g][s]] - rating[Holder[g][t]]], S) = k[S]
  <2> DEFINE Adds(h) ==
               h = [x \in SUBSET S |->
                     IF x = {} THEN 0
                     ELSE (Share(r, s, CHOOSE t \in x : TRUE)
                            - Expect[rating[Holder[g][s]] - rating[Holder[g][CHOOSE t \in x : TRUE]]])
                          + h[x \ {CHOOSE t \in x : TRUE}]]
  <2>1. \A x \in SUBSET S : x # {} =>
           f[Pick(x)] = Share(r, s, CHOOSE t \in x : TRUE)
                         - Expect[rating[Holder[g][s]] - rating[Holder[g][CHOOSE t \in x : TRUE]]]
    BY <1>5 DEF Pick
  <2>2. \A h : Adds(h) <=> Sums(h, f, SUBSET S)
    <3>1. ASSUME NEW h, NEW x \in SUBSET S
          PROVE  (IF x = {} THEN 0
                  ELSE (Share(r, s, CHOOSE t \in x : TRUE)
                         - Expect[rating[Holder[g][s]] - rating[Holder[g][CHOOSE t \in x : TRUE]]])
                       + h[x \ {CHOOSE t \in x : TRUE}])
                 = (IF x = {} THEN 0 ELSE f[Pick(x)] + h[x \ {Pick(x)}])
      BY <2>1 DEF Pick
    <3> QED
      BY <3>1, ZenonT(60) DEF Sums
  <2>3. \E h : Adds(h)
    <3> HIDE DEF Adds
    <3>1. PICK h : Sums(h, f, SUBSET S)
      BY <1>4, SumsExist
    <3> QED
      BY <2>2, <3>1
  <2>4. MapThenSumSet(
           LAMBDA t : Share(r, s, t) - Expect[rating[Holder[g][s]] - rating[Holder[g][t]]], S)
           = (CHOOSE h : Adds(h))[S]
    BY DEF MapThenSumSet, MapThenFoldSet
  <2>5. PICK k : k = CHOOSE h : Adds(h)
    OBVIOUS
  <2> HIDE DEF Adds
  <2>6. Adds(k)
    BY <2>3, <2>5
  <2>7. Sums(k, f, SUBSET S)
    BY <2>2, <2>6
  <2> QED
    BY <2>4, <2>5, <2>7, Zenon
<1>8. SeatChange(g, r, s) = KStep(r) * k[S]
  BY <1>1, <1>3, <1>7 DEF SeatChange
<1>9. KStep(r) \in Int
  <2>1. PICK n \in Nat : n = Cardinality(Ranked(r)) /\ n >= 2
    BY <1>1, <1>2, FS_CardinalityType DEF Rates
  <2>2. K \div (n - 1) \in Int
    BY <2>1, RatingAssumption
  <2> QED
    BY <2>1, <2>2 DEF KStep
<1>10. k[S] \in Int
  BY <1>4, <1>6, <1>7, SumIsInt
<1>11. ASSUME NEW t, S = {t} PROVE k[S] = f[t]
  BY <1>6, <1>7, <1>11, SumOfOne
<1>12. SeatChange(g, r, s) \in Int
  BY <1>8, <1>9, <1>10
<1>13. ASSUME NEW t, Ranked(r) \ {s} = {t}
       PROVE  SeatChange(g, r, s) =
                KStep(r) * (Share(r, s, t) - Expect[rating[Holder[g][s]] - rating[Holder[g][t]]])
  <2>1. S = {t} /\ t \in S
    BY <1>1, <1>3, <1>13
  <2> QED
    BY <1>5, <1>8, <1>11, <2>1
<1> QED
  BY <1>12, <1>13

LEMMA NetChangeIs ==
    ASSUME Whole, NEW g \in Games, NEW r, Rates(r), NEW p
    PROVE  /\ NetChange(g, r, p) \in Int
           /\ \A s : SeatsOf(g, r, p) = {s} => NetChange(g, r, p) = SeatChange(g, r, s)
<1>1. PICK S : S = SeatsOf(g, r, p)
  OBVIOUS
<1>2. S \subseteq Ranked(r) /\ IsFiniteSet(S)
  <2>1. IsFiniteSet(Seats)
    BY SeatsAssumption, FS_Interval DEF Seats
  <2>2. S \subseteq Seats /\ S \subseteq Ranked(r)
    BY <1>1 DEF SeatsOf, Ranked
  <2> QED
    BY <2>1, <2>2, FS_Subset
<1>3. PICK f : f = [s \in S |-> SeatChange(g, r, s)]
  OBVIOUS
<1>4. \A s \in S : f[s] \in Int
  BY <1>2, <1>3, SeatChangeIs
<1>5. PICK k : Sums(k, f, SUBSET S) /\ MapThenSumSet(LAMBDA s : SeatChange(g, r, s), S) = k[S]
  <2> DEFINE Adds(h) ==
               h = [x \in SUBSET S |->
                     IF x = {} THEN 0
                     ELSE SeatChange(g, r, CHOOSE s \in x : TRUE) + h[x \ {CHOOSE s \in x : TRUE}]]
  <2>1. \A x \in SUBSET S : x # {} => f[Pick(x)] = SeatChange(g, r, CHOOSE s \in x : TRUE)
    BY <1>3 DEF Pick
  <2>2. \A h : Adds(h) <=> Sums(h, f, SUBSET S)
    <3>1. ASSUME NEW h, NEW x \in SUBSET S
          PROVE  (IF x = {} THEN 0
                  ELSE SeatChange(g, r, CHOOSE s \in x : TRUE) + h[x \ {CHOOSE s \in x : TRUE}])
                 = (IF x = {} THEN 0 ELSE f[Pick(x)] + h[x \ {Pick(x)}])
      BY <2>1 DEF Pick
    <3> QED
      BY <3>1, ZenonT(60) DEF Sums
  <2>3. \E h : Adds(h)
    <3> HIDE DEF Adds
    <3>1. PICK h : Sums(h, f, SUBSET S)
      BY <1>2, SumsExist
    <3> QED
      BY <2>2, <3>1
  <2>4. MapThenSumSet(LAMBDA s : SeatChange(g, r, s), S) = (CHOOSE h : Adds(h))[S]
    BY DEF MapThenSumSet, MapThenFoldSet
  <2>5. PICK k : k = CHOOSE h : Adds(h)
    OBVIOUS
  <2> HIDE DEF Adds
  <2>6. Adds(k)
    BY <2>3, <2>5
  <2>7. Sums(k, f, SUBSET S)
    BY <2>2, <2>6
  <2> QED
    BY <2>4, <2>5, <2>7, Zenon
<1>6. NetChange(g, r, p) = k[S]
  BY <1>1, <1>5 DEF NetChange
<1>7. k[S] \in Int
  BY <1>2, <1>4, <1>5, SumIsInt
<1>8. ASSUME NEW s, S = {s} PROVE k[S] = f[s]
  BY <1>4, <1>5, <1>8, SumOfOne
<1>9. ASSUME NEW s, SeatsOf(g, r, p) = {s} PROVE NetChange(g, r, p) = SeatChange(g, r, s)
  <2>1. S = {s} /\ s \in S
    BY <1>1, <1>9
  <2> QED
    BY <1>3, <1>6, <1>8, <2>1
<1> QED
  BY <1>6, <1>7, <1>9

LEMMA AfterIs ==
    ASSUME Whole, NEW g \in Games, NEW r, Rates(r), NEW p \in Subjects
    PROVE  /\ After(g, r, p) \in Int /\ After(g, r, p) >= Floor
           /\ rating[p] + NetChange(g, r, p) >= Floor =>
                 After(g, r, p) = rating[p] + NetChange(g, r, p)
<1>1. PICK x \in Int : x = rating[p] + NetChange(g, r, p)
  BY NetChangeIs DEF Whole
<1>2. PICK n \in Int : n = Floor
  BY RatingAssumption
<1>3. PICK m : m = After(g, r, p)
  OBVIOUS
<1>4. m = Max({n, x})
  BY <1>1, <1>2, <1>3 DEF After
<1>5. \E y \in {n, x} : \A z \in {n, x} : y >= z
  OBVIOUS
<1>6. m \in {n, x} /\ \A z \in {n, x} : m >= z
  BY <1>4, <1>5 DEF Max
<1>7. m \in Int /\ m >= n /\ (x >= n => m = x)
  BY <1>6
<1> QED
  BY <1>1, <1>2, <1>3, <1>7

LEMMA SettlingIsWhole ==
    ASSUME Expect \in [Int -> Int], TypeOK, NEW g \in Games, NEW r, SettleRatings(g, r)
    PROVE  /\ rating' \in [Subjects -> Int] /\ \A p \in Subjects : rating'[p] >= Floor
           /\ rated' \in [Subjects -> Nat]
           /\ history' \in Seq([subject : Subjects, game : Games, before : Int, after : Int])
<1>1. Whole
  BY DEF Whole, TypeOK
<1>2. Moves(g, r) \subseteq Subjects /\ \A p \in Moves(g, r) : Rates(r)
  BY MovesAreFew DEF Moves
<1>3. \A p \in Moves(g, r) : After(g, r, p) \in Int /\ After(g, r, p) >= Floor
  BY <1>1, <1>2, AfterIs
<1>4. rating' \in [Subjects -> Int] /\ \A p \in Subjects : rating'[p] >= Floor
  BY <1>2, <1>3 DEF SettleRatings, TypeOK
<1>5. rated' \in [Subjects -> Nat]
  <2>1. ASSUME NEW p \in Subjects
        PROVE  rated[p] + (IF p \in Moves(g, r) THEN 1 ELSE 0) \in Nat
    <3>1. rated[p] \in Nat
      BY DEF TypeOK
    <3> QED
      BY <3>1
  <2> QED
    BY <2>1 DEF SettleRatings
<1>6. PICK V : V = [subject : Subjects, game : Games, before : Int, after : Int]
  OBVIOUS
<1>7. \A p \in Moves(g, r) : Row(g, r, p) \in V
  BY <1>2, <1>3, <1>6 DEF Row, TypeOK
<1>8. PICK S : S = {Row(g, r, p) : p \in Moves(g, r)}
  OBVIOUS
<1>9. PICK t : t = SetToSeq(S)
  OBVIOUS
<1>10. t \in Seq(S)
  <2>1. \A x : x \in S <=> \E p \in Moves(g, r) : x = Row(g, r, p)
    BY <1>8
  <2> QED
    BY <1>9, <2>1, RowsAre
<1>11. S \subseteq V
  BY <1>7, <1>8
<1>12. t \in Seq(V)
  BY <1>10, <1>11
<1>13. history' = history \o t /\ history \in Seq(V)
  BY <1>6, <1>8, <1>9 DEF SettleRatings, TypeOK
<1>14. history' \in Seq(V)
  BY <1>12, <1>13
<1> QED
  BY <1>4, <1>5, <1>6, <1>14

\* Types, if the expectation is a whole number whatever the difference.  The
\* logistic curve is defined everywhere; the table of a run is as long as it needs.
THEOREM TypeCorrect ==
    ASSUME Expect \in [Int -> Int]
    PROVE  Spec => []TypeOK
<1>1. Init => TypeOK
  <2>1. SUFFICES ASSUME Init PROVE TypeOK
    OBVIOUS
  <2>2. history \in Seq([subject : Subjects, game : Games, before : Int, after : Int])
    BY <2>1 DEF Init
  <2> QED
    BY <2>1, <2>2, RatingAssumption DEF Init, TypeOK
<1>2. ASSUME TypeOK, [Next]_vars PROVE TypeOK'
  <2>1. ASSUME NEW g \in Games, NEW r \in Results, Settle(g, r) PROVE TypeOK'
    <3>1. SettleRatings(g, r)
      BY <2>1 DEF Settle
    <3>2. /\ rating' \in [Subjects -> Int] /\ \A p \in Subjects : rating'[p] >= Floor
          /\ rated' \in [Subjects -> Nat]
          /\ history' \in Seq([subject : Subjects, game : Games, before : Int, after : Int])
      BY <1>2, <3>1, SettlingIsWhole
    <3>3. \A h \in Games : result'[h] = NoResult \/ result'[h] \in Results
      BY <1>2, <2>1 DEF Settle, TypeOK
    <3>4. {kept', open', dropping', resaved'} \subseteq SUBSET Games
      BY <1>2, <2>1 DEF Settle, TypeOK
    <3> QED
      BY <3>2, <3>3, <3>4 DEF TypeOK
  <2>2. ASSUME NEW g \in Games, Resave(g) PROVE TypeOK'
    <3>1. SettleRatings(g, result[g])
      BY <2>2 DEF Resave
    <3>2. /\ rating' \in [Subjects -> Int] /\ \A p \in Subjects : rating'[p] >= Floor
          /\ rated' \in [Subjects -> Nat]
          /\ history' \in Seq([subject : Subjects, game : Games, before : Int, after : Int])
      BY <1>2, <3>1, SettlingIsWhole
    <3>3. {kept', open', dropping', resaved'} \subseteq SUBSET Games
      BY <1>2, <2>2 DEF Resave, TypeOK
    <3> QED
      BY <1>2, <2>2, <3>2, <3>3 DEF Resave, TypeOK
  <2>3. ASSUME NEW g \in Games, DropRow(g) PROVE TypeOK'
    BY <1>2, <2>3 DEF DropRow, RowDeleted, TypeOK
  <2>4. ASSUME NEW g \in Games, DropSession(g) PROVE TypeOK'
    BY <1>2, <2>4 DEF DropSession, TypeOK
  <2>5. ASSUME NEW g \in Games, Sweep(g) PROVE TypeOK'
    BY <1>2, <2>5 DEF Sweep, RowDeleted, TypeOK
  <2>6. CASE UNCHANGED vars
    BY <1>2, <2>6 DEF vars, TypeOK
  <2> QED
    BY <1>2, <2>1, <2>2, <2>3, <2>4, <2>5, <2>6 DEF Next
<1>3. TypeOK /\ [Next]_vars => TypeOK'
  BY <1>2
<1> QED
  BY <1>1, <1>3, PTL DEF Spec

\* RATE-3 (see AsIfNeverInTheGame), for any table of seats, any ratings and any
\* way the others left: the step is that of a game of two.
THEOREM LeaversAreNoPart ==
    ASSUME Expect \in [Int -> Int]
    PROVE  Spec => AsIfNeverInTheGame
<1>1. ASSUME IInv, TypeOK, [Next]_vars, NEW g \in Games, NEW s \in Seats, NEW t \in Seats,
             Settling(g), Level(g), Rates(result'[g]), Ranked(result'[g]) = {s, t},
             Holder[g][s] # Holder[g][t], Ahead(result'[g], s, t)
      PROVE  Gain(Holder[g][s]) = K * (Win - Expect[0])
  <2>1. PICK r \in Results : Settle(g, r)
    <3>1. result[g] = NoResult /\ result'[g] # NoResult
      BY <1>1 DEF Settling
    <3>2. ASSUME NEW h \in Games, NEW r \in Results, Settle(h, r) PROVE h = g
      BY <1>1, <3>1, <3>2 DEF Settle, TypeOK
    <3>3. ASSUME NEW h \in Games, Resave(h) \/ DropRow(h) \/ DropSession(h) \/ Sweep(h)
          PROVE  FALSE
      BY <3>1, <3>3 DEF Resave, DropRow, DropSession, Sweep
    <3>4. result' # result
      BY <3>1
    <3> QED
      BY <1>1, <3>2, <3>3, <3>4 DEF Next, vars
  <2>2. result'[g] = r /\ SettleRatings(g, r)
    BY <1>1, <2>1 DEF Settle, IInv
  <2>3. Whole
    BY <1>1 DEF Whole, TypeOK
  <2>4. PICK p \in Subjects, q \in Subjects : p = Holder[g][s] /\ q = Holder[g][t] /\ p # q
    BY <1>1, HolderAssumption
  <2>5. /\ Rates(r) /\ Ranked(r) = {s, t} /\ s # t /\ rating[p] = rating[q]
        /\ Ahead(r, s, t)
    BY <1>1, <2>2, <2>4 DEF Level
  <2>6. SeatsOf(g, r, p) = {s} /\ p \in Moves(g, r)
    BY <2>4, <2>5 DEF SeatsOf, Moves
  <2>7. KStep(r) = K
    <3>1. Cardinality({s, t}) = 2
      <4>1. IsFiniteSet({s}) /\ Cardinality({s}) = 1 /\ t \notin {s}
        BY <2>5, FS_Singleton
      <4>2. Cardinality({s} \cup {t}) = Cardinality({s}) + 1
        BY <4>1, FS_AddElement
      <4>3. {s} \cup {t} = {s, t}
        OBVIOUS
      <4> QED
        BY <4>1, <4>2, <4>3
    <3>2. K \div (2 - 1) = K
      BY RatingAssumption
    <3> QED
      BY <2>5, <3>1, <3>2 DEF KStep
  <2>8. SeatChange(g, r, s) = K * (Win - Expect[0])
    <3>1. Ranked(r) \ {s} = {t} /\ s \in Ranked(r)
      BY <2>5
    <3>2. SeatChange(g, r, s) = KStep(r) * (Share(r, s, t) - Expect[rating[p] - rating[q]])
      BY <2>3, <2>4, <2>5, <3>1, SeatChangeIs
    <3>3. rating[p] - rating[q] = 0
      BY <2>3, <2>5 DEF Whole
    <3>4. Share(r, s, t) = Win
      BY <2>5 DEF Share
    <3> QED
      BY <2>7, <3>2, <3>3, <3>4
  <2>9. NetChange(g, r, p) = K * (Win - Expect[0])
    BY <2>3, <2>5, <2>6, <2>8, NetChangeIs
  <2>10. PICK gain \in Nat : gain = K * (Win - Expect[0])
    <3>1. PICK e \in Int : e = Expect[0]
      BY <2>3 DEF Whole
    <3>2. 0 \in DOMAIN Expect
      BY <2>3 DEF Whole
    <3>3. e + e = Win
      <4>1. PICK z \in Int : z = 0 /\ -z = z
        OBVIOUS
      <4>2. Expect[z] + Expect[-z] = Win
        BY <3>2, <4>1, RatingAssumption
      <4> QED
        BY <3>1, <4>1, <4>2
    <3>4. Win - e \in Nat
      BY <3>3, RatingAssumption
    <3> QED
      BY <3>1, <3>4, RatingAssumption
  <2>11. rating[p] \in Int /\ rating[p] + gain >= Floor
    <3>1. rating[p] \in Int /\ rating[p] >= Floor /\ Floor \in Int
      BY <1>1, <2>4, RatingAssumption DEF TypeOK
    <3> QED
      BY <2>10, <3>1
  <2>12. After(g, r, p) = rating[p] + gain
    BY <2>3, <2>5, <2>9, <2>10, <2>11, AfterIs
  <2>13. rating'[p] = rating[p] + gain
    BY <2>2, <2>6, <2>12 DEF SettleRatings
  <2> QED
    BY <2>4, <2>10, <2>11, <2>13 DEF Gain
<1>2. IInv /\ TypeOK /\ [Next]_vars =>
        [\A g \in Games, s, t \in Seats :
            Settling(g) /\ Level(g) /\ Rates(result'[g])
            /\ Ranked(result'[g]) = {s, t} /\ Holder[g][s] # Holder[g][t]
            /\ Ahead(result'[g], s, t) /\ rating'[Holder[g][t]] > Floor
              => Gain(Holder[g][s]) = K * (Win - Expect[0])]_vars
  BY <1>1
<1> QED
  BY <1>2, Consistent, TypeCorrect, PTL DEF Spec, AsIfNeverInTheGame
=============================================================================
