---------------------------- MODULE Rules_proofs ----------------------------
(* Theorems about Rules, for any board, alphabet, word list and tiles;     *)
(* about its dictionary, for any list that from_encoded takes, any widths  *)
(* of the packed fields and any sizes at which the search changes; and     *)
(* about the machine player, for any rack and greylist.                    *)
EXTENDS Engine, FiniteSetTheorems, SequenceTheorems, WellFoundedInduction, TLAPS

Squares == Int \X Int

-----------------------------------------------------------------------------
(* Steps along a line, and how far an unbroken run of them goes.           *)

LEMMA Steps ==
    ASSUME NEW p \in Squares, NEW d, NEW j \in Int, NEW k \in Int
    PROVE  /\ Step(p, d, j) \in Squares
           /\ Step(Step(p, d, j), d, k) = Step(p, d, j + k)
           /\ Step(p, d, 0) = p
           /\ Step(p, d, j) = p => j = 0
  BY DEF Squares, Step

LEMMA CellsAreSquares == Cells \subseteq Squares
  BY RulesAssumption DEF Cells, Squares

LEMMA OffsetsAre == \E m \in Nat : Offsets = 0 .. m
<1>1. Width \in Nat \ {0} /\ Height \in Nat \ {0}
  BY RulesAssumption
<1> QED
  BY <1>1 DEF Offsets

LEMMA LeastExists ==
    ASSUME NEW T, T \subseteq Nat, T # {}
    PROVE  \E i \in T : \A j \in T : i <= j
<1>1. PICK i \in T : \A j \in T : <<j, i>> \notin OpToRel(<, Nat)
  BY NatLessThanWellFounded, WFMin
<1>2. \A j \in T : ~(j < i)
  BY <1>1 DEF OpToRel
<1> QED
  BY <1>2

LEMMA GreatestIs ==
    ASSUME NEW m \in Nat, NEW T, T \subseteq 0 .. m, T # {}
    PROVE  Max(T) \in T /\ \A j \in T : Max(T) >= j
<1> DEFINE left == {m - i : i \in T}
<1>1. left \subseteq Nat /\ left # {}
  <2>1. \A i \in T : m - i \in Nat
    OBVIOUS
  <2> QED
    BY <2>1
<1>2. PICK k \in left : \A j \in left : k <= j
  <2> HIDE DEF left
  <2> QED
    BY <1>1, LeastExists
<1>3. PICK i \in T : k = m - i
  OBVIOUS
<1>4. \A j \in T : m - i <= m - j
  BY <1>2, <1>3
<1>5. \A j \in T : i >= j
  BY <1>4
<1> QED
  BY <1>5 DEF Max

\* How many of 1, 2, 3, ... there are in a set, up to the longest line.
Reach(F) == Max({n \in Offsets : \A i \in 1 .. n : i \in F})

LEMMA ReachIs ==
    ASSUME NEW F
    PROVE  /\ Reach(F) \in Offsets /\ Reach(F) \in Nat
           /\ \A i \in 1 .. Reach(F) : i \in F
           /\ \A n \in Offsets : (\A i \in 1 .. n : i \in F) => n <= Reach(F)
<1>1. PICK m \in Nat : Offsets = 0 .. m
  BY OffsetsAre
<1> DEFINE S == {n \in Offsets : \A i \in 1 .. n : i \in F}
<1>2. 0 \in S /\ S \subseteq 0 .. m
  BY <1>1
<1>3. Max(S) \in S /\ \A j \in S : Max(S) >= j
  <2> HIDE DEF S
  <2> QED
    BY <1>2, GreatestIs
<1> QED
  BY <1>1, <1>3 DEF Reach

\* A run that stops before a number goes as far as the one before it.
LEMMA ReachUpTo ==
    ASSUME NEW F, NEW n \in Offsets, \A i \in 1 .. n : i \in F, n + 1 \notin F
    PROVE  Reach(F) = n
<1>1. /\ Reach(F) \in Nat /\ \A i \in 1 .. Reach(F) : i \in F /\ n <= Reach(F)
      /\ n <= Reach(F) /\ n \in Nat
  <2>1. n \in Nat
    BY OffsetsAre
  <2> QED
    BY <2>1, ReachIs
<1>2. ~ (n + 1 \in 1 .. Reach(F))
  BY <1>1
<1> QED
  BY <1>1, <1>2

\* What lies in the run of the greater of two sets decides.
LEMMA ReachWithin ==
    ASSUME NEW F, NEW G, F \subseteq G, \A i \in 1 .. Reach(G) : i \in F
    PROVE  Reach(F) = Reach(G)
<1>1. /\ Reach(F) \in Nat /\ Reach(F) \in Offsets /\ Reach(G) \in Nat /\ Reach(G) \in Offsets
      /\ \A i \in 1 .. Reach(F) : i \in F
  BY ReachIs
<1>2. Reach(G) <= Reach(F)
  BY <1>1, ReachIs
<1>3. Reach(F) <= Reach(G)
  BY <1>1, ReachIs
<1> QED
  BY <1>1, <1>2, <1>3

-----------------------------------------------------------------------------
(* The tiles before and after a square.                                    *)

Ahead(b, p, d) == {i \in Nat : Filled(b, Step(p, d, i))}
Behind(b, p, d) == {i \in Nat : Filled(b, Step(p, d, -i))}

LEMMA RunsAre ==
    ASSUME NEW b, NEW p, NEW d
    PROVE  /\ After(b, p, d) = Reach(Ahead(b, p, d))
           /\ Before(b, p, d) = Reach(Behind(b, p, d))
<1>1. \A n \in Offsets : 1 .. n \subseteq Nat
  BY OffsetsAre
<1>2. {n \in Offsets : \A i \in 1 .. n : Filled(b, Step(p, d, i))}
        = {n \in Offsets : \A i \in 1 .. n : i \in Ahead(b, p, d)}
  BY <1>1 DEF Ahead
<1>3. {n \in Offsets : \A i \in 1 .. n : Filled(b, Step(p, d, -i))}
        = {n \in Offsets : \A i \in 1 .. n : i \in Behind(b, p, d)}
  BY <1>1 DEF Behind
<1> QED
  BY <1>2, <1>3 DEF After, Before, Reach

\* Tiles have been placed on free squares.
Grown(b, after, placed) ==
    /\ placed \subseteq Cells
    /\ \A q \in placed : b[q] = Free
    /\ \A q \in Cells \ placed : after[q] = b[q]

\* A free square with a new tile in a run beside it ends the run of that tile.
LEMMA NewTileEnds ==
    ASSUME NEW b, NEW p \in Cells, ~Filled(b, p), NEW d,
           NEW k \in 1 .. After(b, p, d)
    PROVE  p \in RunEnds(b, Step(p, d, k), d)
<1> PICK q : q = Step(p, d, k)
  OBVIOUS
<1>1. /\ After(b, p, d) \in Nat /\ After(b, p, d) \in Offsets /\ p \in Squares
      /\ \A i \in 1 .. After(b, p, d) : Filled(b, Step(p, d, i))
  <2>1. PICK F : F = Ahead(b, p, d)
    OBVIOUS
  <2>2. After(b, p, d) = Reach(F)
    BY <2>1, RunsAre
  <2>3. /\ Reach(F) \in Nat /\ Reach(F) \in Offsets
        /\ \A i \in 1 .. Reach(F) : i \in F
    BY ReachIs
  <2>4. \A i \in F : Filled(b, Step(p, d, i))
    BY <2>1 DEF Ahead
  <2> QED
    BY <2>2, <2>3, <2>4, CellsAreSquares
<1>2. \A i \in Nat : Step(q, d, -i) = Step(p, d, k - i)
  BY <1>1, Steps
<1>3. k - 1 \in Offsets /\ k - 1 \in Nat
  BY <1>1, OffsetsAre
<1>4. \A i \in 1 .. k - 1 : i \in Behind(b, q, d)
  BY <1>1, <1>2, <1>3 DEF Behind
<1>5. (k - 1) + 1 \notin Behind(b, q, d)
  <2>1. Step(q, d, -k) = p
    BY <1>1, <1>2, Steps
  <2> QED
    BY <2>1 DEF Behind
<1>6. Before(b, q, d) = k - 1
  <2>1. PICK F : F = Behind(b, q, d)
    OBVIOUS
  <2>2. PICK n \in Offsets : n = k - 1
    BY <1>3
  <2>3. (\A i \in 1 .. n : i \in F) /\ n + 1 \notin F
    BY <1>4, <1>5, <2>1, <2>2
  <2>4. Reach(F) = n
    BY <2>3, ReachUpTo
  <2> QED
    BY <2>1, <2>2, <2>4, RunsAre
<1>7. Step(q, d, -Before(b, q, d) - 1) = p
  BY <1>1, <1>2, <1>6, Steps
<1> QED
  BY <1>7 DEF RunEnds

LEMMA NewTileBegins ==
    ASSUME NEW b, NEW p \in Cells, ~Filled(b, p), NEW d,
           NEW k \in 1 .. Before(b, p, d)
    PROVE  p \in RunEnds(b, Step(p, d, -k), d)
<1> PICK q : q = Step(p, d, -k)
  OBVIOUS
<1>1. /\ Before(b, p, d) \in Nat /\ Before(b, p, d) \in Offsets /\ p \in Squares
      /\ \A i \in 1 .. Before(b, p, d) : Filled(b, Step(p, d, -i))
  <2>1. PICK F : F = Behind(b, p, d)
    OBVIOUS
  <2>2. Before(b, p, d) = Reach(F)
    BY <2>1, RunsAre
  <2>3. /\ Reach(F) \in Nat /\ Reach(F) \in Offsets
        /\ \A i \in 1 .. Reach(F) : i \in F
    BY ReachIs
  <2>4. \A i \in F : Filled(b, Step(p, d, -i))
    BY <2>1 DEF Behind
  <2> QED
    BY <2>2, <2>3, <2>4, CellsAreSquares
<1>2. \A i \in Nat : Step(q, d, i) = Step(p, d, -(k - i))
  BY <1>1, Steps
<1>3. k - 1 \in Offsets /\ k - 1 \in Nat
  BY <1>1, OffsetsAre
<1>4. \A i \in 1 .. k - 1 : i \in Ahead(b, q, d)
  BY <1>1, <1>2, <1>3 DEF Ahead
<1>5. (k - 1) + 1 \notin Ahead(b, q, d)
  <2>1. Step(q, d, k) = p
    BY <1>1, <1>2, Steps
  <2> QED
    BY <2>1 DEF Ahead
<1>6. After(b, q, d) = k - 1
  <2>1. PICK F : F = Ahead(b, q, d)
    OBVIOUS
  <2>2. PICK n \in Offsets : n = k - 1
    BY <1>3
  <2>3. (\A i \in 1 .. n : i \in F) /\ n + 1 \notin F
    BY <1>4, <1>5, <2>1, <2>2
  <2>4. Reach(F) = n
    BY <2>3, ReachUpTo
  <2> QED
    BY <2>1, <2>2, <2>4, RunsAre
<1>7. Step(q, d, After(b, q, d) + 1) = p
  BY <1>1, <1>2, <1>6, Steps
<1> QED
  BY <1>7 DEF RunEnds

\* A free square that ends no run of a new tile keeps the tiles beside it.
LEMMA RunsStay ==
    ASSUME NEW b, NEW after, NEW placed, Grown(b, after, placed),
           NEW p \in Cells, after[p] = Free, NEW d,
           \A q \in placed : p \notin RunEnds(after, q, d)
    PROVE  /\ After(after, p, d) = After(b, p, d)
           /\ Before(after, p, d) = Before(b, p, d)
           /\ After(b, p, d) \in Nat /\ Before(b, p, d) \in Nat
           /\ \A k \in -Before(b, p, d) .. After(b, p, d) :
                 k # 0 => after[Step(p, d, k)] = b[Step(p, d, k)]
<1>1. ~Filled(after, p) /\ \A x : Filled(b, x) => Filled(after, x)
  BY DEF Filled, Grown
<1>2. \A x : Filled(after, x) /\ x \notin placed => Filled(b, x) /\ after[x] = b[x]
  BY DEF Filled, Grown
<1>3. ASSUME NEW k \in 1 .. After(after, p, d)
      PROVE  Filled(after, Step(p, d, k)) /\ Step(p, d, k) \notin placed
  <2>1. p \in RunEnds(after, Step(p, d, k), d)
    BY <1>1, NewTileEnds
  <2>2. PICK G : G = Ahead(after, p, d)
    OBVIOUS
  <2>3. k \in G
    BY <2>2, RunsAre, ReachIs
  <2> QED
    BY <2>1, <2>2, <2>3 DEF Ahead
<1>4. ASSUME NEW k \in 1 .. Before(after, p, d)
      PROVE  Filled(after, Step(p, d, -k)) /\ Step(p, d, -k) \notin placed
  <2>1. p \in RunEnds(after, Step(p, d, -k), d)
    BY <1>1, NewTileBegins
  <2>2. PICK G : G = Behind(after, p, d)
    OBVIOUS
  <2>3. k \in G
    BY <2>2, RunsAre, ReachIs
  <2> QED
    BY <2>1, <2>2, <2>3 DEF Behind
<1>5. After(after, p, d) = After(b, p, d) /\ After(b, p, d) \in Nat
  <2>1. PICK F : F = Ahead(b, p, d)
    OBVIOUS
  <2>2. PICK G : G = Ahead(after, p, d)
    OBVIOUS
  <2>3. After(b, p, d) = Reach(F) /\ After(after, p, d) = Reach(G)
    BY <2>1, <2>2, RunsAre
  <2>4. F \subseteq G
    BY <1>1, <2>1, <2>2 DEF Ahead
  <2>5. \A i \in 1 .. Reach(G) : i \in F
    <3>1. Reach(G) \in Nat
      BY ReachIs
    <3> QED
      BY <1>2, <1>3, <2>1, <2>3, <3>1 DEF Ahead
  <2> QED
    BY <2>3, <2>4, <2>5, ReachWithin, ReachIs
<1>6. Before(after, p, d) = Before(b, p, d) /\ Before(b, p, d) \in Nat
  <2>1. PICK F : F = Behind(b, p, d)
    OBVIOUS
  <2>2. PICK G : G = Behind(after, p, d)
    OBVIOUS
  <2>3. Before(b, p, d) = Reach(F) /\ Before(after, p, d) = Reach(G)
    BY <2>1, <2>2, RunsAre
  <2>4. F \subseteq G
    BY <1>1, <2>1, <2>2 DEF Behind
  <2>5. \A i \in 1 .. Reach(G) : i \in F
    <3>1. Reach(G) \in Nat
      BY ReachIs
    <3> QED
      BY <1>2, <1>4, <2>1, <2>3, <3>1 DEF Behind
  <2> QED
    BY <2>3, <2>4, <2>5, ReachWithin, ReachIs
<1>7. ASSUME NEW k \in -Before(b, p, d) .. After(b, p, d), k # 0
      PROVE  after[Step(p, d, k)] = b[Step(p, d, k)]
  <2>1. CASE k > 0
    BY <1>2, <1>3, <1>5, <1>6, <1>7, <2>1
  <2>2. CASE k < 0
    <3>1. PICK j \in 1 .. Before(after, p, d) : k = -j
      <4>1. -k \in 1 .. Before(after, p, d) /\ k = -(-k)
        BY <1>5, <1>6, <1>7, <2>2
      <4> QED
        BY <4>1
    <3> QED
      BY <1>2, <1>4, <3>1
  <2> QED
    BY <1>5, <1>6, <1>7, <2>1, <2>2
<1> QED
  BY <1>5, <1>6, <1>7

-----------------------------------------------------------------------------
(* The cross-checks.                                                       *)

\* A check is made of the tiles in line with the square.
CheckOf(p, free, others, allowed, around) ==
    IF ~free \/ others = {} THEN Unconstrained
    ELSE [constrained |-> TRUE,
          allowed |-> allowed,
          scores |-> [l \in Letters |->
                         IF l \in allowed
                         THEN (around + Value[l] * LetterPremium[p]) * WordPremium[p]
                         ELSE 0],
          blankScore |-> around * WordPremium[p]]

LEMMA CrossCheckIs ==
    ASSUME NEW b, NEW p, NEW d
    PROVE  LET e == Perpendicular(d)
           IN  CrossCheck(b, p, d) =
                 CheckOf(p, ~Filled(b, p), Run(b, p, e) \ {p},
                         AllowedLetters(WordList, LettersBefore(b, p, e), LettersAfter(b, p, e)),
                         Total([q \in Run(b, p, e) \ {p} |-> Worth(b[q])]))
  BY Zenon DEF CrossCheck, CheckOf

LEMMA CrossChecksStay ==
    ASSUME NEW b, NEW after, NEW placed, Grown(b, after, placed),
           NEW p \in Cells, after[p] = Free, NEW d,
           \A q \in placed : p \notin RunEnds(after, q, Perpendicular(d))
    PROVE  CrossCheck(after, p, d) = CrossCheck(b, p, d)
<1> PICK e : e = Perpendicular(d)
  OBVIOUS
<1> PICK n : n = Before(b, p, e)
  OBVIOUS
<1> PICK m : m = After(b, p, e)
  OBVIOUS
<1>1. /\ n \in Nat /\ m \in Nat
      /\ After(after, p, e) = m /\ Before(after, p, e) = n
      /\ \A k \in -n .. m : k # 0 => after[Step(p, e, k)] = b[Step(p, e, k)]
  BY RunsStay
<1>2. Run(after, p, e) = Run(b, p, e)
  BY <1>1 DEF Run
<1>3. \A q \in Run(b, p, e) \ {p} : after[q] = b[q]
  <2>1. \A k \in -n .. m : Step(p, e, k) # p => k # 0
    BY <1>1, CellsAreSquares, Steps
  <2> QED
    BY <1>1, <2>1 DEF Run
<1>4. [q \in Run(after, p, e) \ {p} |-> Worth(after[q])]
        = [q \in Run(b, p, e) \ {p} |-> Worth(b[q])]
  BY <1>2, <1>3
<1>5. LettersBefore(after, p, e) = LettersBefore(b, p, e)
  <2>1. \A i \in 1 .. n : i - n - 1 \in -n .. m /\ i - n - 1 # 0
    BY <1>1
  <2>2. \A i \in 1 .. n : after[Step(p, e, i - n - 1)].letter = b[Step(p, e, i - n - 1)].letter
    BY <1>1, <2>1
  <2>3. /\ LettersBefore(after, p, e) = [i \in 1 .. n |-> after[Step(p, e, i - n - 1)].letter]
        /\ LettersBefore(b, p, e) = [i \in 1 .. n |-> b[Step(p, e, i - n - 1)].letter]
    <3>1. \A f : LettersBefore(f, p, e) = [i \in 1 .. Before(f, p, e) |->
                                              f[Step(p, e, i - Before(f, p, e) - 1)].letter]
      BY DEF LettersBefore
    <3> QED
      BY <1>1, <3>1
  <2> QED
    BY <2>2, <2>3
<1>6. LettersAfter(after, p, e) = LettersAfter(b, p, e)
  <2>1. \A i \in 1 .. m : i \in -n .. m /\ i # 0
    BY <1>1
  <2>2. \A i \in 1 .. m : after[Step(p, e, i)].letter = b[Step(p, e, i)].letter
    BY <1>1, <2>1
  <2> QED
    BY <1>1, <2>2 DEF LettersAfter
<1>7. Filled(after, p) = Filled(b, p)
  BY DEF Filled, Grown
<1>8. /\ CrossCheck(after, p, d) =
           CheckOf(p, ~Filled(after, p), Run(after, p, e) \ {p},
                   AllowedLetters(WordList, LettersBefore(after, p, e), LettersAfter(after, p, e)),
                   Total([q \in Run(after, p, e) \ {p} |-> Worth(after[q])]))
      /\ CrossCheck(b, p, d) =
           CheckOf(p, ~Filled(b, p), Run(b, p, e) \ {p},
                   AllowedLetters(WordList, LettersBefore(b, p, e), LettersAfter(b, p, e)),
                   Total([q \in Run(b, p, e) \ {p} |-> Worth(b[q])]))
  BY CrossCheckIs
<1> QED
  BY <1>2, <1>4, <1>5, <1>6, <1>7, <1>8, Zenon

-----------------------------------------------------------------------------
(* The cache of a game.                                                    *)

LEMMA PlayKeeps ==
    ASSUME CacheIsExact, NEW c, Play(c)
    PROVE  CacheIsExact'
<1> PICK b : b = board'
  OBVIOUS
<1>1. Grown(board, b, Placed(c))
  BY DEF Play, Valid, OnFreeSquares, Filling, OnBoard, Filled, Here, Grown
<1>2. ASSUME NEW p \in Cells, b[p] = Free, NEW d \in Directions
      PROVE  cross'[p][d] = CrossCheck(b, p, d)
  <2>1. cross'[p][d] = IF \E q \in Placed(c) : p \in RunEnds(b, q, Perpendicular(d))
                       THEN CrossCheck(b, p, d) ELSE cross[p][d]
    BY Zenon DEF Play, CrossNear
  <2>2. CASE \E q \in Placed(c) : p \in RunEnds(b, q, Perpendicular(d))
    BY <2>1, <2>2
  <2>3. CASE ~ \E q \in Placed(c) : p \in RunEnds(b, q, Perpendicular(d))
    <3>1. CrossCheck(b, p, d) = CrossCheck(board, p, d)
      BY <1>1, <1>2, <2>3, CrossChecksStay
    <3>2. board[p] = Free
      BY <1>1, <1>2 DEF Grown
    <3> QED
      BY <2>1, <2>3, <3>1, <3>2 DEF CacheIsExact
  <2> QED
    BY <2>2, <2>3
<1> QED
  BY <1>2 DEF CacheIsExact

\* Whatever is played and however often the game is loaded again, the cache has
\* for every free square what a sweep of the whole board would put there, though
\* a move only recomputes the ends of its own runs (recompute_cross_checks_near).
THEOREM CachesAreExact == Spec => []CacheIsExact
<1>1. Init => CacheIsExact
  BY DEF Init, CrossChecks, CacheIsExact
<1>2. CacheIsExact /\ [Next]_vars => CacheIsExact'
  <2>1. SUFFICES ASSUME CacheIsExact, [Next]_vars PROVE CacheIsExact'
    OBVIOUS
  <2>2. CASE PlaceTiles
    BY <2>1, <2>2, PlayKeeps DEF PlaceTiles
  <2>3. CASE Reload
    BY <2>3 DEF Reload, CrossChecks, CacheIsExact
  <2>4. CASE UNCHANGED vars
    BY <2>1, <2>4 DEF vars, CacheIsExact
  <2> QED
    BY <2>1, <2>2, <2>3, <2>4 DEF Next
<1> QED
  BY <1>1, <1>2, PTL DEF Spec

-----------------------------------------------------------------------------
(* What travels arrives as it was sent.                                    *)

LEMMA QuotientIs ==
    ASSUME NEW w \in Nat \ {0}, NEW x \in 0 .. w - 1, NEW y \in Nat
    PROVE  (y * w + x) % w = x /\ (y * w + x) \div w = y
<1> PICK a \in Nat : a = y * w + x
  <2>1. y * w \in Nat
    OBVIOUS
  <2> QED
    BY <2>1
<1>1. PICK q \in Int : q = a \div w
  OBVIOUS
<1>2. PICK r \in 0 .. w - 1 : r = a % w
  OBVIOUS
<1>3. a = w * q + r
  BY <1>1, <1>2
<1>4. w * (q - y) = x - r
  BY <1>3
<1>5. q = y
  <2>1. CASE q - y >= 1
    <3>1. w * (q - y) >= w
      BY <2>1
    <3> QED
      BY <1>4, <3>1
  <2>2. CASE y - q >= 1
    <3>1. w * (y - q) >= w
      BY <2>2
    <3>2. w * (y - q) = r - x
      BY <1>4
    <3> QED
      BY <3>1, <3>2
  <2> QED
    BY <2>1, <2>2
<1> QED
  BY <1>1, <1>2, <1>4, <1>5

\* A letter's characters name it.
LEMMA LettersTravel ==
    ASSUME NEW l \in Letters
    PROVE  ToLetter(Text(l)) = l /\ Text(l) # NoText
<1>1. PICK j \in DOMAIN Alphabet : Alphabet[j] = l
  BY DEF Letters, Range
<1>2. \A i \in DOMAIN Alphabet : Grapheme[Alphabet[i]] = Text(l) => i = j
  <2>1. \A i \in DOMAIN Alphabet : Alphabet[i] \in DOMAIN Grapheme
    BY LexiconAssumption DEF Letters, Range
  <2> QED
    BY <1>1, <2>1, LexiconAssumption DEF IsInjective, Text
<1>3. {i \in DOMAIN Alphabet : Grapheme[Alphabet[i]] = Text(l)} = {j}
  BY <1>1, <1>2 DEF Text
<1>4. Min({j}) = j
  BY DEF Min
<1>5. Len(Text(l)) \in {1, 2}
  BY LexiconAssumption DEF Text
<1>6. ToLetter(Text(l)) = Alphabet[Min({j})]
  BY <1>3, Zenon DEF ToLetter
<1>7. Text(l) # NoText
  <2>1. Len(NoText) = 0
    BY DEF NoText
  <2> QED
    BY <1>5, <2>1
<1> QED
  BY <1>1, <1>4, <1>6, <1>7

\* Any tile with a letter, and any move, with whichever tiles; those that are
\* tried are among them.
AnyTile == [letter : Letters, blank : BOOLEAN]
Moves ==
    {[start |-> s, direction |-> d, tiles |-> t] :
        s \in Cells, d \in Directions,
        t \in UNION {[O -> AnyTile] : O \in (SUBSET Offsets) \ {{}}}}

LEMMA CandidatesAreMoves == Candidates \subseteq Moves
<1>1. Tiles \subseteq AnyTile
  BY RulesAssumption DEF AnyTile
<1>2. \A O : [O -> Tiles] \subseteq [O -> AnyTile]
  BY <1>1
<1>3. SUFFICES ASSUME NEW c \in Candidates PROVE c \in Moves
  OBVIOUS
<1>4. PICK s, d, O, t :
        /\ s \in Cells /\ d \in Directions
        /\ O \in (SUBSET Offsets) \ {{}} /\ t \in [O -> Tiles]
        /\ c = [start |-> s, direction |-> d, tiles |-> t]
  BY <1>3 DEF Candidates
<1>5. t \in [O -> AnyTile]
  BY <1>2, <1>4
<1> QED
  BY <1>4, <1>5 DEF Moves

\* So a tile, a move and a board arrive unchanged.
LEMMA TilesTravel ==
    ASSUME NEW tile \in AnyTile
    PROVE  TileFromDto(TileDto(tile)) = tile
<1>1. tile \in [letter : Letters, blank : BOOLEAN]
  BY DEF AnyTile
<1>2. ToLetter(Text(tile.letter)) = tile.letter
  BY <1>1, LettersTravel
<1> QED
  BY <1>1, <1>2 DEF TileFromDto, TileDto

LEMMA MovesTravel ==
    ASSUME NEW c \in Moves
    PROVE  CandidateFromDto(CandidateDto(c)) = c
<1>1. PICK s, d, O, t : /\ c = [start |-> s, direction |-> d, tiles |-> t]
                       /\ t \in [O -> AnyTile]
  BY DEF Moves
<1>2. PICK u : u = [o \in O |-> TileDto(t[o])]
  OBVIOUS
<1>3. CandidateDto(c) = [start |-> s, direction |-> d, tiles |-> u]
  BY <1>1, <1>2 DEF CandidateDto
<1>4. [o \in DOMAIN u |-> TileFromDto(u[o])] = t
  <2>1. \A o \in O : TileFromDto(u[o]) = t[o]
    BY <1>1, <1>2, TilesTravel
  <2> QED
    BY <1>1, <1>2, <2>1
<1>5. CandidateFromDto(CandidateDto(c))
        = [start |-> s, direction |-> d, tiles |-> [o \in DOMAIN u |-> TileFromDto(u[o])]]
  BY <1>3 DEF CandidateFromDto
<1> QED
  BY <1>1, <1>4, <1>5

Boards == [Cells -> AnyTile \cup {Free}]

LEMMA BoardsTravel ==
    ASSUME NEW b \in Boards
    PROVE  BoardFromDto(BoardDto(b)) = b
<1>1. ASSUME NEW p \in Cells PROVE BoardFromDto(BoardDto(b))[p] = b[p]
  <2>1. /\ Width \in Nat \ {0} /\ Height \in Nat \ {0}
        /\ p[1] \in 0 .. Width - 1 /\ p[2] \in 0 .. Height - 1 /\ p = <<p[1], p[2]>>
    BY RulesAssumption DEF Cells
  <2>2. PICK x \in 0 .. Width - 1, y \in 0 .. Height - 1 : p = <<x, y>>
    BY <2>1
  <2>3. PICK i \in 1 .. Width * Height : i = y * Width + x + 1
    <3>1. y * Width \in Nat /\ y * Width <= (Height - 1) * Width
      BY <2>1
    <3>2. (Height - 1) * Width = Width * Height - Width
      BY <2>1
    <3> QED
      BY <2>1, <3>1, <3>2
  <2>4. (i - 1) % Width = x /\ (i - 1) \div Width = y
    <3>1. i - 1 = y * Width + x /\ y \in Nat
      BY <2>1, <2>3
    <3> QED
      BY <2>1, <3>1, QuotientIs
  <2>5. BoardDto(b)[i] = IF b[p] = Free THEN [text |-> NoText, blank |-> FALSE]
                         ELSE [text |-> Text(b[p].letter), blank |-> b[p].blank]
    BY <2>2, <2>4 DEF BoardDto
  <2>6. BoardFromDto(BoardDto(b))[p] =
          IF BoardDto(b)[i].text = NoText THEN Free
          ELSE [letter |-> ToLetter(BoardDto(b)[i].text), blank |-> BoardDto(b)[i].blank]
    BY <2>2, <2>3 DEF BoardFromDto
  <2>7. CASE b[p] = Free
    BY <2>5, <2>6, <2>7
  <2>8. CASE b[p] # Free
    <3>1. b[p] \in [letter : Letters, blank : BOOLEAN]
      BY <2>8 DEF Boards, AnyTile
    <3>2. ToLetter(Text(b[p].letter)) = b[p].letter /\ Text(b[p].letter) # NoText
      BY <3>1, LettersTravel
    <3> QED
      BY <2>5, <2>6, <2>8, <3>1, <3>2
  <2> QED
    BY <2>7, <2>8
<1>2. DOMAIN BoardFromDto(BoardDto(b)) = Cells
  BY DEF BoardFromDto
<1>3. BoardFromDto(BoardDto(b)) = [p \in Cells |-> BoardFromDto(BoardDto(b))[p]]
  BY DEF BoardFromDto
<1> QED
  BY <1>1, <1>3 DEF Boards

-----------------------------------------------------------------------------
(* What the client works out for itself.                                   *)

\* The same, but for the checks of squares that hold a tile.
LEMMA VerdictsAgree ==
    ASSUME NEW b, NEW anchors, NEW x, NEW y, NEW c, c.direction \in Directions,
           \A p \in Cells, d \in Directions : b[p] = Free => x[p][d] = y[p][d]
    PROVE  Verdict([board |-> b, cross |-> x, anchor |-> anchors], c)
             = Verdict([board |-> b, cross |-> y, anchor |-> anchors], c)
<1> PICK s : s = [board |-> b, cross |-> x, anchor |-> anchors]
  OBVIOUS
<1> PICK t : t = [board |-> b, cross |-> y, anchor |-> anchors]
  OBVIOUS
<1>1. s.board = b /\ t.board = b /\ s.cross = x /\ t.cross = y
      /\ s.anchor = anchors /\ t.anchor = anchors
  OBVIOUS
<1>2. /\ OnFreeSquares(s, c) <=> OnFreeSquares(t, c)
      /\ Connects(s, c) <=> Connects(t, c)
      /\ OpensLongEnough(s, c) <=> OpensLongEnough(t, c)
      /\ Solid(s, c) <=> Solid(t, c)
  BY <1>1, Zenon DEF OnFreeSquares, Connects, OpensLongEnough, Solid
<1>3. MainLength(s, c) = MainLength(t, c)
  BY <1>1, Zenon DEF MainLength
<1>4. \A i : MainCell(s, c, i) = MainCell(t, c, i)
  BY <1>1, Zenon DEF MainCell
<1>5. \A p : OnBoard(s, c, p) = OnBoard(t, c, p)
  BY <1>1, Zenon DEF OnBoard
<1>6. MainWord(s, c) = MainWord(t, c)
  <2>1. \A i : OnBoard(s, c, MainCell(s, c, i)) = OnBoard(t, c, MainCell(t, c, i))
    BY <1>4, <1>5
  <2>2. [i \in 1 .. MainLength(s, c) |-> OnBoard(s, c, MainCell(s, c, i)).letter]
          = [i \in 1 .. MainLength(t, c) |-> OnBoard(t, c, MainCell(t, c, i)).letter]
    BY <1>3, <2>1
  <2> QED
    BY <2>2 DEF MainWord
<1>7. ASSUME OnFreeSquares(s, c)
      PROVE  \A p \in Placed(c) : s.cross[p][c.direction] = t.cross[p][c.direction]
  BY <1>1, <1>7 DEF OnFreeSquares, Filled
<1>8. Valid(s, c) <=> Valid(t, c)
  <2>1. CASE OnFreeSquares(s, c)
    <3>1. (\A p \in Placed(c) : Allows(s.cross[p][c.direction], Laid(c)[p].letter))
            <=> (\A p \in Placed(c) : Allows(t.cross[p][c.direction], Laid(c)[p].letter))
      BY <1>7, <2>1
    <3> QED
      BY <1>2, <1>6, <3>1, Zenon DEF Valid
  <2>2. CASE ~OnFreeSquares(s, c)
    BY <1>2, <2>2 DEF Valid
  <2> QED
    BY <2>1, <2>2
<1>9. ASSUME OnFreeSquares(s, c) PROVE Score(s, c) = Score(t, c)
  <2>1. PICK f : f = [i \in 1 .. MainLength(s, c) |->
                         Worth(OnBoard(s, c, MainCell(s, c, i)))
                         * (IF MainCell(s, c, i) \in Placed(c)
                            THEN LetterPremium[MainCell(s, c, i)] ELSE 1)]
    OBVIOUS
  <2>2. f = [i \in 1 .. MainLength(t, c) |->
                Worth(OnBoard(t, c, MainCell(t, c, i)))
                * (IF MainCell(t, c, i) \in Placed(c)
                   THEN LetterPremium[MainCell(t, c, i)] ELSE 1)]
    <3>1. \A i : OnBoard(s, c, MainCell(s, c, i)) = OnBoard(t, c, MainCell(t, c, i))
      BY <1>4, <1>5
    <3> QED
      BY <1>3, <1>4, <2>1, <3>1
  <2>3. PICK g : g = [p \in Placed(c) |-> CrossScore(s.cross[p][c.direction], Laid(c)[p])]
    OBVIOUS
  <2>4. g = [p \in Placed(c) |-> CrossScore(t.cross[p][c.direction], Laid(c)[p])]
    BY <1>7, <1>9, <2>3
  <2>5. PICK v : v = Multiplied([p \in Placed(c) |-> WordPremium[p]])
    OBVIOUS
  <2>6. PICK bingo : bingo = IF Cardinality(Placed(c)) = RackSize THEN BingoBonus ELSE 0
    OBVIOUS
  <2>7. Score(s, c) = Total(f) * v + Total(g) + bingo
    BY <2>1, <2>3, <2>5, <2>6, Zenon DEF Score
  <2>8. Score(t, c) = Total(f) * v + Total(g) + bingo
    BY <2>2, <2>4, <2>5, <2>6, Zenon DEF Score
  <2> QED
    BY <2>7, <2>8
<1>10. Valid(s, c) => OnFreeSquares(s, c)
  BY DEF Valid
<1> QED
  BY <1>8, <1>9, <1>10 DEF Verdict

\* What compute_client_preview says of a move, on the board the client was sent,
\* is what the server says of it, with the cache it has kept up.
PreviewsAgree ==
    \A c \in Moves :
        Preview(ClientPosition(BoardDto(board)), CandidateDto(c)) = Verdict(Here, c)

IInv == board \in Boards /\ anchor = Anchors(board) /\ CacheIsExact

LEMMA TilesLaid ==
    ASSUME NEW c \in Moves, NEW p \in Placed(c)
    PROVE  Laid(c)[p] \in AnyTile
<1>1. PICK s, d, O, t : /\ c = [start |-> s, direction |-> d, tiles |-> t]
                        /\ t \in [O -> AnyTile]
  BY DEF Moves
<1>2. \E o \in DOMAIN c.tiles : At(c, o) = p
  BY DEF Placed
<1>3. PICK o \in DOMAIN c.tiles : Laid(c)[p] = c.tiles[o]
  BY <1>2 DEF Laid
<1> QED
  BY <1>1, <1>3

LEMMA FillingIs ==
    ASSUME board \in Boards, NEW c \in Moves
    PROVE  Filling(Here, c) \in Boards
<1>1. \A p \in Cells : OnBoard(Here, c, p) \in AnyTile \cup {Free}
  BY TilesLaid DEF OnBoard, Here, Boards
<1> QED
  BY <1>1 DEF Filling, Boards

\* The invariant: the board holds tiles, and both parts of the cache are what a
\* sweep of the board would make them.
THEOREM Consistent == Spec => []IInv
<1>1. Init => IInv
  BY DEF Init, CrossChecks, CacheIsExact, IInv, Boards
<1>2. IInv /\ [Next]_vars => IInv'
  <2>1. SUFFICES ASSUME IInv, [Next]_vars PROVE IInv'
    OBVIOUS
  <2>2. CASE PlaceTiles
    <3>1. PICK c \in Moves : Play(c)
      BY <2>2, CandidatesAreMoves DEF PlaceTiles
    <3>2. board' \in Boards
      BY <2>1, <3>1, FillingIs DEF IInv, Play
    <3>3. anchor' = Anchors(board')
      BY <3>1 DEF Play
    <3>4. CacheIsExact'
      BY <2>1, <3>1, PlayKeeps DEF IInv
    <3> QED
      BY <3>2, <3>3, <3>4 DEF IInv
  <2>3. CASE Reload
    <3>1. board' \in Boards
      BY <2>1, <2>3, BoardsTravel DEF IInv, Reload
    <3>2. anchor' = Anchors(board') /\ CacheIsExact'
      BY <2>3 DEF Reload, CrossChecks, CacheIsExact
    <3> QED
      BY <3>1, <3>2 DEF IInv
  <2>4. CASE UNCHANGED vars
    BY <2>1, <2>4 DEF vars, CacheIsExact, IInv
  <2> QED
    BY <2>1, <2>2, <2>3, <2>4 DEF Next
<1> QED
  BY <1>1, <1>2, PTL DEF Spec

LEMMA PreviewIsVerdict == IInv => PreviewsAgree
<1>1. SUFFICES ASSUME IInv, NEW c \in Moves
               PROVE  Preview(ClientPosition(BoardDto(board)), CandidateDto(c))
                        = Verdict(Here, c)
  BY DEF PreviewsAgree
<1>2. CandidateFromDto(CandidateDto(c)) = c /\ BoardFromDto(BoardDto(board)) = board
  BY <1>1, MovesTravel, BoardsTravel DEF IInv
<1>3. /\ ClientPosition(BoardDto(board))
           = [board |-> board, cross |-> CrossChecks(board), anchor |-> anchor]
      /\ Here = [board |-> board, cross |-> cross, anchor |-> anchor]
  BY <1>1, <1>2 DEF ClientPosition, FromBoard, Here, IInv
<1>4. c.direction \in Directions
  BY DEF Moves
<1>5. \A p \in Cells, d \in Directions :
         board[p] = Free => CrossChecks(board)[p][d] = cross[p][d]
  BY <1>1 DEF IInv, CacheIsExact, CrossChecks
<1>6. Verdict([board |-> board, cross |-> CrossChecks(board), anchor |-> anchor], c)
        = Verdict([board |-> board, cross |-> cross, anchor |-> anchor], c)
  BY <1>4, <1>5, VerdictsAgree
<1> QED
  BY <1>2, <1>3, <1>6 DEF Preview

\* A preview is the server's verdict, of every move on every board a game can
\* reach: the conversions lose nothing, and the client's fresh cache says of every
\* free square what the server's says (compute_client_preview, preview_move).
THEOREM PreviewsAreRight == Spec => []PreviewsAgree
  BY PreviewIsVerdict, Consistent, PTL

\* Loading a game from its snapshot leaves the position as it was: the board, the
\* anchors, and the checks of every square a tile may still be put on.
ReloadsAreHarmless ==
    [][Reload => /\ UNCHANGED <<board, anchor>>
                 /\ \A p \in Cells, d \in Directions :
                       board[p] = Free => cross'[p][d] = cross[p][d]]_vars

\* See ReloadsAreHarmless.
THEOREM ReloadsChangeNothing == Spec => ReloadsAreHarmless
<1>1. IInv /\ [Next]_vars =>
        [Reload => /\ UNCHANGED <<board, anchor>>
                   /\ \A p \in Cells, d \in Directions :
                         board[p] = Free => cross'[p][d] = cross[p][d]]_vars
  <2>1. SUFFICES ASSUME IInv, Reload
                 PROVE  /\ UNCHANGED <<board, anchor>>
                        /\ \A p \in Cells, d \in Directions :
                              board[p] = Free => cross'[p][d] = cross[p][d]
    OBVIOUS
  <2>2. board' = board
    BY <2>1, BoardsTravel DEF IInv, Reload
  <2>3. anchor' = anchor
    BY <2>1, <2>2 DEF IInv, Reload
  <2>4. cross' = CrossChecks(board)
    BY <2>1, <2>2 DEF Reload
  <2>5. \A p \in Cells, d \in Directions : board[p] = Free => cross'[p][d] = cross[p][d]
    BY <2>1, <2>4 DEF IInv, CacheIsExact, CrossChecks
  <2> QED
    BY <2>2, <2>3, <2>5
<1> QED
  BY <1>1, Consistent, PTL DEF Spec, ReloadsAreHarmless
-----------------------------------------------------------------------------
(* Sums over finite sets.                                                  *)

\* Induction over finite sets: of a family of them one is the smallest.
LEMMA SmallestExists ==
    ASSUME NEW F, F # {}, \A s \in F : IsFiniteSet(s)
    PROVE  \E s \in F : \A t \in F : Cardinality(s) <= Cardinality(t)
<1> DEFINE sizes == {Cardinality(s) : s \in F}
<1>1. sizes \subseteq Nat /\ sizes # {}
  BY FS_CardinalityType
<1>2. PICK n \in sizes : \A j \in sizes : n <= j
  <2> HIDE DEF sizes
  <2> QED
    BY <1>1, LeastExists
<1> QED
  BY <1>2

LEMMA LessOne ==
    ASSUME NEW s, IsFiniteSet(s), NEW x \in s
    PROVE  IsFiniteSet(s \ {x}) /\ Cardinality(s \ {x}) < Cardinality(s)
<1>1. IsFiniteSet(s \ {x}) /\ Cardinality(s \ {x}) = Cardinality(s) - 1
  BY FS_RemoveElement
<1>2. Cardinality(s) \in Nat
  BY FS_CardinalityType
<1> QED
  BY <1>1, <1>2

\* The sums of f over the subsets of S, one element taken out after another.
Pick(s) == CHOOSE x \in s : TRUE
Sums(g, f, S) ==
    g = [s \in S |-> IF s = {} THEN 0 ELSE f[Pick(s)] + g[s \ {Pick(s)}]]

LEMMA PickIs ==
    ASSUME NEW s, s # {}
    PROVE  Pick(s) \in s
  BY DEF Pick

LEMMA SumsExist ==
    ASSUME NEW S, IsFiniteSet(S), NEW f
    PROVE  \E g : Sums(g, f, SUBSET S)
<1> DEFINE parts(n) == {s \in SUBSET S : Cardinality(s) <= n}
<1> DEFINE missing == {n \in Nat : ~ \E g : Sums(g, f, parts(n))}
<1>0. \A s \in SUBSET S : IsFiniteSet(s) /\ Cardinality(s) \in Nat
  BY FS_Subset, FS_CardinalityType
<1>1. 0 \notin missing
  <2>1. \A s \in parts(0) : s = {}
    BY <1>0, FS_EmptySet
  <2>2. PICK g : g = [s \in parts(0) |-> 0]
    OBVIOUS
  <2>3. Sums(g, f, parts(0))
    BY <2>1, <2>2 DEF Sums
  <2> QED
    BY <2>3
<1>2. ASSUME NEW n \in Nat, n \notin missing
      PROVE  n + 1 \notin missing
  <2>1. PICK g : Sums(g, f, parts(n))
    BY <1>2
  <2>2. PICK h : h = [s \in parts(n + 1) |->
                        IF s = {} THEN 0 ELSE f[Pick(s)] + g[s \ {Pick(s)}]]
    OBVIOUS
  <2>3. \A t \in parts(n) : t \in parts(n + 1) /\ h[t] = g[t]
    <3>1. \A t \in parts(n) : t \in parts(n + 1)
      BY <1>0
    <3>2. \A t \in parts(n) : g[t] = IF t = {} THEN 0 ELSE f[Pick(t)] + g[t \ {Pick(t)}]
      BY <2>1 DEF Sums
    <3> QED
      BY <2>2, <3>1, <3>2
  <2>4. \A s \in parts(n + 1) : s # {} => s \ {Pick(s)} \in parts(n)
    <3>1. SUFFICES ASSUME NEW s \in parts(n + 1), s # {}
                   PROVE  s \ {Pick(s)} \in parts(n)
      OBVIOUS
    <3>2. Cardinality(s \ {Pick(s)}) < Cardinality(s) /\ s \ {Pick(s)} \in SUBSET S
      BY <1>0, <3>1, LessOne, PickIs
    <3>3. Cardinality(s) \in Nat /\ Cardinality(s \ {Pick(s)}) \in Nat
      BY <1>0, <3>2
    <3> QED
      BY <3>1, <3>2, <3>3
  <2>5. \A s \in parts(n + 1) :
           s # {} => g[s \ {Pick(s)}] = h[s \ {Pick(s)}]
    BY <2>3, <2>4, Zenon
  <2>6. h = [s \in parts(n + 1) |->
                        IF s = {} THEN 0 ELSE f[Pick(s)] + h[s \ {Pick(s)}]]
    <3> HIDE DEF parts
    <3> QED
      BY <2>2, <2>5
  <2> HIDE DEF parts
  <2> QED
    BY <2>6 DEF Sums
<1>3. missing = {}
  <2>1. SUFFICES ASSUME missing # {} PROVE FALSE
    OBVIOUS
  <2>2. PICK n \in missing : \A j \in missing : n <= j
    <3>1. missing \subseteq Nat
      OBVIOUS
    <3> HIDE DEF missing
    <3> QED
      BY <2>1, <3>1, LeastExists
  <2>3. n \in Nat /\ n # 0
    BY <1>1
  <2> HIDE DEF missing
  <2>4. n - 1 \in Nat /\ n - 1 \notin missing /\ (n - 1) + 1 = n
    BY <2>2, <2>3
  <2> QED
    BY <1>2, <2>4
<1>4. parts(Cardinality(S)) = SUBSET S
  BY FS_Subset
<1>5. Cardinality(S) \in Nat
  BY FS_CardinalityType
<1>6. \E g : Sums(g, f, parts(Cardinality(S)))
  <2> HIDE DEF parts
  <2> QED
    BY <1>3, <1>5
<1> QED
  BY <1>4, <1>6

LEMMA TotalIs ==
    ASSUME NEW f, IsFiniteSet(DOMAIN f)
    PROVE  \E g : Sums(g, f, SUBSET DOMAIN f) /\ Total(f) = g[DOMAIN f]
<1> PICK S : S = DOMAIN f
  OBVIOUS
<1>1. \E g : Sums(g, f, SUBSET S)
  BY SumsExist
<1>2. PICK g : g = CHOOSE t : Sums(t, f, SUBSET S)
  OBVIOUS
<1>3. Sums(g, f, SUBSET S)
  BY <1>1, <1>2
<1>4. Total(f) = g[S]
  BY <1>2, Zenon DEF Total, MapThenSumSet, MapThenFoldSet, Sums, Pick
<1> QED
  BY <1>3, <1>4

LEMMA SumsStep ==
    ASSUME NEW S, NEW f, NEW g, Sums(g, f, SUBSET S), NEW s \in SUBSET S
    PROVE  g[s] = IF s = {} THEN 0 ELSE f[Pick(s)] + g[s \ {Pick(s)}]
  BY DEF Sums

LEMMA SumsAreNat ==
    ASSUME NEW S, IsFiniteSet(S), NEW f, \A x \in S : f[x] \in Nat,
           NEW g, Sums(g, f, SUBSET S), NEW s \in SUBSET S
    PROVE  g[s] \in Nat
<1> DEFINE bad == {t \in SUBSET S : g[t] \notin Nat}
<1>1. SUFFICES ASSUME bad # {} PROVE FALSE
  OBVIOUS
<1>2. \A t \in SUBSET S : IsFiniteSet(t) /\ Cardinality(t) \in Nat
  BY FS_Subset, FS_CardinalityType
<1>3. PICK t \in bad : \A u \in bad : Cardinality(t) <= Cardinality(u)
  <2>1. \A u \in bad : IsFiniteSet(u)
    BY <1>2
  <2> HIDE DEF bad
  <2> QED
    BY <1>1, <2>1, SmallestExists
<1>4. t # {} /\ g[t] = f[Pick(t)] + g[t \ {Pick(t)}]
  <2>1. g[t] = IF t = {} THEN 0 ELSE f[Pick(t)] + g[t \ {Pick(t)}]
    <3>1. t \in SUBSET S
      OBVIOUS
    <3> HIDE DEF bad
    <3> QED
      BY <3>1, SumsStep
  <2>2. t # {}
    BY <2>1
  <2> QED
    BY <2>1, <2>2
<1>5. t \ {Pick(t)} \notin bad
  <2>1. IsFiniteSet(t) /\ Pick(t) \in t
    BY <1>2, <1>4, PickIs
  <2>2. Cardinality(t \ {Pick(t)}) < Cardinality(t)
    BY <2>1, LessOne
  <2>3. Cardinality(t \ {Pick(t)}) \in Nat /\ Cardinality(t) \in Nat
    BY <1>2
  <2> HIDE DEF bad
  <2> QED
    BY <1>3, <2>2, <2>3
<1>6. g[t \ {Pick(t)}] \in Nat
  BY <1>5
<1>7. f[Pick(t)] \in Nat
  BY <1>4, PickIs
<1> QED
  BY <1>4, <1>6, <1>7

LEMMA SumsAgree ==
    ASSUME NEW S, NEW R, NEW f, NEW k, NEW g, NEW h, IsFiniteSet(S), R \subseteq S,
           \A x \in R : f[x] = k[x], Sums(g, f, SUBSET S), Sums(h, k, SUBSET R)
    PROVE  g[R] = h[R]
<1> DEFINE bad == {t \in SUBSET R : g[t] # h[t]}
<1>1. SUFFICES ASSUME bad # {} PROVE FALSE
  OBVIOUS
<1>2. \A t \in SUBSET R : IsFiniteSet(t) /\ Cardinality(t) \in Nat /\ t \in SUBSET S
  <2>1. \A t \in SUBSET R : t \in SUBSET S
    OBVIOUS
  <2> QED
    BY <2>1, FS_Subset, FS_CardinalityType
<1>3. PICK t \in bad : \A u \in bad : Cardinality(t) <= Cardinality(u)
  <2>1. \A u \in bad : IsFiniteSet(u)
    BY <1>2
  <2> HIDE DEF bad
  <2> QED
    BY <1>1, <2>1, SmallestExists
<1>4. /\ g[t] = IF t = {} THEN 0 ELSE f[Pick(t)] + g[t \ {Pick(t)}]
      /\ h[t] = IF t = {} THEN 0 ELSE k[Pick(t)] + h[t \ {Pick(t)}]
  <2>1. t \in SUBSET S /\ t \in SUBSET R
    BY <1>2
  <2> HIDE DEF bad
  <2>2. g[t] = IF t = {} THEN 0 ELSE f[Pick(t)] + g[t \ {Pick(t)}]
    BY <2>1 DEF Sums
  <2>3. h[t] = IF t = {} THEN 0 ELSE k[Pick(t)] + h[t \ {Pick(t)}]
    BY <2>1 DEF Sums
  <2> QED
    BY <2>2, <2>3
<1>5. t # {}
  BY <1>4
<1>6. t \ {Pick(t)} \notin bad /\ t \ {Pick(t)} \in SUBSET R
  <2>1. IsFiniteSet(t) /\ Pick(t) \in t
    BY <1>2, <1>5, PickIs
  <2>2. Cardinality(t \ {Pick(t)}) < Cardinality(t)
    BY <2>1, LessOne
  <2>3. Cardinality(t \ {Pick(t)}) \in Nat /\ Cardinality(t) \in Nat
    BY <1>2
  <2>4. t \ {Pick(t)} \in SUBSET R
    OBVIOUS
  <2> HIDE DEF bad
  <2> QED
    BY <1>3, <2>2, <2>3, <2>4
<1>7. g[t \ {Pick(t)}] = h[t \ {Pick(t)}]
  BY <1>6
<1>8. Pick(t) \in R
  BY <1>5, PickIs
<1> QED
  BY <1>4, <1>5, <1>7, <1>8

\* The sum of f over S.
Sum(f, S) == Total([x \in S |-> f[x]])

LEMMA SumIs ==
    ASSUME NEW S, IsFiniteSet(S), NEW f, \A x \in S : f[x] \in Nat
    PROVE  /\ Sum(f, S) \in Nat
           /\ S = {} => Sum(f, S) = 0
           /\ S # {} => Sum(f, S) = f[Pick(S)] + Sum(f, S \ {Pick(S)})
<1>k. PICK k : k = [x \in S |-> f[x]]
  OBVIOUS
<1>0. DOMAIN k = S /\ \A x \in S : k[x] = f[x]
  BY <1>k
<1>1. PICK g : Sums(g, k, SUBSET S) /\ Total(k) = g[S]
  BY <1>0, TotalIs, Zenon
<1>2. Sum(f, S) = g[S]
  BY <1>k, <1>1 DEF Sum
<1>3. g[S] = IF S = {} THEN 0 ELSE k[Pick(S)] + g[S \ {Pick(S)}]
  BY <1>1, SumsStep
<1>4. g[S] \in Nat
  BY <1>0, <1>1, SumsAreNat
<1>5. ASSUME S # {} PROVE Sum(f, S) = f[Pick(S)] + Sum(f, S \ {Pick(S)})
  <2>1. PICK R \in SUBSET S : R = S \ {Pick(S)}
    OBVIOUS
  <2>2. PICK l : l = [x \in R |-> f[x]]
    OBVIOUS
  <2>3. IsFiniteSet(R)
    BY FS_Subset
  <2>4. PICK h : Sums(h, l, SUBSET R) /\ Total(l) = h[R]
    <3>1. DOMAIN l = R
      BY <2>2
    <3> QED
      BY <2>3, <3>1, TotalIs, Zenon
  <2>5. g[R] = h[R]
    <3>1. \A x \in R : k[x] = l[x]
      BY <1>0, <2>2
    <3>2. R \subseteq S /\ Sums(g, k, SUBSET S) /\ Sums(h, l, SUBSET R)
      BY <1>1, <2>4
    <3> QED
      BY <3>1, <3>2, SumsAgree, SMTT(60)
  <2>6. Sum(f, R) = h[R]
    BY <2>2, <2>4 DEF Sum
  <2>7. k[Pick(S)] = f[Pick(S)]
    BY <1>0, <1>5, PickIs
  <2> QED
    BY <1>2, <1>3, <1>5, <2>1, <2>5, <2>6, <2>7
<1> QED
  BY <1>2, <1>3, <1>4, <1>5

\* Any element may be the one taken out.
LEMMA SumTakes ==
    ASSUME NEW S, IsFiniteSet(S), NEW f, \A x \in S : f[x] \in Nat, NEW a \in S
    PROVE  Sum(f, S) = f[a] + Sum(f, S \ {a})
<1> DEFINE bad == {t \in SUBSET S : \E x \in t : Sum(f, t) # f[x] + Sum(f, t \ {x})}
<1>1. SUFFICES ASSUME bad # {} PROVE FALSE
  OBVIOUS
<1>2. \A t \in SUBSET S : IsFiniteSet(t) /\ Cardinality(t) \in Nat
  BY FS_Subset, FS_CardinalityType
<1>3. PICK t \in bad : \A u \in bad : Cardinality(t) <= Cardinality(u)
  <2>1. \A u \in bad : IsFiniteSet(u)
    BY <1>2
  <2> HIDE DEF bad
  <2> QED
    BY <1>1, <2>1, SmallestExists
<1>4. PICK x \in t : Sum(f, t) # f[x] + Sum(f, t \ {x})
  OBVIOUS
<1>5. PICK y \in t : y = Pick(t)
  BY <1>4, PickIs
<1>6. t \in SUBSET S /\ t \ {x} \in SUBSET S /\ t \ {y} \in SUBSET S
      /\ t \ {x, y} \in SUBSET S
  OBVIOUS
<1>7. \A u \in SUBSET S : IsFiniteSet(u) /\ \A z \in u : f[z] \in Nat
  BY <1>2
<1>8. Sum(f, t) = f[y] + Sum(f, t \ {y})
  BY <1>4, <1>5, <1>6, <1>7, SumIs
<1>9. x # y
  BY <1>4, <1>8
<1>10. t \ {x} \notin bad /\ t \ {y} \notin bad
  <2>1. Cardinality(t \ {x}) < Cardinality(t) /\ Cardinality(t \ {y}) < Cardinality(t)
    BY <1>2, <1>6, LessOne
  <2>2. Cardinality(t \ {x}) \in Nat /\ Cardinality(t \ {y}) \in Nat /\ Cardinality(t) \in Nat
    BY <1>2, <1>6
  <2> HIDE DEF bad
  <2> QED
    BY <1>3, <2>1, <2>2
<1>11. Sum(f, t \ {x}) = f[y] + Sum(f, (t \ {x}) \ {y})
  BY <1>6, <1>9, <1>10
<1>12. Sum(f, t \ {y}) = f[x] + Sum(f, (t \ {y}) \ {x})
  BY <1>6, <1>9, <1>10
<1>13. (t \ {x}) \ {y} = t \ {x, y} /\ (t \ {y}) \ {x} = t \ {x, y}
  OBVIOUS
<1>14. Sum(f, t \ {x, y}) \in Nat /\ f[x] \in Nat /\ f[y] \in Nat
  BY <1>6, <1>7, SumIs
<1>15. PICK n \in Nat, p \in Nat, q \in Nat : n = Sum(f, t \ {x, y}) /\ p = f[x] /\ q = f[y]
  BY <1>14
<1>16. Sum(f, t) = q + (p + n) /\ Sum(f, t \ {x}) = q + n
  <2> HIDE DEF bad
  <2> QED
    BY <1>8, <1>11, <1>12, <1>13, <1>15
<1> HIDE DEF bad
<1> QED
  BY <1>4, <1>15, <1>16

\* A sum does not depend on what its terms are called.
LEMMA SumMapped ==
    ASSUME NEW S, IsFiniteSet(S), NEW R, NEW h \in [S -> R],
           \A x, y \in S : h[x] = h[y] => x = y, \A r \in R : \E x \in S : h[x] = r,
           NEW f, NEW k, \A x \in S : f[x] = k[h[x]] /\ f[x] \in Nat
    PROVE  Sum(f, S) = Sum(k, R)
<1> DEFINE image(t) == {h[x] : x \in t}
<1> DEFINE bad == {t \in SUBSET S : Sum(f, t) # Sum(k, image(t))}
<1>0. image(S) = R
  OBVIOUS
<1>1. SUFFICES ASSUME bad # {} PROVE FALSE
  BY <1>0
<1>2. \A t \in SUBSET S : IsFiniteSet(t) /\ Cardinality(t) \in Nat
  BY FS_Subset, FS_CardinalityType
<1>3. PICK t \in bad : \A u \in bad : Cardinality(t) <= Cardinality(u)
  <2>1. \A u \in bad : IsFiniteSet(u)
    BY <1>2
  <2> HIDE DEF bad
  <2> QED
    BY <1>1, <2>1, SmallestExists
<1>4. t \in SUBSET S /\ IsFiniteSet(t) /\ Sum(f, t) # Sum(k, image(t))
  BY <1>2
<1>5. IsFiniteSet(image(t)) /\ \A z \in image(t) : k[z] \in Nat
  <2>1. PICK g : g = [x \in t |-> h[x]]
    OBVIOUS
  <2>2. g \in Surjection(t, image(t))
    BY <2>1 DEF Surjection
  <2>3. IsFiniteSet(image(t))
    <3> HIDE DEF image, bad
    <3> QED
      BY <1>4, <2>2, FS_Surjection
  <2>4. \A z \in image(t) : k[z] \in Nat
    BY <1>4
  <2> QED
    BY <2>3, <2>4
<1>6. t # {}
  <2>1. ASSUME t = {} PROVE FALSE
    <3>1. image(t) = {}
      BY <2>1
    <3>2. Sum(f, {}) = 0 /\ Sum(k, {}) = 0
      BY FS_EmptySet, SumIs
    <3> QED
      BY <1>4, <2>1, <3>1, <3>2
  <2> QED
    BY <2>1
<1>7. PICK a \in t : a \in S
  BY <1>4, <1>6
<1>8. Sum(f, t) = f[a] + Sum(f, t \ {a})
  <2>1. \A x \in t : f[x] \in Nat
    BY <1>4
  <2> HIDE DEF bad
  <2> QED
    BY <1>4, <2>1, SumTakes
<1>9. Sum(k, image(t)) = k[h[a]] + Sum(k, image(t) \ {h[a]})
  <2>1. h[a] \in image(t)
    OBVIOUS
  <2> HIDE DEF bad, image
  <2> QED
    BY <1>5, <2>1, SumTakes
<1>10. image(t) \ {h[a]} = image(t \ {a})
  BY <1>4, <1>7
<1>11. t \ {a} \notin bad
  <2>1. Cardinality(t \ {a}) < Cardinality(t)
    <3> HIDE DEF bad
    <3> QED
      BY <1>4, LessOne
  <2>2. Cardinality(t \ {a}) \in Nat /\ Cardinality(t) \in Nat
    BY <1>2, <1>4
  <2> HIDE DEF bad
  <2> QED
    BY <1>3, <2>1, <2>2
<1>12. Sum(f, t \ {a}) = Sum(k, image(t \ {a}))
  BY <1>4, <1>11
<1> HIDE DEF bad, image
<1> QED
  BY <1>4, <1>7, <1>8, <1>9, <1>10, <1>12

\* Terms that are nothing may be left out.
LEMMA SumWithout ==
    ASSUME NEW S, IsFiniteSet(S), NEW R, R \subseteq S,
           NEW f, \A x \in S : f[x] \in Nat, \A x \in S \ R : f[x] = 0
    PROVE  Sum(f, S) = Sum(f, R)
<1> DEFINE bad == {t \in SUBSET S : Sum(f, t) # Sum(f, t \cap R)}
<1>0. S \cap R = R
  OBVIOUS
<1>1. SUFFICES ASSUME bad # {} PROVE FALSE
  BY <1>0
<1>2. \A t \in SUBSET S : IsFiniteSet(t) /\ Cardinality(t) \in Nat /\ \A x \in t : f[x] \in Nat
  BY FS_Subset, FS_CardinalityType
<1>3. PICK t \in bad : \A u \in bad : Cardinality(t) <= Cardinality(u)
  <2>1. \A u \in bad : IsFiniteSet(u)
    BY <1>2
  <2> HIDE DEF bad
  <2> QED
    BY <1>1, <2>1, SmallestExists
<1>4. t \in SUBSET S /\ t \cap R \in SUBSET S /\ Sum(f, t) # Sum(f, t \cap R)
  OBVIOUS
<1>5. t # {}
  <2>1. ASSUME t = {} PROVE FALSE
    <3>1. t \cap R = t
      BY <2>1
    <3> QED
      BY <1>4, <3>1
  <2> QED
    BY <2>1
<1>6. PICK a \in t : a \in S
  BY <1>4, <1>5
<1>7. Sum(f, t) = f[a] + Sum(f, t \ {a})
  <2> HIDE DEF bad
  <2> QED
    BY <1>2, <1>4, SumTakes
<1>8. t \ {a} \notin bad /\ t \ {a} \in SUBSET S
  <2>1. Cardinality(t \ {a}) < Cardinality(t)
    <3> HIDE DEF bad
    <3> QED
      BY <1>2, <1>4, LessOne
  <2>2. Cardinality(t \ {a}) \in Nat /\ Cardinality(t) \in Nat /\ t \ {a} \in SUBSET S
    BY <1>2, <1>4
  <2> HIDE DEF bad
  <2> QED
    BY <1>3, <2>1, <2>2
<1>9. Sum(f, t \ {a}) = Sum(f, (t \ {a}) \cap R)
  BY <1>8
<1>10. Sum(f, t \ {a}) \in Nat
  <2> HIDE DEF bad
  <2> QED
    BY <1>2, <1>8, SumIs
<1>11. CASE a \in R
  <2>1. (t \ {a}) \cap R = (t \cap R) \ {a} /\ a \in t \cap R
    BY <1>11
  <2>2. Sum(f, t \cap R) = f[a] + Sum(f, (t \cap R) \ {a})
    <3> HIDE DEF bad
    <3> QED
      BY <1>2, <1>4, <2>1, SumTakes
  <2> HIDE DEF bad
  <2> QED
    BY <1>4, <1>7, <1>9, <2>1, <2>2
<1>12. CASE a \notin R
  <2>1. (t \ {a}) \cap R = t \cap R /\ f[a] = 0
    BY <1>6, <1>12
  <2> HIDE DEF bad
  <2> QED
    <3>1. PICK n \in Nat : n = Sum(f, t \ {a})
      BY <1>10
    <3>2. Sum(f, t) = n
      BY <1>7, <2>1, <3>1
    <3>3. Sum(f, t \cap R) = n
      BY <1>9, <2>1, <3>1, Zenon
    <3> QED
      BY <1>4, <3>2, <3>3
<1> QED
  BY <1>11, <1>12

LEMMA SumSame ==
    ASSUME NEW S, NEW f, NEW k, \A x \in S : f[x] = k[x]
    PROVE  Sum(f, S) = Sum(k, S)
<1>1. [x \in S |-> f[x]] = [x \in S |-> k[x]]
  OBVIOUS
<1> QED
  BY <1>1 DEF Sum

LEMMA ProductOfOne ==
    ASSUME NEW p, NEW f, f[p] \in Nat
    PROVE  Multiplied([x \in {p} |-> f[x]]) = f[p]
<1> PICK k : k = [x \in {p} |-> f[x]]
  OBVIOUS
<1> DEFINE Products(g) ==
        g = [s \in SUBSET DOMAIN k |->
                IF s = {} THEN 1 ELSE k[Pick(s)] * g[s \ {Pick(s)}]]
<1>1. PICK g : g = [s \in SUBSET {p} |-> IF s = {} THEN 1 ELSE k[p]]
  OBVIOUS
<1>2. DOMAIN k = {p} /\ k[p] = f[p] /\ k[p] * 1 = k[p]
  OBVIOUS
<1>3. \A s \in SUBSET {p} : s = {} \/ (s = {p} /\ Pick(s) = p /\ s \ {Pick(s)} = {})
  BY PickIs
<1>4. Products(g)
  <2>1. \A s \in SUBSET {p} :
           g[s] = IF s = {} THEN 1 ELSE k[Pick(s)] * g[s \ {Pick(s)}]
    BY <1>1, <1>2, <1>3
  <2> QED
    BY <1>1, <1>2, <2>1
<1>5. PICK h : h = CHOOSE m : Products(m)
  OBVIOUS
<1>6. Products(h)
  <2> HIDE DEF Products
  <2> QED
    BY <1>4, <1>5
<1>7. Multiplied(k) = h[{p}]
  BY <1>2, <1>5, Zenon DEF Multiplied, MapThenFoldSet, Pick
<1>8. h[{}] = 1
  BY <1>2, <1>6
<1>9. h[{p}] = k[p] * h[{}]
  <2>1. h[{p}] = k[Pick({p})] * h[{p} \ {Pick({p})}]
    BY <1>2, <1>6
  <2>2. Pick({p}) = p /\ {p} \ {Pick({p})} = {}
    BY PickIs
  <2> QED
    BY <2>1, <2>2
<1> QED
  BY <1>2, <1>7, <1>8, <1>9
-----------------------------------------------------------------------------
(* Spelling.                                                               *)

\* Induction over the numbers from 1.
LEMMA FromOneOn ==
    ASSUME NEW T, T \subseteq Nat \ {0}, 1 \notin T,
           \A n \in Nat \ {0} : n \notin T => n + 1 \notin T
    PROVE  T = {}
<1>1. SUFFICES ASSUME T # {} PROVE FALSE
  OBVIOUS
<1>2. PICK n \in T : \A j \in T : n <= j
  BY <1>1, LeastExists
<1>3. n - 1 \in Nat \ {0} /\ n - 1 \notin T /\ (n - 1) + 1 = n
  BY <1>2
<1> QED
  BY <1>3

\* The sequences of f joined, the first of them, the first two, and so on.
Joined(g, f, n) ==
    g = [i \in 1 .. n |-> IF i = 1 THEN f[i] ELSE g[i - 1] \o f[i]]

LEMMA JoinedExists ==
    ASSUME NEW f, NEW m \in Nat \ {0}
    PROVE  \E g : Joined(g, f, m)
<1> DEFINE missing == {n \in Nat \ {0} : ~ \E g : Joined(g, f, n)}
<1>1. 1 \notin missing
  <2>1. PICK g : g = [i \in 1 .. 1 |-> f[i]]
    OBVIOUS
  <2>2. Joined(g, f, 1)
    BY <2>1 DEF Joined
  <2> QED
    BY <2>2
<1>2. ASSUME NEW n \in Nat \ {0}, n \notin missing
      PROVE  n + 1 \notin missing
  <2>1. PICK g : Joined(g, f, n)
    BY <1>2
  <2>2. PICK h : h = [i \in 1 .. n + 1 |-> IF i = 1 THEN f[i] ELSE g[i - 1] \o f[i]]
    OBVIOUS
  <2>3. \A i \in 1 .. n : g[i] = IF i = 1 THEN f[i] ELSE g[i - 1] \o f[i]
    BY <2>1 DEF Joined
  <2>4. \A i \in 1 .. n : g[i] = h[i]
    BY <2>2, <2>3
  <2>5. \A i \in 1 .. n + 1 : i # 1 => g[i - 1] = h[i - 1]
    BY <2>4
  <2>6. Joined(h, f, n + 1)
    BY <2>2, <2>5 DEF Joined
  <2> QED
    BY <2>6
<1>3. missing = {}
  <2>1. missing \subseteq Nat \ {0}
    OBVIOUS
  <2> HIDE DEF missing
  <2> QED
    BY <1>1, <1>2, <2>1, FromOneOn
<1> QED
  BY <1>3

LEMMA FlattenIs ==
    ASSUME NEW f, NEW n \in Nat \ {0}, Len(f) = n
    PROVE  \E g : Joined(g, f, n) /\ FlattenSeq(f) = g[n]
<1>1. PICK g : g = CHOOSE j : Joined(j, f, n)
  OBVIOUS
<1>2. Joined(g, f, n)
  BY <1>1, JoinedExists
<1>3. FlattenSeq(f) = g[n]
  <2>1. n # 0
    OBVIOUS
  <2> QED
    BY <1>1, <2>1, Zenon DEF FlattenSeq, Joined
<1> QED
  BY <1>2, <1>3

\* The characters, each a letter of its own.
Chars == {c \in Letters : Grapheme[c] = <<c>>}

LEMMA GraphemesAre ==
    ASSUME NEW l \in Letters
    PROVE  Grapheme[l] \in Seq(Chars) /\ Len(Grapheme[l]) >= 1
<1>1. Grapheme[l] \in Seq(Letters) /\ Len(Grapheme[l]) \in {1, 2}
  BY LexiconAssumption
<1>2. \A i \in 1 .. Len(Grapheme[l]) : Grapheme[l][i] \in Chars
  BY <1>1, LexiconAssumption DEF Chars
<1>3. PICK q : q = Grapheme[l]
  OBVIOUS
<1>4. PICK n \in Nat : n = Len(q) /\ q \in [1 .. n -> Letters]
  BY <1>1, <1>3
<1>5. q \in [1 .. n -> Chars]
  BY <1>2, <1>3, <1>4
<1>6. q \in Seq(Chars)
  BY <1>5
<1>7. n >= 1
  <2>1. n = 1 \/ n = 2
    BY <1>1, <1>3, <1>4, Zenon
  <2> QED
    BY <2>1
<1> QED
  BY <1>3, <1>4, <1>6, <1>7

LEMMA SpellingIs ==
    ASSUME NEW letters \in Seq(Letters)
    PROVE  /\ Spelling(letters) \in Seq(Chars)
           /\ Len(Spelling(letters)) >= Len(letters)
<1> PICK n \in Nat : n = Len(letters) /\ DOMAIN letters = 1 .. n
  OBVIOUS
<1>1. PICK f : f = [i \in 1 .. n |-> Grapheme[letters[i]]]
  OBVIOUS
<1>2. Spelling(letters) = FlattenSeq(f)
  BY <1>1 DEF Spelling
<1>3. /\ Len(f) = n
      /\ \A i \in 1 .. n : f[i] \in Seq(Chars) /\ Len(f[i]) >= 1
  BY <1>1, GraphemesAre
<1>4. CASE n = 0
  <2>1. f = << >>
    BY <1>1, <1>4
  <2>2. FlattenSeq(f) = << >>
    BY <2>1 DEF FlattenSeq
  <2> QED
    BY <1>2, <1>4, <2>2
<1>5. CASE n # 0
  <2>1. PICK g : Joined(g, f, n) /\ FlattenSeq(f) = g[n]
    BY <1>3, <1>5, FlattenIs
  <2>2. \A i \in 1 .. n : g[i] = IF i = 1 THEN f[i] ELSE g[i - 1] \o f[i]
    BY <2>1 DEF Joined
  <2> DEFINE bad == {i \in Nat \ {0} : i <= n /\ ~(g[i] \in Seq(Chars) /\ Len(g[i]) >= i)}
  <2>3. bad = {}
    <3>1. 1 \notin bad
      BY <1>3, <1>5, <2>2
    <3>2. ASSUME NEW i \in Nat \ {0}, i \notin bad, i + 1 <= n PROVE i + 1 \notin bad
      <4>1. g[i] \in Seq(Chars) /\ Len(g[i]) >= i
        BY <3>2
      <4>2. f[i + 1] \in Seq(Chars) /\ Len(f[i + 1]) >= 1
        BY <1>3, <3>2
      <4>3. g[i + 1] = g[i] \o f[i + 1]
        <5>1. i + 1 \in 1 .. n /\ i + 1 # 1 /\ (i + 1) - 1 = i
          BY <3>2
        <5> QED
          BY <2>2, <5>1
      <4>4. /\ g[i] \o f[i + 1] \in Seq(Chars)
            /\ Len(g[i] \o f[i + 1]) = Len(g[i]) + Len(f[i + 1])
        BY <4>1, <4>2, ConcatProperties
      <4>5. Len(g[i + 1]) >= i + 1
        <5>1. PICK a \in Nat, b \in Nat : a = Len(g[i]) /\ b = Len(f[i + 1])
          BY <4>1, <4>2
        <5>2. a >= i /\ b >= 1
          BY <4>1, <4>2, <5>1
        <5>3. Len(g[i + 1]) = a + b
          BY <4>3, <4>4, <5>1
        <5> QED
          BY <5>2, <5>3
      <4> QED
        BY <4>3, <4>4, <4>5
    <3>3. \A i \in Nat \ {0} : i \notin bad => i + 1 \notin bad
      <4>1. \A i \in Nat \ {0} : ~(i + 1 <= n) => i + 1 \notin bad
        OBVIOUS
      <4> HIDE DEF bad
      <4> QED
        BY <3>2, <4>1
    <3>4. bad \subseteq Nat \ {0}
      OBVIOUS
    <3> HIDE DEF bad
    <3> QED
      BY <3>1, <3>3, <3>4, FromOneOn
  <2> QED
    BY <1>2, <1>5, <2>1, <2>3
<1> QED
  BY <1>4, <1>5

\* A word of characters spells itself.
LEMMA CharsSpell ==
    ASSUME NEW w \in Seq(Chars)
    PROVE  Spelling(w) = w
<1> PICK n \in Nat : n = Len(w) /\ DOMAIN w = 1 .. n
  OBVIOUS
<1>1. PICK f : f = [i \in 1 .. n |-> Grapheme[w[i]]]
  OBVIOUS
<1>2. Spelling(w) = FlattenSeq(f)
  BY <1>1 DEF Spelling
<1>3. Len(f) = n /\ \A i \in 1 .. n : f[i] = <<w[i]>>
  BY <1>1 DEF Chars
<1>4. CASE n = 0
  <2>1. f = << >> /\ w = << >>
    BY <1>1, <1>4
  <2>2. FlattenSeq(f) = << >>
    BY <2>1 DEF FlattenSeq
  <2> QED
    BY <1>2, <2>1, <2>2
<1>5. CASE n # 0
  <2>1. PICK g : Joined(g, f, n) /\ FlattenSeq(f) = g[n]
    BY <1>3, <1>5, FlattenIs
  <2>2. \A i \in 1 .. n : g[i] = IF i = 1 THEN f[i] ELSE g[i - 1] \o f[i]
    BY <2>1 DEF Joined
  <2> DEFINE bad == {i \in Nat \ {0} :
                        i <= n /\ ~(/\ g[i] \in Seq(Chars) /\ Len(g[i]) = i
                                    /\ \A k \in 1 .. i : g[i][k] = w[k])}
  <2>3. bad = {}
    <3>1. 1 \notin bad
      <4>1. g[1] = <<w[1]>> /\ w[1] \in Chars
        BY <1>3, <1>5, <2>2
      <4>2. PICK x : x = w[1]
        OBVIOUS
      <4>3. <<x>> \in Seq(Chars) /\ Len(<<x>>) = 1 /\ <<x>>[1] = x
        BY <4>1, <4>2
      <4>4. \A k \in 1 .. 1 : g[1][k] = w[k]
        BY <4>1, <4>2, <4>3
      <4> QED
        BY <4>1, <4>2, <4>3, <4>4
    <3>2. ASSUME NEW i \in Nat \ {0}, i \notin bad, i + 1 <= n PROVE i + 1 \notin bad
      <4>1. g[i] \in Seq(Chars) /\ Len(g[i]) = i /\ \A k \in 1 .. i : g[i][k] = w[k]
        BY <3>2
      <4>2. g[i + 1] = g[i] \o <<w[i + 1]>> /\ w[i + 1] \in Chars
        <5>1. i + 1 \in 1 .. n /\ i + 1 # 1 /\ (i + 1) - 1 = i
          BY <3>2
        <5>2. g[i + 1] = g[i] \o f[i + 1]
          BY <2>2, <5>1
        <5>3. f[i + 1] = <<w[i + 1]>> /\ w[i + 1] \in Chars
          BY <1>3, <5>1
        <5> QED
          BY <5>2, <5>3
      <4>3. PICK t : t = g[i] \o <<w[i + 1]>>
        OBVIOUS
      <4>4. t \in Seq(Chars) /\ Len(t) = i + 1 /\ t[i + 1] = w[i + 1]
            /\ \A k \in 1 .. i : t[k] = w[k]
        <5>1. PICK x \in Chars : x = w[i + 1]
          BY <4>2
        <5>u. <<x>> \in Seq(Chars) /\ Len(<<x>>) = 1 /\ <<x>>[1] = x
          OBVIOUS
        <5>2. PICK u \in Seq(Chars) : u = <<x>> /\ Len(u) = 1 /\ u[1] = x
          BY <5>u, Zenon
        <5>3. PICK v \in Seq(Chars) : v = g[i] /\ Len(v) = i
          BY <4>1
        <5>4. /\ v \o u \in Seq(Chars) /\ Len(v \o u) = i + 1
              /\ \A k \in 1 .. i : (v \o u)[k] = v[k]
              /\ (v \o u)[i + 1] = x
          <6>1. /\ v \o u \in Seq(Chars) /\ Len(v \o u) = Len(v) + Len(u)
                /\ \A k \in 1 .. Len(v) + Len(u) :
                      (v \o u)[k] = IF k <= Len(v) THEN v[k] ELSE u[k - Len(v)]
            BY ConcatProperties
          <6>2. Len(v) = i /\ Len(u) = 1 /\ u[1] = x
            BY <5>2, <5>3
          <6> HIDE <5>2, <5>3
          <6> QED
            BY <6>1, <6>2
        <5> QED
          BY <4>1, <4>3, <5>1, <5>2, <5>3, <5>4
      <4>5. \A k \in 1 .. i + 1 : t[k] = w[k]
        BY <4>4
      <4> QED
        BY <4>2, <4>3, <4>4, <4>5
    <3>3. \A i \in Nat \ {0} : i \notin bad => i + 1 \notin bad
      <4>1. \A i \in Nat \ {0} : ~(i + 1 <= n) => i + 1 \notin bad
        OBVIOUS
      <4> HIDE DEF bad
      <4> QED
        BY <3>2, <4>1
    <3>4. bad \subseteq Nat \ {0}
      OBVIOUS
    <3> HIDE DEF bad
    <3> QED
      BY <3>1, <3>3, <3>4, FromOneOn
  <2>4. g[n] \in Seq(Chars) /\ Len(g[n]) = n /\ \A k \in 1 .. n : g[n][k] = w[k]
    BY <1>5, <2>3
  <2>5. g[n] = w
    BY <2>4
  <2> QED
    BY <1>2, <2>1, <2>5
<1> QED
  BY <1>4, <1>5

-----------------------------------------------------------------------------
(* Where a run ends.                                                       *)

LEMMA FarIsOff ==
    ASSUME NEW p \in Cells, NEW d, NEW k \in Nat, k \notin Offsets
    PROVE  Step(p, d, k) \notin Cells /\ Step(p, d, -k) \notin Cells
<1>1. PICK W \in Nat \ {0}, H \in Nat \ {0} : W = Width /\ H = Height
  BY RulesAssumption
<1>2. PICK x \in 0 .. W - 1, y \in 0 .. H - 1 : p = <<x, y>>
  BY <1>1 DEF Cells
<1>3. k >= W /\ k >= H
  BY <1>1 DEF Offsets
<1>4. /\ p[1] = x /\ p[2] = y
      /\ x + k \notin 0 .. W - 1 /\ y + k \notin 0 .. H - 1
      /\ x + (-k) \notin 0 .. W - 1 /\ y + (-k) \notin 0 .. H - 1
  BY <1>2, <1>3
<1> QED
  BY <1>1, <1>4 DEF Step, Cells

\* A run is as long as can be: the squares beyond its ends hold no tiles.
LEMMA RunEndsThere ==
    ASSUME NEW b, NEW p \in Cells, NEW d
    PROVE  /\ After(b, p, d) \in Nat /\ Before(b, p, d) \in Nat
           /\ \A i \in 1 .. After(b, p, d) : Filled(b, Step(p, d, i))
           /\ \A i \in 1 .. Before(b, p, d) : Filled(b, Step(p, d, -i))
           /\ ~Filled(b, Step(p, d, After(b, p, d) + 1))
           /\ ~Filled(b, Step(p, d, -(Before(b, p, d) + 1)))
<1>1. ASSUME NEW F, \A k \in Nat : k \in F => k \in Offsets
      PROVE  /\ Reach(F) \in Nat /\ Reach(F) + 1 \notin F
             /\ \A i \in 1 .. Reach(F) : i \in F
  <2>1. PICK n \in Nat : n = Reach(F) /\ \A i \in 1 .. n : i \in F
    BY ReachIs
  <2>2. ASSUME n + 1 \in F PROVE FALSE
    <3>1. n + 1 \in Offsets /\ \A i \in 1 .. n + 1 : i \in F
      BY <1>1, <2>1, <2>2
    <3>2. n + 1 <= n
      BY <2>1, <3>1, ReachIs
    <3> QED
      BY <3>2
  <2> QED
    BY <2>1, <2>2
<1>2. PICK F : F = Ahead(b, p, d)
  OBVIOUS
<1>3. PICK G : G = Behind(b, p, d)
  OBVIOUS
<1>4. \A k \in Nat : k \in F <=> Filled(b, Step(p, d, k))
  BY <1>2 DEF Ahead
<1>5. \A k \in Nat : k \in G <=> Filled(b, Step(p, d, -k))
  BY <1>3 DEF Behind
<1>6. (\A k \in Nat : k \in F => k \in Offsets) /\ (\A k \in Nat : k \in G => k \in Offsets)
  BY <1>4, <1>5, FarIsOff DEF Filled
<1>7. PICK m \in Nat : /\ m = Reach(F) /\ m + 1 \notin F /\ \A i \in 1 .. m : i \in F
  BY <1>1, <1>6
<1>8. PICK n \in Nat : /\ n = Reach(G) /\ n + 1 \notin G /\ \A i \in 1 .. n : i \in G
  BY <1>1, <1>6
<1>9. After(b, p, d) = m /\ Before(b, p, d) = n
  BY <1>2, <1>3, <1>7, <1>8, RunsAre
<1>10. /\ \A i \in 1 .. m : Filled(b, Step(p, d, i))
       /\ ~Filled(b, Step(p, d, m + 1))
  BY <1>4, <1>7
<1>11. /\ \A i \in 1 .. n : Filled(b, Step(p, d, -i))
       /\ ~Filled(b, Step(p, d, -(n + 1)))
  BY <1>5, <1>8
<1> QED
  BY <1>9, <1>10, <1>11

LEMMA AfterIs ==
    ASSUME NEW b, NEW p \in Cells, NEW d, NEW n \in Nat,
           \A i \in 1 .. n : Filled(b, Step(p, d, i)), ~Filled(b, Step(p, d, n + 1))
    PROVE  After(b, p, d) = n
<1>1. PICK m \in Nat : /\ m = After(b, p, d) /\ ~Filled(b, Step(p, d, m + 1))
                       /\ \A i \in 1 .. m : Filled(b, Step(p, d, i))
  BY RunEndsThere
<1>2. ~(m + 1 \in 1 .. n) /\ ~(n + 1 \in 1 .. m)
  BY <1>1
<1> QED
  BY <1>1, <1>2

LEMMA BeforeIs ==
    ASSUME NEW b, NEW p \in Cells, NEW d, NEW n \in Nat,
           \A i \in 1 .. n : Filled(b, Step(p, d, -i)), ~Filled(b, Step(p, d, -(n + 1)))
    PROVE  Before(b, p, d) = n
<1>1. PICK m \in Nat : /\ m = Before(b, p, d) /\ ~Filled(b, Step(p, d, -(m + 1)))
                       /\ \A i \in 1 .. m : Filled(b, Step(p, d, -i))
  BY RunEndsThere
<1>2. ~(m + 1 \in 1 .. n) /\ ~(n + 1 \in 1 .. m)
  BY <1>1
<1> QED
  BY <1>1, <1>2

\* A filled square of a run has the run's ends too.
LEMMA RunFromWithin ==
    ASSUME NEW b, NEW p \in Cells, NEW d, Filled(b, p),
           NEW j \in 0 .. After(b, p, d)
    PROVE  LET q == Step(p, d, j)
           IN  /\ q \in Cells
               /\ Before(b, q, d) = Before(b, p, d) + j
               /\ After(b, q, d) = After(b, p, d) - j
<1>1. PICK m \in Nat, n \in Nat :
        /\ m = After(b, p, d) /\ n = Before(b, p, d)
        /\ \A i \in 1 .. m : Filled(b, Step(p, d, i))
        /\ \A i \in 1 .. n : Filled(b, Step(p, d, -i))
        /\ ~Filled(b, Step(p, d, m + 1)) /\ ~Filled(b, Step(p, d, -(n + 1)))
  BY RunEndsThere
<1>2. PICK q : q = Step(p, d, j)
  OBVIOUS
<1>3. p \in Squares /\ j \in Int /\ j \in 0 .. m
  BY <1>1, CellsAreSquares
<1>4. /\ q \in Squares /\ Step(p, d, 0) = p
      /\ \A i \in Int : Step(q, d, i) = Step(p, d, j + i)
  BY <1>2, <1>3, Steps
<1>5. \A i \in -n .. m : Filled(b, Step(p, d, i))
  <2>1. SUFFICES ASSUME NEW i \in -n .. m PROVE Filled(b, Step(p, d, i))
    OBVIOUS
  <2>2. CASE i \in 1 .. m
    BY <1>1, <2>2
  <2>3. CASE i = 0
    BY <1>4, <2>3
  <2>4. CASE i < 0
    <3>1. PICK k \in 1 .. n : -k = i
      <4>1. -i \in 1 .. n /\ -(-i) = i
        BY <2>4
      <4> QED
        BY <4>1
    <3> QED
      BY <1>1, <3>1
  <2> QED
    BY <2>2, <2>3, <2>4
<1>6. q \in Cells
  BY <1>2, <1>3, <1>5 DEF Filled
<1>7. After(b, q, d) = m - j
  <2>1. m - j \in Nat
    BY <1>3
  <2>2. \A i \in 1 .. m - j : Filled(b, Step(q, d, i))
    <3>1. \A i \in 1 .. m - j : i \in Int /\ j + i \in -n .. m
      BY <1>3
    <3> QED
      BY <1>4, <1>5, <3>1
  <2>3. ~Filled(b, Step(q, d, (m - j) + 1))
    <3>1. (m - j) + 1 \in Int /\ j + ((m - j) + 1) = m + 1
      BY <1>3
    <3> QED
      BY <1>1, <1>4, <3>1
  <2> QED
    BY <1>6, <2>1, <2>2, <2>3, AfterIs
<1>8. Before(b, q, d) = n + j
  <2>1. n + j \in Nat
    BY <1>3
  <2>2. \A i \in 1 .. n + j : Filled(b, Step(q, d, -i))
    <3>1. \A i \in 1 .. n + j : -i \in Int /\ j + (-i) \in -n .. m
      BY <1>3
    <3> QED
      BY <1>4, <1>5, <3>1
  <2>3. ~Filled(b, Step(q, d, -((n + j) + 1)))
    <3>1. -((n + j) + 1) \in Int /\ j + (-((n + j) + 1)) = -(n + 1)
      BY <1>3
    <3> QED
      BY <1>1, <1>4, <3>1
  <2> QED
    BY <1>6, <2>1, <2>2, <2>3, BeforeIs
<1> QED
  BY <1>1, <1>2, <1>6, <1>7, <1>8

LEMMA StepsDiffer ==
    ASSUME NEW p \in Squares, NEW d, NEW j \in Int, NEW k \in Int,
           Step(p, d, j) = Step(p, d, k)
    PROVE  j = k
<1>1. PICK x \in Int, y \in Int : p = <<x, y>>
  BY DEF Squares
<1>2. x + j = x + k \/ y + j = y + k
  BY <1>1 DEF Step
<1> QED
  BY <1>2

\* The letters of a run, from n squares before p to m after it.
Line(b, p, d, n, m) == [i \in 1 .. n + 1 + m |-> b[Step(p, d, i - n - 1)].letter]
Span(p, d, n, m) == {Step(p, d, k) : k \in -n .. m}

LEMMA WordIs ==
    ASSUME NEW b, NEW p \in Cells, NEW d
    PROVE  /\ WordAt(b, p, d) = Spelling(Line(b, p, d, Before(b, p, d), After(b, p, d)))
           /\ Run(b, p, d) = Span(p, d, Before(b, p, d), After(b, p, d))
<1>1. PICK m \in Nat, n \in Nat : m = After(b, p, d) /\ n = Before(b, p, d)
  BY RunEndsThere
<1>2. \A i \in 1 .. n + 1 + m :
         (IF i = n + 1 THEN b[p].letter ELSE b[Step(p, d, i - n - 1)].letter)
           = b[Step(p, d, i - n - 1)].letter
  <2>1. Step(p, d, 0) = p
    BY CellsAreSquares, Steps
  <2> QED
    BY <2>1
<1>3. [i \in 1 .. n + 1 + m |->
          IF i = n + 1 THEN b[p].letter ELSE b[Step(p, d, i - n - 1)].letter]
        = Line(b, p, d, n, m)
  BY <1>2 DEF Line
<1> QED
  BY <1>1, <1>3 DEF WordAt, WordWith, Run, Span

\* Every square of a run is in the same word.
LEMMA WordFromWithin ==
    ASSUME NEW b, NEW p \in Cells, NEW d, Filled(b, p),
           NEW j \in 0 .. After(b, p, d)
    PROVE  LET q == Step(p, d, j)
           IN  WordAt(b, q, d) = WordAt(b, p, d) /\ Run(b, q, d) = Run(b, p, d)
<1>1. PICK m \in Nat, n \in Nat : m = After(b, p, d) /\ n = Before(b, p, d)
  BY RunEndsThere
<1>2. PICK q : q = Step(p, d, j)
  OBVIOUS
<1>3. q \in Cells /\ Before(b, q, d) = n + j /\ After(b, q, d) = m - j
  BY <1>1, <1>2, RunFromWithin
<1>4. p \in Squares /\ j \in Nat /\ j <= m
  BY <1>1, CellsAreSquares
<1>5. \A i \in Int : Step(q, d, i) = Step(p, d, j + i)
  BY <1>2, <1>4, Steps
<1>6. Line(b, q, d, n + j, m - j) = Line(b, p, d, n, m)
  <2>1. (n + j) + 1 + (m - j) = n + 1 + m
    BY <1>4
  <2>2. \A i \in 1 .. n + 1 + m : Step(q, d, i - (n + j) - 1) = Step(p, d, i - n - 1)
    <3>1. \A i \in 1 .. n + 1 + m : /\ i - (n + j) - 1 \in Int
                                    /\ j + (i - (n + j) - 1) = i - n - 1
      BY <1>4
    <3> QED
      BY <1>5, <3>1
  <2> QED
    BY <2>1, <2>2 DEF Line
<1>7. Span(q, d, n + j, m - j) = Span(p, d, n, m)
  <2>1. ASSUME NEW k \in -(n + j) .. m - j
        PROVE  Step(q, d, k) = Step(p, d, j + k) /\ j + k \in -n .. m
    BY <1>4, <1>5
  <2>2. ASSUME NEW k \in -n .. m
        PROVE  Step(p, d, k) = Step(q, d, k - j) /\ k - j \in -(n + j) .. m - j
    <3>1. k - j \in Int /\ j + (k - j) = k
      BY <1>4
    <3> QED
      BY <1>4, <1>5, <3>1
  <2>3. Span(q, d, n + j, m - j) \subseteq Span(p, d, n, m)
    BY <2>1 DEF Span
  <2>4. Span(p, d, n, m) \subseteq Span(q, d, n + j, m - j)
    BY <2>2 DEF Span
  <2> QED
    BY <2>3, <2>4
<1> QED
  BY <1>1, <1>2, <1>3, <1>6, <1>7, WordIs

-----------------------------------------------------------------------------
(* A candidate's squares.                                                  *)

LEMMA LeastIs ==
    ASSUME NEW T, T \subseteq Nat, T # {}
    PROVE  Min(T) \in T /\ \A j \in T : Min(T) <= j
<1>1. \E i \in T : \A j \in T : i <= j
  BY LeastExists
<1> QED
  BY <1>1 DEF Min

LEMMA CandidateIs ==
    ASSUME NEW c \in Moves
    PROVE  LET lo == Min(DOMAIN c.tiles)
               hi == Max(DOMAIN c.tiles)
           IN  /\ c.start \in Squares /\ c.direction \in Directions
               /\ lo \in DOMAIN c.tiles /\ hi \in DOMAIN c.tiles
               /\ lo \in Nat /\ hi \in Nat /\ lo <= hi
               /\ \A o \in DOMAIN c.tiles : o \in Nat /\ lo <= o /\ o <= hi
               /\ IsFiniteSet(DOMAIN c.tiles)
<1>1. PICK s, d, O, t :
        /\ s \in Cells /\ d \in Directions /\ O \in (SUBSET Offsets) \ {{}}
        /\ t \in [O -> AnyTile] /\ c = [start |-> s, direction |-> d, tiles |-> t]
  BY DEF Moves
<1>2. c.start = s /\ c.direction = d /\ DOMAIN c.tiles = O
  BY <1>1
<1>3. PICK m \in Nat : O \subseteq 0 .. m /\ O # {}
  BY <1>1, OffsetsAre
<1>4. O \subseteq Nat /\ IsFiniteSet(O)
  <2>1. PICK I : I = 0 .. m
    OBVIOUS
  <2>2. IsFiniteSet(I) /\ O \in SUBSET I /\ O \subseteq Nat
    BY <1>3, <2>1, FS_Interval
  <2>3. IsFiniteSet(O)
    BY <2>2, FS_Subset
  <2> QED
    BY <2>2, <2>3
<1>5. PICK lo \in O : lo = Min(O) /\ \A j \in O : lo <= j
  BY <1>3, <1>4, LeastIs
<1>6. PICK hi \in O : hi = Max(O) /\ \A j \in O : hi >= j
  BY <1>3, GreatestIs
<1> QED
  <2>1. s \in Squares /\ lo \in Nat /\ hi \in Nat /\ lo <= hi
    BY <1>1, <1>4, <1>5, <1>6, CellsAreSquares
  <2>2. \A o \in O : o \in Nat /\ lo <= o /\ o <= hi
    BY <1>4, <1>5, <1>6
  <2> QED
    BY <1>1, <1>2, <1>4, <1>5, <1>6, <2>1, <2>2

LEMMA PlacedIs ==
    ASSUME NEW c \in Moves
    PROVE  LET f == FirstSquare(c)
               d == c.direction
               lo == Min(DOMAIN c.tiles)
           IN  /\ f \in Placed(c) /\ f \in Squares
               /\ LastSquare(c) = Step(f, d, Max(DOMAIN c.tiles) - lo)
               /\ \A o \in Int : At(c, o) = Step(f, d, o - lo)
               /\ \A k \in Int : Step(f, d, k) \in Placed(c) <=> k + lo \in DOMAIN c.tiles
               /\ \A p \in Placed(c) : \E o \in DOMAIN c.tiles : p = Step(f, d, o - lo)
<1>1. PICK lo \in Nat, hi \in Nat :
        /\ lo = Min(DOMAIN c.tiles) /\ hi = Max(DOMAIN c.tiles)
        /\ lo \in DOMAIN c.tiles /\ \A o \in DOMAIN c.tiles : o \in Nat
  BY CandidateIs
<1>2. PICK s \in Squares, d \in Directions : s = c.start /\ d = c.direction
  BY CandidateIs
<1>3. PICK f \in Squares : f = FirstSquare(c) /\ f = Step(s, d, lo)
  <2>1. FirstSquare(c) = Step(s, d, lo)
    BY <1>1, <1>2 DEF FirstSquare, At
  <2> QED
    BY <2>1, Steps
<1>4. ASSUME NEW o \in Int PROVE At(c, o) = Step(f, d, o - lo)
  <2>1. lo \in Int /\ o - lo \in Int /\ lo + (o - lo) = o
    OBVIOUS
  <2> QED
    BY <1>2, <1>3, <2>1, Steps DEF At
<1>5. \A o \in DOMAIN c.tiles : At(c, o) \in Placed(c) /\ At(c, o) = Step(f, d, o - lo)
  BY <1>1, <1>4 DEF Placed
<1>6. f \in Placed(c)
  BY <1>1, <1>3, <1>5 DEF FirstSquare
<1>7. \A p \in Placed(c) : \E o \in DOMAIN c.tiles : p = Step(f, d, o - lo)
  BY <1>5 DEF Placed
<1>8. ASSUME NEW k \in Int
      PROVE  Step(f, d, k) \in Placed(c) <=> k + lo \in DOMAIN c.tiles
  <2>1. ASSUME k + lo \in DOMAIN c.tiles PROVE Step(f, d, k) \in Placed(c)
    <3>1. (k + lo) - lo = k
      OBVIOUS
    <3> QED
      BY <1>5, <2>1, <3>1
  <2>2. ASSUME Step(f, d, k) \in Placed(c) PROVE k + lo \in DOMAIN c.tiles
    <3>1. PICK o \in DOMAIN c.tiles : Step(f, d, k) = Step(f, d, o - lo)
      BY <1>7, <2>2
    <3>2. o \in Nat
      BY <1>1
    <3>3. k = o - lo
      BY <1>3, <3>1, <3>2 DEF Step, Squares
    <3> QED
      BY <3>2, <3>3
  <2> QED
    BY <2>1, <2>2
<1>9. LastSquare(c) = Step(f, d, hi - lo)
  BY <1>1, <1>4 DEF LastSquare
<1> QED
  BY <1>1, <1>2, <1>3, <1>4, <1>6, <1>7, <1>8, <1>9

-----------------------------------------------------------------------------
(* The board after a move.                                                 *)

\* The tiles of c lie on free squares of s, and after is the board with them.
Put(s, after, c) ==
    /\ after = Filling(s, c)
    /\ \A p \in Placed(c) : p \in Cells /\ ~Filled(s.board, p) /\ Filled(after, p)

LEMMA FilledAfter ==
    ASSUME NEW s, NEW after, NEW c, Put(s, after, c)
    PROVE  /\ \A p : Filled(after, p) <=> p \in Placed(c) \/ Filled(s.board, p)
           /\ \A p \in Cells : after[p] = OnBoard(s, c, p)
           /\ \A p \in Cells \ Placed(c) : after[p] = s.board[p]
<1>1. \A p \in Cells : after[p] = OnBoard(s, c, p)
  BY DEF Put, Filling
<1>2. \A p \in Cells \ Placed(c) : after[p] = s.board[p]
  BY <1>1 DEF OnBoard
<1>3. ASSUME NEW p PROVE Filled(after, p) <=> p \in Placed(c) \/ Filled(s.board, p)
  <2>1. CASE p \in Placed(c)
    BY <2>1 DEF Put
  <2>2. CASE p \notin Placed(c)
    BY <1>2, <2>2 DEF Filled
  <2> QED
    BY <2>1, <2>2
<1> QED
  BY <1>1, <1>2, <1>3

\* The run of the first tile on the new board, if there is no gap.
LEMMA SolidRun ==
    ASSUME NEW s, NEW after, NEW c \in Moves, Put(s, after, c), Solid(s, c)
    PROVE  LET f == FirstSquare(c)
               d == c.direction
           IN  /\ Before(after, f, d) = Before(s.board, f, d)
               /\ After(after, f, d) = (Max(DOMAIN c.tiles) - Min(DOMAIN c.tiles))
                                           + After(s.board, LastSquare(c), d)
<1>1. PICK lo \in Nat, hi \in Nat :
        /\ lo = Min(DOMAIN c.tiles) /\ hi = Max(DOMAIN c.tiles) /\ lo <= hi
        /\ lo \in DOMAIN c.tiles /\ hi \in DOMAIN c.tiles
        /\ \A o \in DOMAIN c.tiles : o \in Nat /\ lo <= o /\ o <= hi
  BY CandidateIs
<1>2. PICK f, d, e : f = FirstSquare(c) /\ d = c.direction /\ e = LastSquare(c)
  OBVIOUS
<1>3. /\ f \in Placed(c) /\ f \in Squares /\ e = Step(f, d, hi - lo)
      /\ \A o \in Int : At(c, o) = Step(f, d, o - lo)
      /\ \A k \in Int : Step(f, d, k) \in Placed(c) <=> k + lo \in DOMAIN c.tiles
  BY <1>1, <1>2, PlacedIs
<1>4. \A p : Filled(after, p) <=> p \in Placed(c) \/ Filled(s.board, p)
  BY FilledAfter
<1>5. e \in Placed(c)
  BY <1>1, <1>3
<1>6. f \in Cells /\ e \in Cells /\ e \in Squares
  BY <1>3, <1>5, CellsAreSquares DEF Put
<1>7. PICK n \in Nat, m \in Nat :
        /\ n = Before(s.board, f, d) /\ m = After(s.board, e, d)
        /\ \A i \in 1 .. n : Filled(s.board, Step(f, d, -i))
        /\ ~Filled(s.board, Step(f, d, -(n + 1)))
        /\ \A i \in 1 .. m : Filled(s.board, Step(e, d, i))
        /\ ~Filled(s.board, Step(e, d, m + 1))
  BY <1>6, RunEndsThere
<1>8. Before(after, f, d) = n
  <2>1. \A i \in 1 .. n : Filled(after, Step(f, d, -i))
    BY <1>4, <1>7
  <2>2. ~Filled(after, Step(f, d, -(n + 1)))
    <3>1. -(n + 1) \in Int /\ ~(-(n + 1) + lo \in DOMAIN c.tiles)
      BY <1>1
    <3> QED
      BY <1>3, <1>4, <1>7, <3>1
  <2> QED
    BY <1>6, <2>1, <2>2, BeforeIs
<1>9. \A i \in Int : Step(e, d, i) = Step(f, d, (hi - lo) + i)
  BY <1>1, <1>3, Steps
<1>10. After(after, f, d) = (hi - lo) + m
  <2>1. (hi - lo) + m \in Nat
    BY <1>1
  <2>2. \A i \in 1 .. (hi - lo) + m : Filled(after, Step(f, d, i))
    <3>1. SUFFICES ASSUME NEW i \in 1 .. (hi - lo) + m PROVE Filled(after, Step(f, d, i))
      OBVIOUS
    <3>2. CASE i <= hi - lo
      <4>1. i \in Int /\ i + lo \in lo .. hi /\ i + lo \in Int /\ (i + lo) - lo = i
        BY <1>1, <3>2
      <4>2. i + lo \in DOMAIN c.tiles \/ Filled(s.board, At(c, i + lo))
        BY <1>1, <4>1 DEF Solid
      <4>3. At(c, i + lo) = Step(f, d, i)
        BY <1>3, <4>1
      <4> QED
        BY <1>3, <1>4, <4>1, <4>2, <4>3
    <3>3. CASE ~(i <= hi - lo)
      <4>1. PICK k \in 1 .. m : (hi - lo) + k = i
        <5>1. i - (hi - lo) \in 1 .. m /\ (hi - lo) + (i - (hi - lo)) = i
          BY <1>1, <3>3
        <5> QED
          BY <5>1
      <4>2. Step(e, d, k) = Step(f, d, i)
        BY <1>9, <4>1
      <4> QED
        BY <1>4, <1>7, <4>2
    <3> QED
      BY <3>2, <3>3
  <2>3. ~Filled(after, Step(f, d, ((hi - lo) + m) + 1))
    <3>1. /\ ((hi - lo) + m) + 1 \in Int /\ m + 1 \in Int
          /\ ((hi - lo) + m) + 1 = (hi - lo) + (m + 1)
          /\ ~((((hi - lo) + m) + 1) + lo \in DOMAIN c.tiles)
      BY <1>1
    <3>2. Step(f, d, ((hi - lo) + m) + 1) = Step(e, d, m + 1)
      BY <1>9, <3>1
    <3> QED
      BY <1>3, <1>4, <1>7, <3>1, <3>2
  <2> QED
    BY <1>6, <2>1, <2>2, <2>3, AfterIs
<1> QED
  BY <1>1, <1>2, <1>7, <1>8, <1>10

\* No gap is what makes all tiles be in one run.
LEMMA SolidIsStraight ==
    ASSUME NEW s, NEW after, NEW c \in Moves, Put(s, after, c)
    PROVE  Solid(s, c) <=> Straight(after, c)
<1>1. PICK lo \in Nat, hi \in Nat :
        /\ lo = Min(DOMAIN c.tiles) /\ hi = Max(DOMAIN c.tiles) /\ lo <= hi
        /\ lo \in DOMAIN c.tiles /\ hi \in DOMAIN c.tiles
        /\ \A o \in DOMAIN c.tiles : o \in Nat /\ lo <= o /\ o <= hi
  BY CandidateIs
<1>2. PICK f, d, e : f = FirstSquare(c) /\ d = c.direction /\ e = LastSquare(c)
  OBVIOUS
<1>3. /\ f \in Placed(c) /\ f \in Squares /\ e = Step(f, d, hi - lo)
      /\ \A o \in Int : At(c, o) = Step(f, d, o - lo)
      /\ \A k \in Int : Step(f, d, k) \in Placed(c) <=> k + lo \in DOMAIN c.tiles
      /\ \A p \in Placed(c) : \E o \in DOMAIN c.tiles : p = Step(f, d, o - lo)
  BY <1>1, <1>2, PlacedIs
<1>4. \A p : Filled(after, p) <=> p \in Placed(c) \/ Filled(s.board, p)
  BY FilledAfter
<1>5. e \in Placed(c) /\ f \in Cells
  BY <1>1, <1>3 DEF Put
<1>6. PICK n \in Nat, m \in Nat :
        /\ n = Before(after, f, d) /\ m = After(after, f, d)
        /\ \A i \in 1 .. m : Filled(after, Step(f, d, i))
  BY <1>5, RunEndsThere
<1>7. Straight(after, c) <=> Placed(c) \subseteq {Step(f, d, k) : k \in -n .. m}
  BY <1>2, <1>6 DEF Straight, Run
<1>8. ASSUME Solid(s, c) PROVE Straight(after, c)
  <2>1. PICK a \in Nat : a = After(s.board, e, d)
    BY <1>5, RunEndsThere DEF Put
  <2>2. m = (hi - lo) + a
    BY <1>1, <1>2, <1>6, <1>8, <2>1, SolidRun
  <2>3. \A o \in DOMAIN c.tiles : o - lo \in -n .. m
    BY <1>1, <2>2
  <2> QED
    BY <1>3, <1>7, <2>3
<1>9. ASSUME Straight(after, c) PROVE Solid(s, c)
  <2>1. PICK k \in -n .. m : e = Step(f, d, k)
    BY <1>5, <1>7, <1>9
  <2>2. hi - lo = k
    <3>1. hi - lo \in Int /\ k \in Int /\ Step(f, d, hi - lo) = Step(f, d, k)
      BY <1>1, <1>3, <1>6, <2>1
    <3> QED
      BY <1>3, <3>1, StepsDiffer
  <2>3. ASSUME NEW o \in lo .. hi
        PROVE  o \in DOMAIN c.tiles \/ Filled(s.board, At(c, o))
    <3>0. hi - lo <= m
      BY <1>6, <2>1, <2>2
    <3>1. /\ o \in Int /\ o - lo \in 0 .. m /\ (o - lo) + lo = o
          /\ o - lo \in Int /\ At(c, o) = Step(f, d, o - lo)
      <4>1. o \in Int /\ o - lo \in 0 .. m /\ (o - lo) + lo = o /\ o - lo \in Int
        BY <1>1, <1>6, <3>0
      <4> QED
        BY <1>3, <4>1
    <3>2. Filled(after, At(c, o))
      <4>1. CASE o = lo
        BY <1>1, <1>3, <1>4, <3>1, <4>1
      <4>2. CASE o # lo
        <5>1. o - lo \in 1 .. m
          BY <3>1, <4>2
        <5> QED
          BY <1>6, <3>1, <5>1
      <4> QED
        BY <4>1, <4>2
    <3> QED
      BY <1>3, <1>4, <3>1, <3>2
  <2> QED
    BY <1>1, <2>3 DEF Solid
<1> QED
  BY <1>8, <1>9

LEMMA RunIsFilled ==
    ASSUME NEW b, NEW p \in Cells, NEW d, Filled(b, p)
    PROVE  \A k \in -Before(b, p, d) .. After(b, p, d) : Filled(b, Step(p, d, k))
<1>1. PICK m \in Nat, n \in Nat :
        /\ m = After(b, p, d) /\ n = Before(b, p, d)
        /\ \A i \in 1 .. m : Filled(b, Step(p, d, i))
        /\ \A i \in 1 .. n : Filled(b, Step(p, d, -i))
  BY RunEndsThere
<1>2. SUFFICES ASSUME NEW i \in -n .. m PROVE Filled(b, Step(p, d, i))
  BY <1>1
<1>3. CASE i \in 1 .. m
  BY <1>1, <1>3
<1>4. CASE i = 0
  BY <1>4, CellsAreSquares, Steps
<1>5. CASE i < 0
  <2>1. PICK k \in 1 .. n : -k = i
    <3>1. -i \in 1 .. n /\ -(-i) = i
      BY <1>5
    <3> QED
      BY <3>1
  <2> QED
    BY <1>1, <2>1
<1> QED
  BY <1>3, <1>4, <1>5

\* The word that is validated and scored is the run of the first tile.
LEMMA MainIs ==
    ASSUME NEW s, NEW after, NEW c \in Moves, Put(s, after, c), Solid(s, c)
    PROVE  LET f == FirstSquare(c)
               d == c.direction
               n == Before(after, f, d)
               m == After(after, f, d)
           IN  /\ f \in Cells /\ n \in Nat /\ m \in Nat
               /\ MainWord(s, c) = WordAt(after, f, d)
               /\ MainLength(s, c) = n + 1 + m
               /\ \A i \in 1 .. n + 1 + m :
                     /\ MainCell(s, c, i) = Step(f, d, i - n - 1)
                     /\ OnBoard(s, c, MainCell(s, c, i)) = after[MainCell(s, c, i)]
               /\ \A k \in -n .. m : Filled(after, Step(f, d, k))
<1>1. PICK f, d, e : f = FirstSquare(c) /\ d = c.direction /\ e = LastSquare(c)
  OBVIOUS
<1>2. f \in Placed(c) /\ f \in Squares /\ f \in Cells /\ Filled(after, f)
  BY <1>1, PlacedIs DEF Put
<1>3. PICK n \in Nat, m \in Nat : n = Before(after, f, d) /\ m = After(after, f, d)
  BY <1>2, RunEndsThere
<1>4. PICK a \in Nat, lo \in Nat, hi \in Nat :
        /\ a = After(s.board, e, d) /\ lo = Min(DOMAIN c.tiles) /\ hi = Max(DOMAIN c.tiles)
  <2>1. PICK lo \in Nat, hi \in Nat :
          /\ lo = Min(DOMAIN c.tiles) /\ hi = Max(DOMAIN c.tiles)
          /\ hi \in DOMAIN c.tiles
    BY CandidateIs
  <2>2. e \in Placed(c)
    BY <1>1, <2>1 DEF LastSquare, Placed
  <2>3. After(s.board, e, d) \in Nat
    BY <2>2, RunEndsThere DEF Put
  <2> QED
    BY <2>1, <2>3
<1>5. Before(s.board, f, d) = n /\ m = (hi - lo) + a
  BY <1>1, <1>3, <1>4, SolidRun
<1>6. MainLength(s, c) = n + 1 + m
  <2>1. MainLength(s, c) = n + (hi - lo) + 1 + a
    BY <1>1, <1>4, <1>5 DEF MainLength
  <2> QED
    BY <1>5, <2>1
<1>7. \A k \in -n .. m : Filled(after, Step(f, d, k))
  BY <1>2, <1>3, RunIsFilled
<1>8. ASSUME NEW i \in 1 .. n + 1 + m
      PROVE  /\ MainCell(s, c, i) = Step(f, d, i - n - 1)
             /\ Step(f, d, i - n - 1) \in Cells
             /\ OnBoard(s, c, MainCell(s, c, i)) = after[MainCell(s, c, i)]
  <2>1. i - 1 - n = i - n - 1 /\ i - n - 1 \in -n .. m
    OBVIOUS
  <2>2. MainCell(s, c, i) = Step(f, d, i - n - 1)
    BY <1>1, <1>5, <2>1 DEF MainCell
  <2>3. Step(f, d, i - n - 1) \in Cells
    BY <1>7, <2>1 DEF Filled
  <2> QED
    BY <2>2, <2>3, FilledAfter
<1>9. MainWord(s, c) = Spelling(Line(after, f, d, n, m))
  BY <1>6, <1>8 DEF MainWord, Line
<1> QED
  BY <1>1, <1>2, <1>3, <1>6, <1>7, <1>8, <1>9, WordIs

-----------------------------------------------------------------------------
(* The words across.                                                       *)

\* Across the direction of the move no two of its tiles are in one line.
LEMMA AloneAcross ==
    ASSUME NEW c \in Moves, NEW p \in Placed(c), NEW k \in Int, k # 0
    PROVE  Step(p, Perpendicular(c.direction), k) \notin Placed(c)
<1>1. PICK f \in Squares, d \in Directions, lo \in Nat :
        /\ d = c.direction
        /\ \A o \in DOMAIN c.tiles : o \in Nat
        /\ \A q \in Placed(c) : \E o \in DOMAIN c.tiles : q = Step(f, d, o - lo)
  BY CandidateIs, PlacedIs
<1>2. \A q \in Placed(c) : \E j \in Int : q = Step(f, d, j)
  BY <1>1
<1>3. SUFFICES ASSUME Step(p, Perpendicular(d), k) \in Placed(c) PROVE FALSE
  BY <1>1
<1>4. PICK i \in Int, j \in Int : p = Step(f, d, i) /\ Step(p, Perpendicular(d), k) = Step(f, d, j)
  BY <1>2, <1>3
<1>5. PICK x \in Int, y \in Int : f = <<x, y>>
  BY DEF Squares
<1>6. CASE d = "horizontal"
  <2>1. p = <<x + i, y>> /\ Step(p, Perpendicular(d), k) = <<x + i, y + k>>
        /\ Step(f, d, j) = <<x + j, y>>
    BY <1>4, <1>5, <1>6 DEF Step, Perpendicular
  <2> QED
    BY <1>4, <2>1
<1>7. CASE d = "vertical"
  <2>1. p = <<x, y + i>> /\ Step(p, Perpendicular(d), k) = <<x + k, y + i>>
        /\ Step(f, d, j) = <<x, y + j>>
    BY <1>4, <1>5, <1>7 DEF Step, Perpendicular
  <2> QED
    BY <1>4, <2>1
<1> QED
  BY <1>1, <1>6, <1>7 DEF Directions

LEMMA AcrossIs ==
    ASSUME NEW s, NEW after, NEW c \in Moves, Put(s, after, c), NEW p \in Placed(c)
    PROVE  LET e == Perpendicular(c.direction)
               n == Before(s.board, p, e)
               m == After(s.board, p, e)
           IN  /\ n \in Nat /\ m \in Nat
               /\ Before(after, p, e) = n /\ After(after, p, e) = m
               /\ Run(after, p, e) = Run(s.board, p, e)
               /\ \A k \in -n .. m :
                     k # 0 => /\ Filled(s.board, Step(p, e, k))
                              /\ Step(p, e, k) \notin Placed(c)
                              /\ after[Step(p, e, k)] = s.board[Step(p, e, k)]
<1>1. PICK e : e = Perpendicular(c.direction)
  OBVIOUS
<1>2. p \in Cells /\ Filled(after, p)
  BY DEF Put
<1>3. PICK n \in Nat, m \in Nat :
        /\ n = Before(s.board, p, e) /\ m = After(s.board, p, e)
        /\ \A i \in 1 .. n : Filled(s.board, Step(p, e, -i))
        /\ ~Filled(s.board, Step(p, e, -(n + 1)))
        /\ \A i \in 1 .. m : Filled(s.board, Step(p, e, i))
        /\ ~Filled(s.board, Step(p, e, m + 1))
  BY <1>2, RunEndsThere
<1>4. \A k \in Int : k # 0 =>
         /\ Step(p, e, k) \notin Placed(c)
         /\ Filled(after, Step(p, e, k)) <=> Filled(s.board, Step(p, e, k))
  BY <1>1, AloneAcross, FilledAfter
<1>5. Before(after, p, e) = n
  <2>1. \A i \in 1 .. n : Filled(after, Step(p, e, -i))
    BY <1>3, <1>4
  <2>2. ~Filled(after, Step(p, e, -(n + 1)))
    <3>1. -(n + 1) \in Int /\ -(n + 1) # 0
      OBVIOUS
    <3> QED
      BY <1>3, <1>4, <3>1
  <2> QED
    BY <1>2, <2>1, <2>2, BeforeIs
<1>6. After(after, p, e) = m
  <2>1. \A i \in 1 .. m : Filled(after, Step(p, e, i))
    BY <1>3, <1>4
  <2>2. ~Filled(after, Step(p, e, m + 1))
    <3>1. m + 1 \in Int /\ m + 1 # 0
      OBVIOUS
    <3> QED
      BY <1>3, <1>4, <3>1
  <2> QED
    BY <1>2, <2>1, <2>2, AfterIs
<1>7. ASSUME NEW k \in -n .. m, k # 0
      PROVE  /\ Filled(s.board, Step(p, e, k)) /\ Step(p, e, k) \notin Placed(c)
             /\ after[Step(p, e, k)] = s.board[Step(p, e, k)]
  <2>1. Filled(after, Step(p, e, k))
    BY <1>2, <1>5, <1>6, RunIsFilled
  <2>2. Step(p, e, k) \in Cells /\ k \in Int
    BY <2>1 DEF Filled
  <2> QED
    BY <1>4, <1>7, <2>1, <2>2, FilledAfter
<1>8. Run(after, p, e) = Run(s.board, p, e)
  BY <1>3, <1>5, <1>6 DEF Run
<1> QED
  BY <1>1, <1>3, <1>5, <1>6, <1>7, <1>8

\* A span of squares is finite, and has others than the first square or none.
LEMMA SpanIs ==
    ASSUME NEW p \in Squares, NEW d, NEW n \in Nat, NEW m \in Nat
    PROVE  LET R == Span(p, d, n, m)
           IN  /\ IsFiniteSet(R) /\ IsFiniteSet(R \ {p}) /\ p \in R
               /\ Cardinality(R) >= 2 <=> R \ {p} # {}
               /\ R \ {p} = {} <=> (n = 0 /\ m = 0)
               /\ \A q \in R \ {p} : \E k \in -n .. m : k # 0 /\ q = Step(p, d, k)
<1>1. PICK I : I = -n .. m
  OBVIOUS
<1>2. PICK R : R = Span(p, d, n, m)
  OBVIOUS
<1>3. IsFiniteSet(I) /\ I \subseteq Int /\ 0 \in I
  BY <1>1, FS_Interval
<1>4. R = {Step(p, d, k) : k \in I}
  BY <1>1, <1>2 DEF Span
<1>5. IsFiniteSet(R)
  <2>1. PICK g : g = [k \in I |-> Step(p, d, k)]
    OBVIOUS
  <2>2. g \in Surjection(I, R)
    BY <1>4, <2>1 DEF Surjection
  <2> QED
    BY <1>3, <2>2, FS_Surjection
<1>6. Step(p, d, 0) = p /\ p \in R
  BY <1>3, <1>4, Steps
<1>7. PICK Q : Q = R \ {p}
  OBVIOUS
<1>8. IsFiniteSet(Q) /\ Cardinality(Q) = Cardinality(R) - 1 /\ Cardinality(R) \in Nat
      /\ Cardinality(Q) \in Nat /\ (Cardinality(Q) = 0 <=> Q = {})
  <2>1. IsFiniteSet(Q) /\ Cardinality(Q) = Cardinality(R) - 1
    BY <1>5, <1>6, <1>7, FS_RemoveElement
  <2> QED
    BY <1>5, <2>1, FS_CardinalityType, FS_EmptySet
<1>9. \A k \in I : k # 0 => Step(p, d, k) # p
  BY <1>3, Steps
<1>10. \A q \in Q : \E k \in I : k # 0 /\ q = Step(p, d, k)
  BY <1>4, <1>6, <1>7
<1>11. Q = {} <=> \A k \in I : k = 0
  BY <1>4, <1>7, <1>9, <1>10
<1>12. (\A k \in I : k = 0) <=> (n = 0 /\ m = 0)
  <2>1. -n \in I /\ m \in I
    BY <1>1
  <2>2. ASSUME n = 0, m = 0 PROVE \A k \in I : k = 0
    BY <1>1, <2>2
  <2>3. ASSUME \A k \in I : k = 0 PROVE n = 0 /\ m = 0
    <3>1. -n = 0 /\ m = 0
      BY <2>1, <2>3
    <3> QED
      BY <3>1
  <2> QED
    BY <2>2, <2>3
<1> QED
  BY <1>1, <1>2, <1>5, <1>6, <1>7, <1>8, <1>10, <1>11, <1>12

-----------------------------------------------------------------------------
(* The dictionary: packed entries.                                          *)

LEMMA TwoPower ==
    ASSUME NEW S, IsFiniteSet(S), NEW n \in Nat, Cardinality(S) = n
    PROVE  2 ^ n \in Nat \ {0} /\ IsFiniteSet(SUBSET S) /\ Cardinality(SUBSET S) = 2 ^ n
<1>1. IsFiniteSet(SUBSET S) /\ Cardinality(SUBSET S) = 2 ^ n
  BY FS_SUBSET
<1>2. Cardinality(SUBSET S) \in Nat
  BY <1>1, FS_CardinalityType
<1>3. Cardinality(SUBSET S) # 0
  <2>1. SUBSET S # {}
    OBVIOUS
  <2> QED
    BY <1>1, <2>1, FS_EmptySet
<1> QED
  BY <1>1, <1>2, <1>3

\* The laws of powers of two: a set of m + n elements has a subset for every two
\* subsets of its parts.
LEMMA PowersOfTwo ==
    ASSUME NEW m \in Nat, NEW n \in Nat
    PROVE  2 ^ m \in Nat \ {0} /\ 2 ^ (m + n) = 2 ^ m * 2 ^ n
<1> DEFINE A == 1 .. m
           B == m + 1 .. m + n
           f == [p \in (SUBSET A) \X (SUBSET B) |-> p[1] \cup p[2]]
<1>1. IsFiniteSet(A) /\ Cardinality(A) = m
  <2>1. IsFiniteSet(1 .. m) /\ Cardinality(1 .. m) = IF 1 > m THEN 0 ELSE m - 1 + 1
    BY FS_Interval
  <2> QED
    BY <2>1
<1>2. IsFiniteSet(B) /\ Cardinality(B) = n
  <2>1. PICK a \in Int, b \in Int : a = m + 1 /\ b = m + n
    OBVIOUS
  <2>2. IsFiniteSet(a .. b) /\ Cardinality(a .. b) = IF a > b THEN 0 ELSE b - a + 1
    BY FS_Interval
  <2> QED
    BY <2>1, <2>2
<1>3. IsFiniteSet(1 .. m + n) /\ Cardinality(1 .. m + n) = m + n
  <2>1. PICK k \in Nat : k = m + n
    OBVIOUS
  <2>2. IsFiniteSet(1 .. k) /\ Cardinality(1 .. k) = IF 1 > k THEN 0 ELSE k - 1 + 1
    BY FS_Interval
  <2> QED
    BY <2>1, <2>2
<1>4. /\ 2 ^ m \in Nat \ {0} /\ IsFiniteSet(SUBSET A) /\ Cardinality(SUBSET A) = 2 ^ m
  BY <1>1, TwoPower
<1>5. 2 ^ n \in Nat \ {0} /\ IsFiniteSet(SUBSET B) /\ Cardinality(SUBSET B) = 2 ^ n
  BY <1>2, TwoPower
<1>6. m + n \in Nat /\ Cardinality(SUBSET (1 .. m + n)) = 2 ^ (m + n)
  <2>1. PICK k \in Nat : k = m + n
    OBVIOUS
  <2>2. Cardinality(SUBSET (1 .. k)) = 2 ^ k
    BY <1>3, <2>1, TwoPower
  <2> QED
    BY <2>1, <2>2
<1>7. /\ IsFiniteSet((SUBSET A) \X (SUBSET B))
      /\ Cardinality((SUBSET A) \X (SUBSET B)) = 2 ^ m * 2 ^ n
  BY <1>4, <1>5, FS_Product
<1>8. f \in Bijection((SUBSET A) \X (SUBSET B), SUBSET (1 .. m + n))
  <2>1. \A i \in A : i \notin B
    OBVIOUS
  <2>2. \A i : i \in 1 .. m + n <=> i \in A \/ i \in B
    OBVIOUS
  <2> HIDE DEF A, B
  <2>3. f \in [(SUBSET A) \X (SUBSET B) -> SUBSET (1 .. m + n)]
    BY <2>2
  <2>4. ASSUME NEW p \in (SUBSET A) \X (SUBSET B), NEW q \in (SUBSET A) \X (SUBSET B), f[p] = f[q]
        PROVE  p = q
    <3>1. p[1] \cup p[2] = q[1] \cup q[2]
      BY <2>4
    <3>2. p[1] = q[1] /\ p[2] = q[2]
      BY <2>1, <3>1
    <3> QED
      BY <3>2
  <2>5. ASSUME NEW s \in SUBSET (1 .. m + n)
        PROVE  \E p \in (SUBSET A) \X (SUBSET B) : f[p] = s
    <3>1. <<s \cap A, s \cap B>> \in (SUBSET A) \X (SUBSET B)
      OBVIOUS
    <3>2. f[<<s \cap A, s \cap B>>] = s
      BY <2>2, <3>1
    <3> QED
      BY <3>1, <3>2
  <2> HIDE DEF f
  <2> QED
    BY <2>3, <2>4, <2>5 DEF Bijection, Injection, Surjection, IsInjective
<1>9. ExistsBijection((SUBSET A) \X (SUBSET B), SUBSET (1 .. m + n))
  <2> HIDE DEF A, B, f
  <2> QED
    BY <1>8 DEF ExistsBijection
<1>10. Cardinality(SUBSET (1 .. m + n)) = Cardinality((SUBSET A) \X (SUBSET B))
  <2> HIDE DEF A, B, f
  <2> QED
    BY <1>7, <1>9, FS_Bijection
<1> QED
  BY <1>4, <1>6, <1>7, <1>10

LEMMA PartsOf ==
    ASSUME NEW d \in Nat \ {0}, NEW q \in Nat, NEW r \in 0 .. d - 1
    PROVE  (q * d + r) \div d = q /\ (q * d + r) % d = r
<1>1. PICK n \in Nat : n = q * d + r
  OBVIOUS
<1>2. PICK p \in Int, s \in 0 .. d - 1 : p = n \div d /\ s = n % d /\ n = d * p + s
  OBVIOUS
<1>3. PICK k \in Int : k = q - p
  OBVIOUS
<1>4. d * k = s - r
  BY <1>1, <1>2, <1>3
<1>5. k >= 1 => d * k >= d
  OBVIOUS
<1>6. k <= 0 - 1 => d * k <= 0 - d
  OBVIOUS
<1>7. ~(k >= 1) /\ ~(k <= 0 - 1)
  BY <1>2, <1>4, <1>5, <1>6
<1>8. k = 0 /\ s = r
  BY <1>4, <1>7
<1> QED
  BY <1>1, <1>2, <1>3, <1>8

\* Packing an entry of the dictionary into one number loses nothing, and none is
\* packed as the empty one, whatever the widths, as long as length and start are
\* what pack asserts: they fit their fields, and the length is not zero.
THEOREM PackedIsKept ==
    ASSUME NEW kind \in {"leaf", "index"}, NEW isWord \in BOOLEAN,
           NEW len \in 1 .. 2 ^ LenBits(kind) - 1,
           NEW start \in 1 .. 2 ^ (SizeBits - LenBits(kind))
    PROVE  /\ Pack(Child(kind, start, len, isWord)) # Pack(Empty)
           /\ Unpack(Pack(Child(kind, start, len, isWord))) = Child(kind, start, len, isWord)
<1>1. PICK b \in Nat, a \in Nat : b = LenBits(kind) /\ a = SizeBits - b /\ SizeBits = a + b
  <2>1. {LeafLenBits, IndexLenBits} \subseteq 1 .. SizeBits - 1 /\ SizeBits \in 2 .. 30
    BY LexiconAssumption, Zenon
  <2>2. LenBits(kind) \in {LeafLenBits, IndexLenBits}
    BY DEF LenBits
  <2>3. LenBits(kind) \in 1 .. SizeBits - 1 /\ SizeBits \in Nat
    BY <2>1, <2>2
  <2>4. \A m, b \in Nat : b \in 1 .. m - 1 => m - b \in Nat /\ m = m - b + b
    OBVIOUS
  <2> QED
    BY <2>3, <2>4
<1>2. PICK lens \in Nat \ {0}, starts \in Nat \ {0} :
         lens = 2 ^ b /\ starts = 2 ^ a /\ 2 ^ SizeBits = starts * lens
  BY <1>1, PowersOfTwo
<1>3. len \in 1 .. lens - 1 /\ start - 1 \in 0 .. starts - 1
  BY <1>1, <1>2
<1>4. PICK flags \in 0 .. 3 :
         flags = (IF kind = "leaf" THEN 2 ELSE 0) + (IF isWord THEN 1 ELSE 0)
  OBVIOUS
<1>5. PICK child : child = Child(kind, start, len, isWord)
  OBVIOUS
<1>6. /\ child # Empty /\ child.kind = kind /\ child.start = start
      /\ child.len = len /\ child.isWord = isWord
  BY <1>5 DEF Child, Empty
<1>7. PICK low \in 0 .. starts * lens - 1 : low = len * starts + (start - 1)
  <2>1. (len + 1) * starts <= lens * starts
    BY <1>3
  <2>2. len * starts + (start - 1) \in Nat /\ len * starts + (start - 1) < (len + 1) * starts
    BY <1>3
  <2> QED
    BY <2>1, <2>2
<1>8. PICK packed \in Nat : packed = Pack(child) /\ packed = flags * (starts * lens) + low
  BY <1>1, <1>2, <1>4, <1>6, <1>7 DEF Pack
<1>9. starts * lens \in Nat \ {0} /\ packed \div (starts * lens) = flags
  BY <1>7, <1>8, PartsOf
<1>10. packed % starts = start - 1 /\ packed \div starts = flags * lens + len
  <2>1. PICK q \in Nat : q = flags * lens + len
    BY <1>3
  <2>2. packed = q * starts + (start - 1)
    BY <1>7, <1>8, <2>1
  <2> QED
    BY <1>3, <2>1, <2>2, PartsOf
<1>11. (flags * lens + len) % lens = len
  BY <1>3, PartsOf
<1>12. packed # 0
  BY <1>3, <1>7, <1>8
<1>13. /\ flags >= 2 <=> kind = "leaf"
       /\ flags % 2 = 1 <=> isWord
  BY <1>4
<1>14. Unpack(packed) = Child(kind, start, len, isWord)
  <2>1. packed \div 2 ^ SizeBits = flags
    BY <1>2, <1>9
  <2>2. (IF flags >= 2 THEN "leaf" ELSE "index") = kind
    BY <1>13
  <2>3. (packed % 2 ^ a) + 1 = start /\ (packed \div 2 ^ a) % 2 ^ b = len
    BY <1>2, <1>3, <1>10, <1>11
  <2>4. (flags % 2 = 1) = isWord
    BY <1>13
  <2>5. SizeBits - LenBits(kind) = a /\ LenBits(kind) = b
    BY <1>1
  <2>6. Unpack(packed) = Child(kind, (packed % 2 ^ a) + 1,
                              (packed \div 2 ^ a) % 2 ^ b, flags % 2 = 1)
    BY <1>12, <2>1, <2>2, <2>5, Zenon DEF Unpack
  <2> QED
    BY <2>3, <2>4, <2>6, Zenon
<1> QED
  BY <1>5, <1>8, <1>12, <1>14 DEF Pack

-----------------------------------------------------------------------------
(* The dictionary: sets and sequences.                                      *)

LEMMA ImageIsFinite ==
    ASSUME NEW S, IsFiniteSet(S), NEW f
    PROVE  IsFiniteSet({f[x] : x \in S})
<1>1. PICK g : g = [x \in S |-> f[x]]
  OBVIOUS
<1>2. g \in Surjection(S, {f[x] : x \in S})
  BY <1>1 DEF Surjection
<1> QED
  BY <1>2, FS_Surjection

\* Sequences joined: the elements of each of them follow its offset.
Follow(s, f, n, o) ==
    /\ \A i \in 1 .. n : \A k \in 1 .. Len(f[i]) :
          o[i] + k \in 1 .. Len(s) /\ s[o[i] + k] = f[i][k]
    /\ \A p \in 1 .. Len(s) : \E i \in 1 .. n : \E k \in 1 .. Len(f[i]) : p = o[i] + k

\* Joining sequences has them one after the other, each where the last one ends.
LEMMA FlattenHas ==
    ASSUME NEW X, NEW n \in Nat, NEW f \in [1 .. n -> Seq(X)]
    PROVE  /\ FlattenSeq(f) \in Seq(X)
           /\ \E o \in [1 .. n -> Nat] : Follow(FlattenSeq(f), f, n, o)
<1>1. Len(f) = n /\ \A i \in 1 .. n : f[i] \in Seq(X)
  OBVIOUS
<1>2. CASE n = 0
  <2>1. FlattenSeq(f) = << >>
    BY <1>1, <1>2 DEF FlattenSeq
  <2>2. f \in [1 .. n -> Nat]
    BY <1>2
  <2>3. << >> \in Seq(X) /\ Len(<< >>) = 0
    OBVIOUS
  <2>4. \A i \in 1 .. n : FALSE
    BY <1>2
  <2>5. \A p \in 1 .. Len(<< >>) : FALSE
    BY <2>3
  <2>6. Follow(<< >>, f, n, f)
    BY <2>4, <2>5, Zenon DEF Follow
  <2> QED
    BY <2>1, <2>2, <2>3, <2>6
<1>3. CASE n # 0
  <2>1. PICK g : Joined(g, f, n) /\ FlattenSeq(f) = g[n]
    BY <1>1, <1>3, FlattenIs
  <2>2. \A i \in 1 .. n : g[i] = IF i = 1 THEN f[i] ELSE g[i - 1] \o f[i]
    BY <2>1 DEF Joined
  <2>3. PICK o : o = [i \in 1 .. n |-> IF i = 1 THEN 0 ELSE Len(g[i - 1])]
    OBVIOUS
  <2> DEFINE Good(m) ==
         /\ g[m] \in Seq(X)
         /\ \A i \in 1 .. m : /\ o[i] \in Nat
                              /\ \A k \in 1 .. Len(f[i]) :
                                    o[i] + k \in 1 .. Len(g[m]) /\ g[m][o[i] + k] = f[i][k]
         /\ \A p \in 1 .. Len(g[m]) :
               \E i \in 1 .. m : \E k \in 1 .. Len(f[i]) : p = o[i] + k
  <2> DEFINE bad == {m \in Nat \ {0} : m <= n /\ ~Good(m)}
  <2>4. Good(1)
    <3>1. g[1] = f[1] /\ f[1] \in Seq(X) /\ o[1] = 0
      BY <1>1, <1>3, <2>2, <2>3
    <3>2. \A i \in 1 .. 1 : i = 1
      OBVIOUS
    <3>3. \A k \in 1 .. Len(f[1]) : 0 + k = k
      BY <3>1
    <3> QED
      BY <3>1, <3>2, <3>3
  <2>5. ASSUME NEW m \in Nat \ {0}, Good(m), m + 1 <= n
        PROVE  Good(m + 1)
    <3>1. m + 1 \in 1 .. n /\ m + 1 # 1 /\ (m + 1) - 1 = m
      BY <2>5
    <3>2. g[m + 1] = g[m] \o f[m + 1] /\ o[m + 1] = Len(g[m])
      BY <2>2, <2>3, <3>1
    <3>3. PICK u \in Seq(X), v \in Seq(X), a \in Nat, b \in Nat :
             u = g[m] /\ v = f[m + 1] /\ a = Len(u) /\ b = Len(v)
      BY <1>1, <2>5, <3>1
    <3>4. /\ u \o v \in Seq(X) /\ Len(u \o v) = a + b
          /\ \A i \in 1 .. a + b : (u \o v)[i] = IF i <= a THEN u[i] ELSE v[i - a]
      <4>1. /\ u \o v \in Seq(X) /\ Len(u \o v) = Len(u) + Len(v)
            /\ \A i \in 1 .. Len(u) + Len(v) :
                  (u \o v)[i] = IF i <= Len(u) THEN u[i] ELSE v[i - Len(u)]
        BY ConcatProperties
      <4>2. a = Len(u) /\ b = Len(v)
        BY <3>3
      <4> HIDE <3>3
      <4> QED
        BY <4>1, <4>2
    <3>5. PICK w : w = u \o v
      OBVIOUS
    <3>6. g[m + 1] = w /\ o[m + 1] = a /\ Len(w) = a + b /\ w \in Seq(X)
      BY <3>2, <3>3, <3>4, <3>5
    <3>7. \A i \in 1 .. a : w[i] = u[i]
      <4>1. \A i \in 1 .. a : i \in 1 .. a + b /\ i <= a
        OBVIOUS
      <4> QED
        BY <3>4, <3>5, <4>1
    <3>8. \A k \in 1 .. b : w[a + k] = v[k] /\ a + k \in 1 .. a + b
      <4>1. \A k \in 1 .. b : /\ a + k \in 1 .. a + b /\ ~(a + k <= a)
                              /\ (a + k) - a = k
        OBVIOUS
      <4> QED
        BY <3>4, <3>5, <4>1
    <3>9. ASSUME NEW i \in 1 .. m + 1
          PROVE  /\ o[i] \in Nat
                 /\ \A k \in 1 .. Len(f[i]) :
                       o[i] + k \in 1 .. a + b /\ w[o[i] + k] = f[i][k]
      <4>1. CASE i \in 1 .. m
        <5>1. /\ o[i] \in Nat
              /\ \A k \in 1 .. Len(f[i]) :
                    o[i] + k \in 1 .. a /\ u[o[i] + k] = f[i][k]
          BY <2>5, <3>3, <4>1
        <5>2. \A k \in 1 .. a : k \in 1 .. a + b
          OBVIOUS
        <5> QED
          BY <3>7, <5>1, <5>2
      <4>2. CASE i = m + 1
        BY <3>3, <3>6, <3>8, <4>2
      <4> QED
        BY <4>1, <4>2
    <3>10. ASSUME NEW p \in 1 .. a + b
           PROVE  \E i \in 1 .. m + 1 : \E k \in 1 .. Len(f[i]) : p = o[i] + k
      <4>1. CASE p <= a
        <5>1. p \in 1 .. a
          BY <4>1
        <5>2. PICK i \in 1 .. m : \E k \in 1 .. Len(f[i]) : p = o[i] + k
          BY <2>5, <3>3, <5>1
        <5>3. i \in 1 .. m + 1
          OBVIOUS
        <5> QED
          BY <5>2, <5>3
      <4>2. CASE p > a
        <5>1. p - a \in 1 .. b /\ p = a + (p - a)
          BY <4>2
        <5>2. m + 1 \in 1 .. m + 1 /\ o[m + 1] = a /\ Len(f[m + 1]) = b
          BY <3>3, <3>6
        <5>3. p - a \in 1 .. Len(f[m + 1]) /\ p = o[m + 1] + (p - a)
          BY <5>1, <5>2
        <5> QED
          BY <5>2, <5>3
      <4> QED
        BY <4>1, <4>2
    <3> QED
      BY <3>6, <3>9, <3>10
  <2>6. bad = {}
    <3>1. 1 \notin bad
      BY <2>4
    <3>2. \A i \in Nat \ {0} : i \notin bad => i + 1 \notin bad
      <4>1. \A i \in Nat \ {0} : i + 1 <= n => i <= n
        OBVIOUS
      <4>2. \A i \in Nat \ {0} : i \notin bad /\ i + 1 <= n => Good(i)
        <5> HIDE DEF Good
        <5> QED
          BY <4>1
      <4>3. \A i \in Nat \ {0} : Good(i) /\ i + 1 <= n => Good(i + 1)
        <5> HIDE DEF Good
        <5> QED
          BY <2>5
      <4> HIDE DEF Good
      <4> QED
        BY <4>2, <4>3
    <3>3. bad \subseteq Nat \ {0}
      OBVIOUS
    <3> HIDE DEF bad
    <3> QED
      BY <3>1, <3>2, <3>3, FromOneOn
  <2>7. Good(n)
    <3> HIDE DEF Good
    <3> QED
      BY <1>3, <2>6
  <2>8. o \in [1 .. n -> Nat]
    BY <2>3, <2>7
  <2>9. PICK s : s = FlattenSeq(f)
    OBVIOUS
  <2>10. s \in Seq(X) /\ Follow(s, f, n, o)
    <3>1. s = g[n]
      BY <2>1, <2>9
    <3> QED
      BY <2>7, <3>1 DEF Follow
  <2> QED
    BY <2>8, <2>9, <2>10
<1> QED
  BY <1>2, <1>3

\* No element twice, and every one is one of another sequence.
Distinct(s, n) == \A p, q \in 1 .. n : s[p] = s[q] => p = q
Among(s, n, e, m) == \A p \in 1 .. n : \E i \in 1 .. m : s[p] = e[i]

LEMMA LengthWithin ==
    ASSUME NEW n \in Nat, NEW m \in Nat, NEW s, NEW e, Distinct(s, n), Among(s, n, e, m)
    PROVE  n <= m
<1>1. PICK g : g = [p \in 1 .. n |-> CHOOSE i \in 1 .. m : s[p] = e[i]]
  OBVIOUS
<1>2. \A p \in 1 .. n : g[p] \in 1 .. m /\ s[p] = e[g[p]]
  BY <1>1 DEF Among
<1>3. g \in Injection(1 .. n, 1 .. m)
  <2>1. g \in [1 .. n -> 1 .. m]
    BY <1>1, <1>2
  <2>2. \A p, q \in 1 .. n : g[p] = g[q] => p = q
    <3>1. \A p, q \in 1 .. n : g[p] = g[q] => s[p] = s[q]
      BY <1>2
    <3> QED
      BY <3>1 DEF Distinct
  <2> QED
    BY <2>1, <2>2 DEF Injection, IsInjective
<1>4. \A k \in Nat : IsFiniteSet(1 .. k) /\ Cardinality(1 .. k) = k
  <2>1. \A k \in Nat : k \in Int /\ 1 \in Int
    OBVIOUS
  <2>2. ASSUME NEW k \in Nat PROVE IsFiniteSet(1 .. k) /\ Cardinality(1 .. k) = k
    <3>1. IsFiniteSet(1 .. k) /\ Cardinality(1 .. k) = IF 1 > k THEN 0 ELSE k - 1 + 1
      BY FS_Interval
    <3> QED
      BY <3>1
  <2> QED
    BY <2>2
<1>5. Cardinality(1 .. n) <= Cardinality(1 .. m)
  BY <1>3, <1>4, FS_Injection
<1> QED
  BY <1>4, <1>5

\* A sequence of which some elements are left out.
Filtered(s, X, n, e, K) ==
    /\ s \in Seq(X) /\ Len(s) <= n /\ Distinct(s, Len(s))
    /\ \A x : (\E p \in 1 .. Len(s) : s[p] = x) <=> \E i \in 1 .. n : i \in K /\ e[i] = x

LEMMA FilterIs ==
    ASSUME NEW X, NEW n \in Nat, NEW e, NEW K, NEW f,
           f = [i \in 1 .. n |-> IF i \in K THEN <<e[i]>> ELSE << >>],
           \A i \in 1 .. n : e[i] \in X, Distinct(e, n)
    PROVE  Filtered(FlattenSeq(f), X, n, e, K)
<1>1. \A i \in 1 .. n : f[i] \in Seq(X)
  <2>1. \A x \in X : <<x>> \in Seq(X)
    OBVIOUS
  <2>2. << >> \in Seq(X)
    OBVIOUS
  <2> QED
    BY <2>1, <2>2
<1>2. \A i \in 1 .. n : \A k \in 1 .. Len(f[i]) : i \in K /\ k = 1 /\ f[i][k] = e[i]
  <2>1. ASSUME NEW i \in 1 .. n, i \in K
        PROVE  \A k \in 1 .. Len(f[i]) : i \in K /\ k = 1 /\ f[i][k] = e[i]
    <3>1. PICK x : x = e[i]
      OBVIOUS
    <3>2. f[i] = <<x>>
      BY <2>1, <3>1
    <3>3. Len(<<x>>) = 1 /\ <<x>>[1] = x
      OBVIOUS
    <3>4. \A k \in 1 .. 1 : k = 1
      OBVIOUS
    <3> QED
      BY <2>1, <3>1, <3>2, <3>3, <3>4
  <2>2. ASSUME NEW i \in 1 .. n, i \notin K
        PROVE  \A k \in 1 .. Len(f[i]) : FALSE
    <3>1. f[i] = << >>
      BY <2>2
    <3> QED
      BY <3>1
  <2> QED
    BY <2>1, <2>2
<1>3. \A i \in 1 .. n : i \in K => 1 \in 1 .. Len(f[i]) /\ f[i][1] = e[i]
  <2>1. ASSUME NEW i \in 1 .. n, i \in K
        PROVE  1 \in 1 .. Len(f[i]) /\ f[i][1] = e[i]
    <3>1. PICK x : x = e[i]
      OBVIOUS
    <3>2. f[i] = <<x>>
      BY <2>1, <3>1
    <3>3. Len(<<x>>) = 1 /\ <<x>>[1] = x
      OBVIOUS
    <3> QED
      BY <3>1, <3>2, <3>3
  <2> QED
    BY <2>1
<1>4. f \in [1 .. n -> Seq(X)]
  BY <1>1
<1>5. PICK s : s = FlattenSeq(f)
  OBVIOUS
<1>6. s \in Seq(X) /\ \E o \in [1 .. n -> Nat] : Follow(s, f, n, o)
  BY <1>4, <1>5, FlattenHas
<1>7. PICK o \in [1 .. n -> Nat] :
         /\ \A i \in 1 .. n : \A k \in 1 .. Len(f[i]) :
               o[i] + k \in 1 .. Len(s) /\ s[o[i] + k] = f[i][k]
         /\ \A p \in 1 .. Len(s) : \E i \in 1 .. n : \E k \in 1 .. Len(f[i]) : p = o[i] + k
  BY <1>6 DEF Follow
<1>8. \A p \in 1 .. Len(s) : \E i \in 1 .. n : i \in K /\ p = o[i] + 1 /\ s[p] = e[i]
  <2>1. SUFFICES ASSUME NEW p \in 1 .. Len(s)
                 PROVE  \E i \in 1 .. n : i \in K /\ p = o[i] + 1 /\ s[p] = e[i]
    OBVIOUS
  <2>2a. PICK i \in 1 .. n : \E k \in 1 .. Len(f[i]) : p = o[i] + k
    BY <1>7
  <2>2. PICK k \in 1 .. Len(f[i]) : p = o[i] + k
    BY <2>2a
  <2>3. i \in K /\ k = 1 /\ s[p] = f[i][k] /\ f[i][k] = e[i]
    BY <1>2, <1>7, <2>2
  <2> QED
    BY <2>2, <2>3
<1>9. Distinct(s, Len(s))
  BY <1>8 DEF Distinct
<1>10. \A x : (\E p \in 1 .. Len(s) : s[p] = x) <=> \E i \in 1 .. n : i \in K /\ e[i] = x
  <2>1. ASSUME NEW i \in 1 .. n, i \in K PROVE \E p \in 1 .. Len(s) : s[p] = e[i]
    BY <1>3, <1>7, <2>1
  <2>2. \A p \in 1 .. Len(s) : \E i \in 1 .. n : i \in K /\ e[i] = s[p]
    BY <1>8
  <2> QED
    BY <2>1, <2>2
<1>11. Len(s) <= n
  <2>1. \A p \in 1 .. Len(s) : \E i \in 1 .. n : s[p] = e[i]
    BY <1>8
  <2>2. PICK k \in Nat : k = Len(s)
    BY <1>6
  <2>3. Distinct(s, k) /\ Among(s, k, e, n)
    BY <1>9, <2>1, <2>2 DEF Among
  <2>4. k <= n
    BY <2>2, <2>3, LengthWithin
  <2> QED
    BY <2>2, <2>4
<1>12. Filtered(s, X, n, e, K)
  BY <1>6, <1>9, <1>10, <1>11 DEF Filtered
<1> QED
  BY <1>5, <1>12

LEMMA CharIs ==
    ASSUME NEW l \in Letters
    PROVE  (Len(Grapheme[l]) = 1 <=> l \in Chars) /\ (l \in Chars => Grapheme[l] = <<l>>)
<1>1. ASSUME Len(Grapheme[l]) = 1 PROVE l \in Chars
  <2>1. PICK q \in Seq(Letters) : q = Grapheme[l] /\ Len(q) = 1
    BY <1>1, LexiconAssumption
  <2>2. PICK x \in Letters : x = q[1]
    BY <2>1
  <2>3. q = <<x>>
    BY <2>1, <2>2
  <2>4. Grapheme[x] = <<x>>
    <3>1. 1 \in DOMAIN q
      BY <2>1
    <3>2. \A i \in DOMAIN Grapheme[l] : Grapheme[Grapheme[l][i]] = <<Grapheme[l][i]>>
      BY LexiconAssumption
    <3> QED
      BY <2>1, <2>2, <3>1, <3>2
  <2>5. x = l
    <3>1. \A a, b \in Letters : Grapheme[a] = Grapheme[b] => a = b
      BY LexiconAssumption, Zenon DEF IsInjective
    <3>2. Grapheme[x] = Grapheme[l]
      BY <2>1, <2>3, <2>4
    <3> QED
      BY <2>2, <3>1, <3>2
  <2> QED
    BY <2>4, <2>5 DEF Chars
<1>2. ASSUME l \in Chars PROVE Grapheme[l] = <<l>> /\ Len(Grapheme[l]) = 1
  BY <1>2 DEF Chars
<1> QED
  BY <1>1, <1>2

\* The characters, each once.
LEMMA CharactersAre ==
    /\ Characters \in Seq(Chars) /\ Len(Characters) <= Len(Alphabet)
    /\ Distinct(Characters, Len(Characters))
    /\ \A c : c \in Chars <=> \E p \in 1 .. Len(Characters) : Characters[p] = c
    /\ Range(Characters) = Chars
<1>1. PICK n \in Nat : n = Len(Alphabet) /\ DOMAIN Alphabet = 1 .. n
  BY LexiconAssumption
<1>2. PICK f : f = [i \in DOMAIN Alphabet |->
                      IF Len(Grapheme[Alphabet[i]]) = 1 THEN Grapheme[Alphabet[i]] ELSE << >>]
  OBVIOUS
<1>3. PICK K : K = {i \in 1 .. n : Alphabet[i] \in Chars}
  OBVIOUS
<1>4. \A i \in 1 .. n : Alphabet[i] \in Letters
  BY <1>1 DEF Letters, Range
<1>5. f = [i \in 1 .. n |-> IF i \in K THEN <<Alphabet[i]>> ELSE << >>]
  <2>1. \A i \in 1 .. n : f[i] = IF i \in K THEN <<Alphabet[i]>> ELSE << >>
    BY <1>1, <1>2, <1>3, <1>4, CharIs
  <2> QED
    BY <1>1, <1>2, <2>1
<1>6. Distinct(Alphabet, n)
  BY <1>1, LexiconAssumption DEF IsInjective, Distinct
<1>7. PICK s : s = Characters
  OBVIOUS
<1>8. s = FlattenSeq(f)
  BY <1>2, <1>7 DEF Characters
<1>9. Filtered(s, Letters, n, Alphabet, K)
  <2>1. Filtered(FlattenSeq(f), Letters, n, Alphabet, K)
    BY <1>1, <1>4, <1>5, <1>6, FilterIs
  <2> QED
    BY <1>8, <2>1
<1>10. \A x : (\E i \in 1 .. n : i \in K /\ Alphabet[i] = x) <=> x \in Chars
  <2>1. \A x \in Chars : \E i \in 1 .. n : Alphabet[i] = x
    BY <1>1 DEF Chars, Letters, Range
  <2> QED
    BY <1>3, <2>1
<1>11. \A x : x \in Chars <=> \E p \in 1 .. Len(s) : s[p] = x
  BY <1>9, <1>10 DEF Filtered
<1>12. s \in Seq(Chars)
  <2>1. PICK k \in Nat : k = Len(s) /\ s \in [1 .. k -> Letters]
    BY <1>9 DEF Filtered
  <2>2. s \in [1 .. k -> Chars]
    BY <1>11, <2>1
  <2> QED
    BY <2>2
<1>13. Range(s) = Chars
  BY <1>11, <1>12 DEF Range
<1> QED
  BY <1>1, <1>7, <1>9, <1>11, <1>12, <1>13 DEF Filtered

LEMMA PlaceIs ==
    ASSUME NEW c \in Chars
    PROVE  /\ Place(c) \in 1 .. Len(Characters) /\ Characters[Place(c)] = c
           /\ Place(c) \in Nat \ {0}
           /\ \A d \in Chars : Place(c) = Place(d) => c = d
<1>1. ASSUME NEW d \in Chars PROVE Place(d) \in 1 .. Len(Characters) /\ Characters[Place(d)] = d
  <2>1. \E p \in 1 .. Len(Characters) : Characters[p] = d
    BY CharactersAre
  <2>2. DOMAIN Characters = 1 .. Len(Characters)
    BY CharactersAre
  <2>3. \E p \in DOMAIN Characters : Characters[p] = d
    BY <2>1, <2>2
  <2>4. Place(d) \in DOMAIN Characters /\ Characters[Place(d)] = d
    BY <2>3, Zenon DEF Place
  <2> QED
    BY <2>2, <2>4
<1>2. Len(Characters) \in Nat
  BY CharactersAre
<1> QED
  BY <1>1, <1>2

-----------------------------------------------------------------------------
(* The dictionary: the order of its words.                                  *)

\* The place of a character of a word, 0 past its end.
Key(w, n) == IF n \in DOMAIN w THEN Place(w[n]) ELSE 0

LEMMA KeyIs ==
    ASSUME NEW w \in Seq(Chars), NEW n \in Nat \ {0}
    PROVE  /\ Key(w, n) \in Nat
           /\ Key(w, n) > 0 <=> n <= Len(w)
           /\ n <= Len(w) => w[n] \in Chars /\ Key(w, n) = Place(w[n])
<1>1. PICK k \in Nat : k = Len(w) /\ DOMAIN w = 1 .. k /\ \A i \in 1 .. k : w[i] \in Chars
  OBVIOUS
<1>2. n \in 1 .. k <=> n <= k
  OBVIOUS
<1>3. CASE n <= k
  <2>1. w[n] \in Chars /\ Key(w, n) = Place(w[n])
    BY <1>1, <1>2, <1>3 DEF Key
  <2>2. Place(w[n]) \in Nat \ {0}
    BY <2>1, PlaceIs
  <2> QED
    BY <1>1, <1>3, <2>1, <2>2
<1>4. CASE ~(n <= k)
  BY <1>1, <1>2, <1>4 DEF Key
<1> QED
  BY <1>3, <1>4

LEMMA SameAt ==
    ASSUME NEW v \in Seq(Chars), NEW w \in Seq(Chars), NEW n \in Nat \ {0},
           Key(v, n) = Key(w, n), n <= Len(v)
    PROVE  n <= Len(w) /\ v[n] = w[n]
<1>1. Key(v, n) > 0 /\ v[n] \in Chars /\ Key(v, n) = Place(v[n])
  BY KeyIs
<1>2. n <= Len(w) /\ w[n] \in Chars /\ Key(w, n) = Place(w[n])
  BY <1>1, KeyIs
<1> QED
  BY <1>1, <1>2, PlaceIs

LEMMA PrefixIs ==
    ASSUME NEW X, NEW p \in Seq(X), NEW w \in Seq(X)
    PROVE  IsPrefix(p, w) <=> Len(p) <= Len(w) /\ \A i \in 1 .. Len(p) : p[i] = w[i]
<1>1. PICK m \in Nat, n \in Nat : m = Len(p) /\ n = Len(w) /\ DOMAIN p = 1 .. m
  OBVIOUS
<1>2. SubSeq(p, 1, m) = p
  BY <1>1
<1>3. ASSUME m <= n
      PROVE  SubSeq(w, 1, m) = p <=> \A i \in 1 .. m : p[i] = w[i]
  <2>1. /\ SubSeq(w, 1, m) \in Seq(X) /\ Len(SubSeq(w, 1, m)) = m
        /\ \A i \in 1 .. m : SubSeq(w, 1, m)[i] = w[i]
    BY <1>1, <1>3
  <2>2. PICK s \in Seq(X) : s = SubSeq(w, 1, m) /\ Len(s) = m /\ \A i \in 1 .. m : s[i] = w[i]
    BY <2>1
  <2>3. ASSUME \A i \in 1 .. m : p[i] = w[i] PROVE s = p
    BY <1>1, <2>2, <2>3
  <2>4. ASSUME s = p PROVE \A i \in 1 .. m : p[i] = w[i]
    BY <2>2, <2>4
  <2> QED
    BY <2>2, <2>3, <2>4
<1> QED
  BY <1>1, <1>2, <1>3 DEF IsPrefix

LEMMA PrefixAt ==
    ASSUME NEW p \in Seq(Chars), NEW w \in Seq(Chars)
    PROVE  IsPrefix(p, w) <=> \A i \in 1 .. Len(p) : Key(p, i) = Key(w, i)
<1>1. PICK m \in Nat, n \in Nat : m = Len(p) /\ n = Len(w)
  OBVIOUS
<1>2. ASSUME IsPrefix(p, w), NEW i \in 1 .. m PROVE Key(p, i) = Key(w, i)
  <2>1. m <= n /\ p[i] = w[i]
    BY <1>1, <1>2, PrefixIs
  <2>2. i \in Nat \ {0} /\ i <= m /\ i <= n
    BY <2>1
  <2> QED
    BY <1>1, <2>1, <2>2, KeyIs
<1>3. ASSUME \A i \in 1 .. m : Key(p, i) = Key(w, i) PROVE IsPrefix(p, w)
  <2>1. \A i \in 1 .. m : i \in Nat \ {0} /\ i <= m
    OBVIOUS
  <2>2. \A i \in 1 .. m : i <= n /\ p[i] = w[i]
    BY <1>1, <1>3, <2>1, SameAt
  <2>3. m <= n
    <3>1. CASE m = 0
      BY <3>1
    <3>2. CASE m # 0
      <4>1. m \in 1 .. m
        BY <3>2
      <4> QED
        BY <2>2, <4>1
    <3> QED
      BY <3>1, <3>2
  <2> QED
    BY <1>1, <2>2, <2>3, PrefixIs
<1> QED
  BY <1>1, <1>2, <1>3

\* Where two words differ for the first time.
PutsFirst(v, w, n) == Key(v, n) < Key(w, n) /\ \A i \in 1 .. n - 1 : Key(v, i) = Key(w, i)

LEMMA SameWord ==
    ASSUME NEW v \in Seq(Chars), NEW w \in Seq(Chars),
           \A n \in Nat \ {0} : Key(v, n) = Key(w, n)
    PROVE  v = w
<1>1. PICK k \in Nat, m \in Nat : k = Len(v) /\ m = Len(w)
  OBVIOUS
<1>2. \A n \in Nat \ {0} : n <= k => n <= m /\ v[n] = w[n]
  BY <1>1, SameAt
<1>3. \A n \in Nat \ {0} : n <= m => n <= k
  BY <1>1, SameAt
<1>4. k = m
  <2>1. CASE k = 0
    BY <1>3, <2>1
  <2>2. CASE m = 0
    BY <1>2, <2>2
  <2>3. CASE k # 0 /\ m # 0
    <3>1. k \in Nat \ {0} /\ m \in Nat \ {0} /\ k <= k /\ m <= m
      BY <2>3
    <3>2. k <= m /\ m <= k
      BY <1>2, <1>3, <3>1
    <3> QED
      BY <3>2
  <2> QED
    BY <2>1, <2>2, <2>3
<1>5. \A i \in 1 .. k : v[i] = w[i]
  BY <1>2
<1> QED
  BY <1>1, <1>4, <1>5, SeqEqual

\* One word precedes another where they first differ, the end before any character.
LEMMA PrecedesIs ==
    ASSUME NEW v \in Seq(Chars), NEW w \in Seq(Chars)
    PROVE  Precedes(v, w) <=> \E n \in Nat \ {0} : PutsFirst(v, w, n)
<1>1. PICK k \in Nat, m \in Nat :
         k = Len(v) /\ m = Len(w) /\ DOMAIN v = 1 .. k /\ DOMAIN w = 1 .. m
  OBVIOUS
<1>2. \A n \in Nat \ {0} : \A i \in 1 .. n - 1 : i \in Nat \ {0}
  OBVIOUS
<1>3. ASSUME IsStrictPrefix(v, w) PROVE PutsFirst(v, w, k + 1)
  <2>1. IsPrefix(v, w) /\ v # w
    BY <1>3 DEF IsStrictPrefix
  <2>2. k <= m /\ \A i \in 1 .. k : v[i] = w[i]
    BY <1>1, <2>1, PrefixIs
  <2>3. k # m
    BY <1>1, <2>1, <2>2
  <2>4. \A i \in 1 .. k : Key(v, i) = Key(w, i)
    BY <1>1, <2>1, PrefixAt
  <2>5. k + 1 \in Nat \ {0} /\ k + 1 <= m /\ ~(k + 1 <= k) /\ (k + 1) - 1 = k
    BY <2>2, <2>3
  <2>6. Key(v, k + 1) \in Nat /\ ~(Key(v, k + 1) > 0)
    BY <1>1, <2>5, KeyIs
  <2>7. Key(w, k + 1) \in Nat /\ Key(w, k + 1) > 0
    BY <1>1, <2>5, KeyIs
  <2> QED
    BY <2>4, <2>5, <2>6, <2>7 DEF PutsFirst
<1>4. ASSUME NEW n \in DOMAIN v \cap DOMAIN w,
             \A i \in 1 .. n - 1 : v[i] = w[i], Place(v[n]) < Place(w[n])
      PROVE  n \in Nat \ {0} /\ PutsFirst(v, w, n)
  <2>1. n \in Nat \ {0} /\ n <= k /\ n <= m
    BY <1>1
  <2>2. Key(v, n) < Key(w, n)
    BY <1>1, <1>4, <2>1, KeyIs
  <2>3. ASSUME NEW i \in 1 .. n - 1 PROVE Key(v, i) = Key(w, i)
    <3>1. i \in Nat \ {0} /\ i <= k /\ i <= m
      BY <2>1
    <3> QED
      BY <1>1, <1>4, <3>1, KeyIs
  <2> QED
    BY <2>1, <2>2, <2>3 DEF PutsFirst
<1>5. ASSUME NEW n \in Nat \ {0}, PutsFirst(v, w, n) PROVE Precedes(v, w)
  <2>1. Key(v, n) \in Nat /\ Key(w, n) \in Nat /\ Key(w, n) > 0
    BY <1>5, KeyIs DEF PutsFirst
  <2>2. n <= m
    BY <1>1, <2>1, KeyIs
  <2>3. CASE n <= k
    <3>1. n \in DOMAIN v \cap DOMAIN w
      BY <1>1, <2>2, <2>3
    <3>2. \A i \in 1 .. n - 1 : v[i] = w[i]
      <4>1. \A i \in 1 .. n - 1 : i \in Nat \ {0} /\ i <= k
        BY <2>3
      <4> QED
        BY <1>1, <1>5, <4>1, SameAt DEF PutsFirst
    <3>3. Place(v[n]) < Place(w[n])
      BY <1>1, <1>5, <2>2, <2>3, KeyIs DEF PutsFirst
    <3> QED
      BY <3>1, <3>2, <3>3 DEF Precedes
  <2>4. CASE ~(n <= k)
    <3>1. \A i \in 1 .. k : i \in 1 .. n - 1
      BY <2>4
    <3>2. \A i \in 1 .. k : Key(v, i) = Key(w, i)
      BY <1>5, <3>1 DEF PutsFirst
    <3>3. IsPrefix(v, w)
      BY <1>1, <3>2, PrefixAt
    <3>4. v # w
      BY <1>1, <2>2, <2>4
    <3> QED
      BY <3>3, <3>4 DEF Precedes, IsStrictPrefix
  <2> QED
    BY <2>3, <2>4
<1>6. ASSUME Precedes(v, w) PROVE \E n \in Nat \ {0} : PutsFirst(v, w, n)
  <2>1. CASE IsStrictPrefix(v, w)
    <3>1. k + 1 \in Nat \ {0}
      OBVIOUS
    <3> QED
      BY <1>3, <2>1, <3>1
  <2>2. CASE ~IsStrictPrefix(v, w)
    <3>1. PICK n \in DOMAIN v \cap DOMAIN w :
             (\A i \in 1 .. n - 1 : v[i] = w[i]) /\ Place(v[n]) < Place(w[n])
      BY <1>6, <2>2 DEF Precedes
    <3> QED
      BY <1>4, <3>1
  <2> QED
    BY <2>1, <2>2
<1> QED
  BY <1>5, <1>6

\* The words are in a strict order, any two of them.
LEMMA OrderIs ==
    /\ \A v \in Seq(Chars) : ~Precedes(v, v)
    /\ \A u, v, w \in Seq(Chars) : Precedes(u, v) /\ Precedes(v, w) => Precedes(u, w)
    /\ \A v, w \in Seq(Chars) : v # w => Precedes(v, w) \/ Precedes(w, v)
<1>1. ASSUME NEW v \in Seq(Chars) PROVE ~Precedes(v, v)
  <2>1. \A n \in Nat \ {0} : Key(v, n) \in Nat
    BY KeyIs
  <2> QED
    BY <2>1, PrecedesIs DEF PutsFirst
<1>2. ASSUME NEW u \in Seq(Chars), NEW v \in Seq(Chars), NEW w \in Seq(Chars),
             Precedes(u, v), Precedes(v, w)
      PROVE  Precedes(u, w)
  <2>1. PICK n \in Nat \ {0} : PutsFirst(u, v, n)
    BY <1>2, PrecedesIs
  <2>2. PICK m \in Nat \ {0} : PutsFirst(v, w, m)
    BY <1>2, PrecedesIs
  <2>3. \A i \in Nat \ {0} : Key(u, i) \in Nat /\ Key(v, i) \in Nat /\ Key(w, i) \in Nat
    BY KeyIs
  <2>4. CASE n < m
    <3>1. n \in 1 .. m - 1 /\ \A i \in 1 .. n - 1 : i \in 1 .. m - 1
      BY <2>4
    <3>2. PutsFirst(u, w, n)
      BY <2>1, <2>2, <3>1 DEF PutsFirst
    <3> QED
      BY <3>2, PrecedesIs
  <2>5. CASE m <= n
    <3>1. \A i \in 1 .. m - 1 : i \in 1 .. n - 1
      BY <2>5
    <3>2. Key(u, m) < Key(w, m)
      <4>1. m \in 1 .. n - 1 \/ m = n
        BY <2>5
      <4>2. Key(u, m) <= Key(v, m)
        <5>1. CASE m \in 1 .. n - 1
          BY <2>1, <2>3, <5>1 DEF PutsFirst
        <5>2. CASE m = n
          BY <2>1, <2>3, <5>2 DEF PutsFirst
        <5> QED
          BY <4>1, <5>1, <5>2
      <4>3. Key(v, m) < Key(w, m)
        BY <2>2 DEF PutsFirst
      <4> QED
        BY <2>3, <4>2, <4>3
    <3>3. PutsFirst(u, w, m)
      BY <2>1, <2>2, <3>1, <3>2 DEF PutsFirst
    <3> QED
      BY <3>3, PrecedesIs
  <2> QED
    BY <2>4, <2>5
<1>3. ASSUME NEW v \in Seq(Chars), NEW w \in Seq(Chars), v # w
      PROVE  Precedes(v, w) \/ Precedes(w, v)
  <2>1. PICK T : T = {n \in Nat \ {0} : Key(v, n) # Key(w, n)}
    OBVIOUS
  <2>2. T # {} /\ T \subseteq Nat
    BY <1>3, <2>1, SameWord
  <2>3. PICK n \in T : \A j \in T : n <= j
    BY <2>2, LeastExists
  <2>4. n \in Nat \ {0} /\ Key(v, n) # Key(w, n) /\ \A i \in 1 .. n - 1 : Key(v, i) = Key(w, i)
    <3>1. \A i \in 1 .. n - 1 : i \in Nat \ {0} /\ ~(n <= i)
      BY <2>1
    <3> QED
      BY <2>1, <2>3, <3>1
  <2>5. Key(v, n) \in Nat /\ Key(w, n) \in Nat
    BY <2>4, KeyIs
  <2>6. PutsFirst(v, w, n) \/ PutsFirst(w, v, n)
    BY <2>4, <2>5 DEF PutsFirst
  <2> QED
    BY <2>4, <2>6, PrecedesIs
<1> QED
  BY <1>1, <1>2, <1>3

-----------------------------------------------------------------------------
(* The dictionary: its words in order.                                      *)

\* A strict order of a set, as a set of pairs, and how many come before one.
Strict(S, R) ==
    /\ \A x \in S : <<x, x>> \notin R
    /\ \A x, y, z \in S : <<x, y>> \in R /\ <<y, z>> \in R => <<x, z>> \in R
    /\ \A x, y \in S : x # y => <<x, y>> \in R \/ <<y, x>> \in R
Rank(S, R, x) == Cardinality({y \in S : <<y, x>> \in R})

\* In a finite strict order the ranks are those from 0 on, each taken once.
LEMMA RanksAre ==
    ASSUME NEW S, IsFiniteSet(S), NEW R, Strict(S, R), NEW n \in Nat, n = Cardinality(S)
    PROVE  /\ \A x \in S : Rank(S, R, x) \in 0 .. n - 1
           /\ \A x, y \in S : <<x, y>> \in R => Rank(S, R, x) < Rank(S, R, y)
           /\ \A i \in 1 .. n : \E x \in S : Rank(S, R, x) = i - 1
<1> DEFINE before(x) == {y \in S : <<y, x>> \in R}
<1>1. ASSUME NEW x \in S
      PROVE  /\ IsFiniteSet(before(x)) /\ Rank(S, R, x) = Cardinality(before(x))
             /\ Rank(S, R, x) \in 0 .. n - 1
  <2>1. before(x) \subseteq S \ {x}
    BY DEF Strict
  <2>2. IsFiniteSet(S \ {x}) /\ Cardinality(S \ {x}) = n - 1
    BY FS_RemoveElement
  <2>3. PICK b : b = before(x)
    OBVIOUS
  <2>4. IsFiniteSet(b) /\ Cardinality(b) <= n - 1
    <3>1. PICK s : s = S \ {x}
      OBVIOUS
    <3>2. IsFiniteSet(s) /\ Cardinality(s) = n - 1 /\ b \in SUBSET s
      BY <2>1, <2>2, <2>3, <3>1
    <3>3. IsFiniteSet(b) /\ Cardinality(b) <= Cardinality(s)
      BY <3>2, FS_Subset
    <3> QED
      BY <3>2, <3>3
  <2>5. Cardinality(b) \in Nat
    BY <2>4, FS_CardinalityType
  <2>6. Rank(S, R, x) = Cardinality(b)
    BY <2>3 DEF Rank
  <2> QED
    BY <2>3, <2>4, <2>5, <2>6
<1>2. ASSUME NEW x \in S, NEW y \in S, <<x, y>> \in R
      PROVE  Rank(S, R, x) < Rank(S, R, y)
  <2>1. PICK b, c : b = before(x) /\ c = before(y)
    OBVIOUS
  <2>2. b \cup {x} \subseteq c /\ x \notin b
    BY <1>2, <2>1 DEF Strict
  <2>3. IsFiniteSet(b) /\ IsFiniteSet(c)
    BY <1>1, <2>1
  <2>4. Cardinality(b \cup {x}) = Cardinality(b) + 1
    BY <2>2, <2>3, FS_AddElement
  <2>5. Cardinality(b \cup {x}) <= Cardinality(c)
    BY <2>2, <2>3, FS_Subset
  <2>6. Cardinality(b) \in Nat /\ Cardinality(c) \in Nat
    BY <2>3, FS_CardinalityType
  <2>7. Rank(S, R, x) = Cardinality(b) /\ Rank(S, R, y) = Cardinality(c)
    BY <1>1, <2>1
  <2> QED
    BY <2>4, <2>5, <2>6, <2>7
<1>3. PICK r : r = [x \in S |-> Rank(S, R, x)]
  OBVIOUS
<1>4. r \in Injection(S, 0 .. n - 1)
  <2>1. r \in [S -> 0 .. n - 1]
    BY <1>1, <1>3
  <2>2. ASSUME NEW x \in S, NEW y \in S, r[x] = r[y] PROVE x = y
    <3>1. r[x] \in Int /\ r[y] \in Int /\ r[x] = Rank(S, R, x) /\ r[y] = Rank(S, R, y)
      BY <1>3, <2>1
    <3>2. <<x, y>> \in R => r[x] < r[y]
      BY <1>2, <3>1
    <3>3. <<y, x>> \in R => r[y] < r[x]
      BY <1>2, <3>1
    <3> QED
      BY <2>2, <3>1, <3>2, <3>3 DEF Strict
  <2> QED
    BY <2>1, <2>2 DEF Injection, IsInjective
<1>5. IsFiniteSet(0 .. n - 1) /\ Cardinality(0 .. n - 1) = n
  <2>1. PICK a \in Int, b \in Int : a = 0 /\ b = n - 1
    OBVIOUS
  <2>2. IsFiniteSet(a .. b) /\ Cardinality(a .. b) = IF a > b THEN 0 ELSE b - a + 1
    BY FS_Interval
  <2> QED
    BY <2>1, <2>2
<1>6. r \in Surjection(S, 0 .. n - 1)
  BY <1>4, <1>5, FS_Injection
<1>7. ASSUME NEW i \in 1 .. n PROVE \E x \in S : Rank(S, R, x) = i - 1
  <2>1. i - 1 \in 0 .. n - 1
    OBVIOUS
  <2>2. PICK x \in S : r[x] = i - 1
    BY <1>6, <2>1 DEF Surjection
  <2> QED
    BY <1>3, <2>2
<1> QED
  BY <1>1, <1>2, <1>7

\* So a set is put in order by its ranks.
InOrder(f, S, R, n) ==
    /\ \A i \in 1 .. n : f[i] \in S
    /\ \A x \in S : \E i \in 1 .. n : f[i] = x
    /\ \A i, j \in 1 .. n : i < j <=> <<f[i], f[j]>> \in R

\* What has its elements by their ranks has them in order.
LEMMA RankedIs ==
    ASSUME NEW S, IsFiniteSet(S), NEW R, Strict(S, R), NEW n \in Nat, n = Cardinality(S),
           NEW f, \A i \in 1 .. n : f[i] \in S /\ Rank(S, R, f[i]) = i - 1
    PROVE  InOrder(f, S, R, n) /\ Distinct(f, n)
<1>1. /\ \A x \in S : Rank(S, R, x) \in 0 .. n - 1
      /\ \A x, y \in S : <<x, y>> \in R => Rank(S, R, x) < Rank(S, R, y)
  BY RanksAre
<1>2. \A x, y \in S : Rank(S, R, x) = Rank(S, R, y) => x = y
  <2>1. SUFFICES ASSUME NEW x \in S, NEW y \in S, Rank(S, R, x) = Rank(S, R, y), x # y
                 PROVE  FALSE
    OBVIOUS
  <2>2. <<x, y>> \in R \/ <<y, x>> \in R
    BY <2>1 DEF Strict
  <2>3. Rank(S, R, x) < Rank(S, R, y) \/ Rank(S, R, y) < Rank(S, R, x)
    BY <1>1, <2>2
  <2> QED
    BY <1>1, <2>1, <2>3
<1>3. ASSUME NEW x \in S PROVE \E i \in 1 .. n : f[i] = x
  <2>1. PICK k \in 0 .. n - 1 : k = Rank(S, R, x)
    BY <1>1
  <2>2. k + 1 \in 1 .. n /\ (k + 1) - 1 = k
    OBVIOUS
  <2>3. f[k + 1] \in S /\ Rank(S, R, f[k + 1]) = k
    BY <2>2
  <2>4. f[k + 1] = x
    BY <1>2, <2>1, <2>3
  <2> QED
    BY <2>2, <2>4
<1>4. ASSUME NEW i \in 1 .. n, NEW j \in 1 .. n, <<f[i], f[j]>> \in R PROVE i < j
  <2>1. Rank(S, R, f[i]) < Rank(S, R, f[j])
    BY <1>1, <1>4
  <2> QED
    BY <2>1
<1>5. ASSUME NEW i \in 1 .. n, NEW j \in 1 .. n, i < j PROVE <<f[i], f[j]>> \in R
  <2>1. f[i] \in S /\ f[j] \in S /\ Rank(S, R, f[i]) = i - 1 /\ Rank(S, R, f[j]) = j - 1
    OBVIOUS
  <2>2. f[i] # f[j]
    BY <1>5, <2>1
  <2>3. ~(<<f[j], f[i]>> \in R)
    BY <1>4, <1>5
  <2> QED
    BY <2>1, <2>2, <2>3 DEF Strict
<1>6. ASSUME NEW i \in 1 .. n, NEW j \in 1 .. n, f[i] = f[j] PROVE i = j
  <2>1. i - 1 = j - 1
    BY <1>6
  <2> QED
    BY <2>1
<1> QED
  BY <1>3, <1>4, <1>5, <1>6 DEF InOrder, Distinct

\* The words in order.
Sorted(arena, words) ==
    /\ arena \in Seq(Seq(Chars))
    /\ \A i \in DOMAIN arena : arena[i] \in words
    /\ \A w \in words : w \in Seq(Chars) /\ Len(w) >= 2 /\ \E i \in DOMAIN arena : arena[i] = w
    /\ \A i, j \in DOMAIN arena : i < j <=> Precedes(arena[i], arena[j])

\* The arena is all the words of the list, in order.
LEMMA ArenaIs ==
    ASSUME NEW words, Spellable(words)
    PROVE  Sorted(Arena(words), words) /\ Len(Arena(words)) = Cardinality(words)
<1> DEFINE kept == {w \in words : Len(w) >= 2 /\ Range(w) \subseteq Range(Characters)}
           R == {p \in words \X words : Precedes(p[1], p[2])}
<1>1. \A w \in words : w \in Seq(Chars) /\ Len(w) >= 2
  BY CharactersAre DEF Spellable
<1>2. kept = words
  <2>1. \A w \in Seq(Chars) : Range(w) \subseteq Chars
    BY DEF Range
  <2> QED
    BY <1>1, <2>1, CharactersAre
<1>3. PICK n \in Nat : n = Cardinality(words)
  BY FS_CardinalityType DEF Spellable
<1>4. PICK a : a = Arena(words)
  OBVIOUS
<1>5. a = [i \in 1 .. n |->
            CHOOSE w \in words : Cardinality({v \in words : Precedes(v, w)}) = i - 1]
  <2> HIDE DEF kept
  <2>1. a = [i \in 1 .. Cardinality(kept) |->
               CHOOSE w \in kept : Cardinality({v \in kept : Precedes(v, w)}) = i - 1]
    BY <1>4, Zenon DEF Arena, kept
  <2> QED
    BY <1>2, <1>3, <2>1
<1>6. \A w \in words : Rank(words, R, w) = Cardinality({v \in words : Precedes(v, w)})
  <2>1. SUFFICES ASSUME NEW w \in words
                 PROVE  Rank(words, R, w) = Cardinality({v \in words : Precedes(v, w)})
    OBVIOUS
  <2>2. {y \in words : <<y, w>> \in R} = {v \in words : Precedes(v, w)}
    OBVIOUS
  <2> HIDE DEF R
  <2> QED
    BY <2>2 DEF Rank
<1>7. Strict(words, R)
  <2>1. \A v, w \in words : <<v, w>> \in R <=> Precedes(v, w)
    OBVIOUS
  <2> HIDE DEF R
  <2> QED
    BY <1>1, <2>1, OrderIs DEF Strict
<1>8. \A i \in 1 .. n : a[i] \in words /\ Rank(words, R, a[i]) = i - 1
  <2> HIDE DEF R
  <2>1. SUFFICES ASSUME NEW i \in 1 .. n
                 PROVE  a[i] \in words /\ Rank(words, R, a[i]) = i - 1
    OBVIOUS
  <2>2. \E w \in words : Rank(words, R, w) = i - 1
    BY <1>3, <1>7, RanksAre DEF Spellable
  <2>3. \E w \in words : Cardinality({v \in words : Precedes(v, w)}) = i - 1
    BY <1>6, <2>2
  <2>4. a[i] = CHOOSE w \in words : Cardinality({v \in words : Precedes(v, w)}) = i - 1
    BY <1>5
  <2>5. a[i] \in words /\ Cardinality({v \in words : Precedes(v, a[i])}) = i - 1
    BY <2>3, <2>4, Zenon
  <2> QED
    BY <1>6, <2>5
<1>9. InOrder(a, words, R, n)
  <2> HIDE DEF R
  <2> QED
    BY <1>3, <1>7, <1>8, RankedIs DEF Spellable
<1>10. a \in [1 .. n -> Seq(Chars)]
  BY <1>1, <1>5, <1>8
<1>11. a \in Seq(Seq(Chars)) /\ Len(a) = n /\ DOMAIN a = 1 .. n
  BY <1>10
<1>12. \A i, j \in 1 .. n : i < j <=> Precedes(a[i], a[j])
  BY <1>8, <1>9 DEF InOrder
<1> QED
  BY <1>1, <1>3, <1>4, <1>9, <1>11, <1>12 DEF Sorted, InOrder

-----------------------------------------------------------------------------
(* The dictionary: the words with a prefix, which stand together.           *)

LEMMA MinIs ==
    ASSUME NEW T, T \subseteq Nat, T # {}
    PROVE  Min(T) \in T /\ \A j \in T : Min(T) <= j
  BY LeastExists DEF Min

\* An unbroken set of numbers is the interval from its least to its greatest.
LEMMA SpanOf ==
    ASSUME NEW m \in Nat, NEW T, T \subseteq 1 .. m, T # {},
           \A i, k \in T : \A j \in i .. k : j \in T
    PROVE  /\ Min(T) \in 1 .. m /\ Max(T) \in 1 .. m /\ Min(T) \in T /\ Max(T) \in T
           /\ T = Min(T) .. Max(T)
           /\ IsFiniteSet(T) /\ Cardinality(T) = Max(T) - Min(T) + 1
           /\ Cardinality(T) \in 1 .. m
           /\ T = Min(T) .. Min(T) + Cardinality(T) - 1
<1>1. PICK lo \in 1 .. m : lo = Min(T) /\ lo \in T /\ \A j \in T : lo <= j
  <2>1. T \subseteq Nat
    OBVIOUS
  <2> QED
    BY <2>1, MinIs
<1>2. PICK hi \in 1 .. m : hi = Max(T) /\ hi \in T /\ \A j \in T : hi >= j
  <2>1. T \subseteq 0 .. m
    OBVIOUS
  <2> QED
    BY <2>1, GreatestIs
<1>3. lo <= hi
  BY <1>1, <1>2
<1>4. T = lo .. hi
  <2>1. \A j \in lo .. hi : j \in T
    BY <1>1, <1>2
  <2>2. \A j \in T : j \in lo .. hi
    BY <1>1, <1>2
  <2> QED
    BY <2>1, <2>2
<1>5. IsFiniteSet(lo .. hi) /\ Cardinality(lo .. hi) = hi - lo + 1
  <2>1. IsFiniteSet(lo .. hi) /\ Cardinality(lo .. hi) = IF lo > hi THEN 0 ELSE hi - lo + 1
    BY FS_Interval
  <2> QED
    BY <1>3, <2>1
<1>6. PICK n \in 1 .. m : n = Cardinality(T) /\ n = hi - lo + 1 /\ hi = lo + n - 1
  BY <1>3, <1>4, <1>5
<1> QED
  BY <1>1, <1>2, <1>4, <1>5, <1>6

LEMMA GroupIs ==
    ASSUME NEW arena, NEW words, Sorted(arena, words), NEW p \in Seq(Chars)
    PROVE  /\ \A i : i \in Group(arena, p) <=>
                 i \in DOMAIN arena /\ \A k \in 1 .. Len(p) : Key(p, k) = Key(arena[i], k)
           /\ Group(arena, p) # {} <=> \E w \in words : IsPrefix(p, w)
           /\ Group(arena, p) \subseteq 1 .. Len(arena)
<1>1. \A i \in DOMAIN arena : arena[i] \in Seq(Chars)
  BY DEF Sorted
<1>2. \A i \in DOMAIN arena :
         IsPrefix(p, arena[i]) <=> \A k \in 1 .. Len(p) : Key(p, k) = Key(arena[i], k)
  BY <1>1, PrefixAt
<1>3. Group(arena, p) # {} <=> \E w \in words : IsPrefix(p, w)
  BY DEF Sorted, Group
<1>4. DOMAIN arena = 1 .. Len(arena)
  BY DEF Sorted
<1> QED
  BY <1>2, <1>3, <1>4 DEF Group

\* The same as far as a place.
Alike(v, w, d) == \A k \in 1 .. d : Key(v, k) = Key(w, k)

\* Two words in order, and a place up to which they are the same.
LEMMA OrderAt ==
    ASSUME NEW v \in Seq(Chars), NEW w \in Seq(Chars), Precedes(v, w), NEW d \in Nat,
           Alike(v, w, d)
    PROVE  Key(v, d + 1) <= Key(w, d + 1)
<1>1. PICK n \in Nat \ {0} : PutsFirst(v, w, n)
  BY PrecedesIs
<1>2. \A k \in Nat \ {0} : Key(v, k) \in Nat /\ Key(w, k) \in Nat
  BY KeyIs
<1>3. d + 1 <= n
  <2>1. n \in 1 .. d => Key(v, n) = Key(w, n)
    BY DEF Alike
  <2>2. Key(v, n) # Key(w, n)
    BY <1>1, <1>2 DEF PutsFirst
  <2> QED
    BY <2>1, <2>2
<1>4. CASE d + 1 = n
  <2>1. Key(v, n) < Key(w, n)
    BY <1>1 DEF PutsFirst
  <2>2. PICK a \in Nat, b \in Nat : a = Key(v, n) /\ b = Key(w, n)
    BY <1>2
  <2>3. a <= b
    BY <2>1, <2>2
  <2> QED
    BY <1>4, <2>2, <2>3
<1>5. CASE d + 1 \in 1 .. n - 1
  BY <1>1, <1>2, <1>5 DEF PutsFirst
<1> QED
  BY <1>3, <1>4, <1>5

\* Nothing stands between two words with a prefix but words with that prefix.
LEMMA Sandwich ==
    ASSUME NEW u \in Seq(Chars), NEW v \in Seq(Chars), NEW w \in Seq(Chars),
           Precedes(u, v), Precedes(v, w), NEW d \in Nat,
           Alike(u, w, d)
    PROVE  Alike(u, v, d)
<1>1. PICK n \in Nat \ {0} : PutsFirst(u, v, n)
  BY PrecedesIs
<1>2. PICK m \in Nat \ {0} : PutsFirst(v, w, m)
  BY PrecedesIs
<1>3. \A k \in Nat \ {0} : Key(u, k) \in Nat /\ Key(v, k) \in Nat /\ Key(w, k) \in Nat
  BY KeyIs
<1>4. n > d
  <2>1. SUFFICES ASSUME n \in 1 .. d PROVE FALSE
    OBVIOUS
  <2>2. Key(u, n) < Key(v, n) /\ Key(u, n) = Key(w, n)
    BY <1>1, <2>1 DEF PutsFirst, Alike
  <2>3. CASE n \in 1 .. m - 1
    <3>1. Key(v, n) = Key(w, n)
      BY <1>2, <2>3 DEF PutsFirst
    <3> QED
      BY <1>3, <2>2, <3>1
  <2>4. CASE n = m
    <3>1. Key(v, n) < Key(w, n)
      BY <1>2, <2>4 DEF PutsFirst
    <3> QED
      BY <1>3, <2>2, <3>1
  <2>5. CASE m \in 1 .. n - 1
    <3>1. Key(v, m) < Key(w, m) /\ Key(u, m) = Key(v, m) /\ m \in 1 .. d
      BY <1>1, <1>2, <2>1, <2>5 DEF PutsFirst
    <3>2. Key(u, m) = Key(w, m)
      BY <3>1 DEF Alike
    <3> QED
      BY <1>3, <3>1, <3>2
  <2> QED
    BY <2>3, <2>4, <2>5
<1>5. \A k \in 1 .. d : k \in 1 .. n - 1
  BY <1>4
<1> QED
  BY <1>1, <1>5 DEF PutsFirst, Alike

\* The words with a prefix stand together, in the order of the next character.
LEMMA GroupStands ==
    ASSUME NEW arena, NEW words, Sorted(arena, words), NEW p \in Seq(Chars)
    PROVE  /\ \A i, k \in Group(arena, p) : \A j \in i .. k : j \in Group(arena, p)
           /\ \A i, k \in Group(arena, p) :
                 i <= k => Key(arena[i], Len(p) + 1) <= Key(arena[k], Len(p) + 1)
<1>1. PICK n \in Nat : DOMAIN arena = 1 .. n
  BY DEF Sorted
<1>2. PICK d \in Nat : d = Len(p)
  OBVIOUS
<1>3. \A i \in 1 .. n : arena[i] \in Seq(Chars)
  BY <1>1 DEF Sorted
<1>4. \A i : i \in Group(arena, p) <=>
         i \in 1 .. n /\ \A k \in 1 .. d : Key(p, k) = Key(arena[i], k)
  BY <1>1, <1>2, GroupIs
<1>5. \A i, j \in 1 .. n : i < j => Precedes(arena[i], arena[j])
  BY <1>1 DEF Sorted
<1>6. ASSUME NEW i \in Group(arena, p), NEW k \in Group(arena, p), NEW j \in i .. k
      PROVE  j \in Group(arena, p)
  <2>1. i \in 1 .. n /\ k \in 1 .. n /\ j \in 1 .. n
    BY <1>4
  <2>2. CASE i = j \/ k = j
    BY <2>2
  <2>3. CASE i # j /\ k # j
    <3>1. i < j /\ j < k
      BY <2>1, <2>3
    <3>2. Precedes(arena[i], arena[j]) /\ Precedes(arena[j], arena[k])
      BY <1>5, <2>1, <3>1
    <3>3. Alike(arena[i], arena[k], d)
      BY <1>4 DEF Alike
    <3>4. PICK u \in Seq(Chars), v \in Seq(Chars), w \in Seq(Chars) :
             u = arena[i] /\ v = arena[j] /\ w = arena[k]
      BY <1>3, <2>1
    <3>5. Alike(u, v, d)
      BY <3>2, <3>3, <3>4, Sandwich
    <3> QED
      BY <1>4, <2>1, <3>4, <3>5 DEF Alike
  <2> QED
    BY <2>2, <2>3
<1>7. ASSUME NEW i \in Group(arena, p), NEW k \in Group(arena, p), i <= k
      PROVE  Key(arena[i], d + 1) <= Key(arena[k], d + 1)
  <2>1. i \in 1 .. n /\ k \in 1 .. n
    BY <1>4
  <2>2. CASE i = k
    <3>1. Key(arena[i], d + 1) \in Nat
      BY <1>3, <2>1, KeyIs
    <3> QED
      BY <2>2, <3>1
  <2>3. CASE i < k
    <3>1. Alike(arena[i], arena[k], d)
      BY <1>4 DEF Alike
    <3> QED
      BY <1>3, <1>5, <2>1, <2>3, <3>1, OrderAt
  <2> QED
    BY <1>7, <2>1, <2>2, <2>3
<1> QED
  BY <1>2, <1>6, <1>7

LEMMA GroupSpan ==
    ASSUME NEW arena, NEW words, Sorted(arena, words), NEW p \in Seq(Chars),
           Group(arena, p) # {}
    PROVE  LET g == Group(arena, p)
           IN  /\ Min(g) \in DOMAIN arena /\ Min(g) \in g /\ Max(g) \in g
               /\ Cardinality(g) = Max(g) - Min(g) + 1
               /\ Cardinality(g) \in 1 .. Len(arena) /\ Min(g) \in 1 .. Len(arena)
               /\ g = Min(g) .. Min(g) + Cardinality(g) - 1
               /\ IsFiniteSet(g)
<1>1. PICK n \in Nat : DOMAIN arena = 1 .. n /\ Len(arena) = n
  BY DEF Sorted
<1>2. PICK g : g = Group(arena, p)
  OBVIOUS
<1>3. g \subseteq 1 .. n
  BY <1>1, <1>2, GroupIs
<1>4. \A i, k \in g : \A j \in i .. k : j \in g
  BY <1>2, GroupStands
<1>5. g # {}
  BY <1>2
<1>6. /\ Min(g) \in 1 .. n /\ Max(g) \in 1 .. n /\ Min(g) \in g /\ Max(g) \in g
      /\ IsFiniteSet(g) /\ Cardinality(g) = Max(g) - Min(g) + 1
      /\ Cardinality(g) \in 1 .. n
      /\ g = Min(g) .. Min(g) + Cardinality(g) - 1
  BY <1>3, <1>4, <1>5, SpanOf
<1> QED
  BY <1>1, <1>2, <1>6, Zenon

LEMMA AppendAt ==
    ASSUME NEW p \in Seq(Chars), NEW c \in Chars
    PROVE  /\ Append(p, c) \in Seq(Chars) /\ Len(Append(p, c)) = Len(p) + 1
           /\ Key(Append(p, c), Len(p) + 1) = Place(c)
           /\ \A k \in 1 .. Len(p) : Key(Append(p, c), k) = Key(p, k)
<1>1. PICK d \in Nat : d = Len(p)
  OBVIOUS
<1>2. PICK q : q = Append(p, c)
  OBVIOUS
<1>3. /\ q \in Seq(Chars) /\ Len(q) = d + 1 /\ q[d + 1] = c
      /\ \A k \in 1 .. d : q[k] = p[k]
  BY <1>1, <1>2
<1>4. Key(q, d + 1) = Place(c)
  <2>1. d + 1 \in Nat \ {0} /\ d + 1 <= d + 1
    OBVIOUS
  <2> QED
    BY <1>3, <2>1, KeyIs
<1>5. ASSUME NEW k \in 1 .. d PROVE Key(q, k) = Key(p, k)
  <2>1. k \in Nat \ {0} /\ k <= d + 1 /\ k <= d
    OBVIOUS
  <2> QED
    BY <1>1, <1>3, <2>1, KeyIs
<1> QED
  BY <1>1, <1>2, <1>3, <1>4, <1>5

\* Of them those with a character more are told by their next character.
LEMMA LongerGroup ==
    ASSUME NEW arena, NEW words, Sorted(arena, words), NEW p \in Seq(Chars), NEW c \in Chars
    PROVE  Group(arena, Append(p, c))
             = {i \in Group(arena, p) : Key(arena[i], Len(p) + 1) = Place(c)}
<1>1. PICK d \in Nat : d = Len(p)
  OBVIOUS
<1>2. PICK q : q = Append(p, c)
  OBVIOUS
<1>3. /\ q \in Seq(Chars) /\ Len(q) = d + 1 /\ Key(q, d + 1) = Place(c)
      /\ \A k \in 1 .. d : Key(q, k) = Key(p, k)
  BY <1>1, <1>2, AppendAt
<1>4. \A k : k \in 1 .. d + 1 <=> k \in 1 .. d \/ k = d + 1
  BY <1>1
<1>5. \A i : i \in Group(arena, p) <=>
         i \in DOMAIN arena /\ \A k \in 1 .. d : Key(p, k) = Key(arena[i], k)
  BY <1>1, GroupIs
<1>6. \A i : i \in Group(arena, q) <=>
         i \in DOMAIN arena /\ \A k \in 1 .. d + 1 : Key(q, k) = Key(arena[i], k)
  BY <1>3, GroupIs
<1>7. \A i : i \in Group(arena, q) <=>
         i \in Group(arena, p) /\ Key(arena[i], d + 1) = Place(c)
  BY <1>3, <1>4, <1>5, <1>6
<1> QED
  BY <1>1, <1>2, <1>7

\* The first of the words with a prefix is the prefix, if that is a word.
LEMMA FirstIsWord ==
    ASSUME NEW arena, NEW words, Sorted(arena, words), NEW p \in Seq(Chars),
           Group(arena, p) # {}
    PROVE  Len(arena[Min(Group(arena, p))]) = Len(p) <=> p \in words
<1>1. PICK n \in Nat : DOMAIN arena = 1 .. n /\ Len(arena) = n
  BY DEF Sorted
<1>2. PICK i \in 1 .. n : /\ i = Min(Group(arena, p)) /\ i \in Group(arena, p)
                          /\ \A j \in Group(arena, p) : i <= j
  <2>1. Group(arena, p) \subseteq Nat
    BY <1>1, GroupIs
  <2> QED
    BY <1>1, <2>1, MinIs, GroupIs
<1>3. PICK w \in words : w = arena[i] /\ w \in Seq(Chars) /\ IsPrefix(p, w)
  BY <1>1, <1>2 DEF Sorted, Group
<1>4. Len(p) <= Len(w) /\ \A k \in 1 .. Len(p) : p[k] = w[k]
  BY <1>3, PrefixIs
<1>5. ASSUME Len(w) = Len(p) PROVE p \in words
  <2>1. p = w
    BY <1>3, <1>4, <1>5, SeqEqual
  <2> QED
    BY <2>1
<1>6. ASSUME p \in words PROVE Len(w) = Len(p)
  <2>1. PICK j \in 1 .. n : arena[j] = p
    BY <1>1, <1>6 DEF Sorted
  <2>2. j \in Group(arena, p)
    <3>1. IsPrefix(p, p)
      BY PrefixIs
    <3> QED
      BY <1>1, <2>1, <3>1 DEF Group
  <2>3. i <= j
    BY <1>2, <2>2
  <2>4. CASE i = j
    BY <1>3, <2>1, <2>4
  <2>5. CASE i < j
    <3>1. Precedes(w, p)
      BY <1>1, <1>3, <2>1, <2>5 DEF Sorted
    <3>2. w # p
      BY <3>1, OrderIs
    <3>3. Precedes(p, w)
      BY <1>3, <3>2 DEF Precedes, IsStrictPrefix
    <3> QED
      BY <1>3, <3>1, <3>3, OrderIs
  <2> QED
    BY <2>3, <2>4, <2>5
<1> QED
  BY <1>2, <1>3, <1>5, <1>6

-----------------------------------------------------------------------------
(* The dictionary: bisecting.                                               *)

\* Where the numbers of a set end that come before those that are not in it.
EndsAt(r, l, h, P) == r \in l .. h /\ \A i \in l .. h - 1 : i \in P <=> i < r
ComeFirst(P, l, h) == \A i, j \in l .. h - 1 : i <= j /\ j \in P => i \in P

LEMMA EndIs ==
    ASSUME NEW l \in Int, NEW h \in Int, l <= h, NEW P, ComeFirst(P, l, h)
    PROVE  /\ \E r \in Int : EndsAt(r, l, h, P)
           /\ \A r, s : EndsAt(r, l, h, P) /\ EndsAt(s, l, h, P) => r = s
<1> DEFINE left == {k \in 0 .. h - l : l + k = h \/ l + k \notin P}
<1>1. left \subseteq Nat /\ h - l \in left
  OBVIOUS
<1>2. PICK k \in left : \A j \in left : k <= j
  <2> HIDE DEF left
  <2> QED
    BY <1>1, LeastExists
<1>3. PICK r \in l .. h : r = l + k /\ (r = h \/ r \notin P)
  OBVIOUS
<1>4. ASSUME NEW i \in l .. h - 1, i < r PROVE i \in P
  <2>1. i - l \in 0 .. h - l /\ l + (i - l) = i /\ i # h /\ i - l < k
    BY <1>3, <1>4
  <2>2. i - l \notin left
    <3> HIDE DEF left
    <3> QED
      BY <1>1, <1>2, <2>1
  <2> QED
    BY <2>1, <2>2
<1>5. ASSUME NEW i \in l .. h - 1, i \in P PROVE i < r
  <2>1. r \in l .. h - 1 /\ r <= i => r \in P
    BY <1>5 DEF ComeFirst
  <2>2. r <= i => r # h
    BY <1>3
  <2> QED
    BY <1>3, <2>1, <2>2
<1>6. EndsAt(r, l, h, P)
  BY <1>4, <1>5 DEF EndsAt
<1>7. ASSUME NEW s, NEW t, EndsAt(s, l, h, P), EndsAt(t, l, h, P) PROVE s = t
  <2>1. s \in l .. h /\ t \in l .. h
    BY <1>7 DEF EndsAt
  <2>2. ~(s < t)
    BY <1>7, <2>1 DEF EndsAt
  <2>3. ~(t < s)
    BY <1>7, <2>1 DEF EndsAt
  <2> QED
    BY <2>1, <2>2, <2>3
<1> QED
  BY <1>6, <1>7

LEMMA MiddleIs ==
    ASSUME NEW l \in Int, NEW h \in Int, l < h
    PROVE  l + (h - l) \div 2 \in l .. h - 1
<1>1. PICK n \in Nat : n = h - l /\ n >= 1
  OBVIOUS
<1>2. n \div 2 \in Nat /\ n \div 2 < n
  BY <1>1
<1> QED
  BY <1>1, <1>2

\* Half of a range ends where all of it does.
LEMMA HalfEnds ==
    ASSUME NEW l \in Int, NEW h \in Int, NEW m \in l .. h - 1, NEW P, NEW r,
           ComeFirst(P, l, h)
    PROVE  /\ m \in P /\ EndsAt(r, m + 1, h, P) => EndsAt(r, l, h, P)
           /\ m \notin P /\ EndsAt(r, l, m, P) => EndsAt(r, l, h, P)
<1>1. ASSUME m \in P, EndsAt(r, m + 1, h, P) PROVE EndsAt(r, l, h, P)
  <2>1. r \in m + 1 .. h /\ \A i \in m + 1 .. h - 1 : i \in P <=> i < r
    BY <1>1 DEF EndsAt
  <2>2. \A i \in l .. m : i \in P /\ i < r
    BY <1>1, <2>1 DEF ComeFirst
  <2>3. \A i \in l .. h - 1 : i \in l .. m \/ i \in m + 1 .. h - 1
    OBVIOUS
  <2>4. \A i \in l .. h - 1 : i \in P <=> i < r
    BY <2>1, <2>2, <2>3
  <2>5. r \in l .. h
    BY <2>1
  <2> QED
    BY <2>4, <2>5 DEF EndsAt
<1>2. ASSUME m \notin P, EndsAt(r, l, m, P) PROVE EndsAt(r, l, h, P)
  <2>1. r \in l .. m /\ \A i \in l .. m - 1 : i \in P <=> i < r
    BY <1>2 DEF EndsAt
  <2>2. \A i \in m .. h - 1 : i \notin P /\ ~(i < r)
    BY <1>2, <2>1 DEF ComeFirst
  <2>3. \A i \in l .. h - 1 : i \in l .. m - 1 \/ i \in m .. h - 1
    OBVIOUS
  <2>4. \A i \in l .. h - 1 : i \in P <=> i < r
    BY <2>1, <2>2, <2>3
  <2>5. r \in l .. h
    BY <2>1
  <2> QED
    BY <2>4, <2>5 DEF EndsAt
<1> QED
  BY <1>1, <1>2

\* The words whose character at a depth is one of these, and that they come first.
With(dict, lo, hi, depth, chars) == {i \in lo .. hi - 1 : CharAt(dict, i, depth) \in chars}

\* partition_point finds where they end.
LEMMA PartitionIs ==
    ASSUME NEW dict, NEW lo \in Int, NEW hi \in Int, lo <= hi, NEW depth, NEW chars,
           ComeFirst(With(dict, lo, hi, depth, chars), lo, hi)
    PROVE  EndsAt(Partition(dict, lo, hi, depth, chars), lo, hi,
                  With(dict, lo, hi, depth, chars))
<1>1. PICK P : P = With(dict, lo, hi, depth, chars)
  OBVIOUS
<1> DEFINE Ranges == (lo .. hi) \X (lo .. hi)
           Mid(r) == r[1] + (r[2] - r[1]) \div 2
           Bisects(g) ==
               g = [r \in Ranges |->
                      IF r[1] >= r[2] THEN r[1]
                      ELSE IF CharAt(dict, Mid(r), depth) \in chars THEN g[<<Mid(r) + 1, r[2]>>]
                      ELSE g[<<r[1], Mid(r)>>]]
<1>2. ASSUME NEW l \in lo .. hi, NEW h \in lo .. hi
      PROVE  ComeFirst(P, l, h)
  <2>1. \A i \in l .. h - 1 : i \in lo .. hi - 1
    OBVIOUS
  <2> QED
    BY <1>1, <2>1 DEF ComeFirst
<1>3. ASSUME NEW r \in Ranges, r[1] < r[2]
      PROVE  /\ Mid(r) \in r[1] .. r[2] - 1 /\ Mid(r) \in lo .. hi /\ Mid(r) + 1 \in lo .. hi
             /\ CharAt(dict, Mid(r), depth) \in chars <=> Mid(r) \in P
  <2>1. PICK l \in lo .. hi, h \in lo .. hi : l = r[1] /\ h = r[2] /\ l < h
    BY <1>3
  <2>2. PICK m \in l .. h - 1 : m = Mid(r)
    BY <2>1, MiddleIs
  <2>3. m \in lo .. hi - 1
    BY <2>1, <2>2
  <2> QED
    BY <1>1, <2>1, <2>2, <2>3 DEF With
<1>4. \E g : Bisects(g)
  <2>1. PICK g : g = [r \in Ranges |-> IF r[1] >= r[2] THEN r[1]
                                       ELSE CHOOSE e \in Int : EndsAt(e, r[1], r[2], P)]
    OBVIOUS
  <2>2. ASSUME NEW l \in lo .. hi, NEW h \in lo .. hi, l <= h
        PROVE  EndsAt(g[<<l, h>>], l, h, P)
    <3>1. CASE l = h
      <4>1. g[<<l, h>>] = l
        BY <2>1, <3>1
      <4> QED
        BY <3>1, <4>1 DEF EndsAt
    <3>2. CASE l < h
      <4>1. \E e \in Int : EndsAt(e, l, h, P)
        BY <1>2, <2>2, EndIs
      <4>2. g[<<l, h>>] = CHOOSE e \in Int : EndsAt(e, l, h, P)
        BY <2>1, <3>2
      <4> QED
        BY <4>1, <4>2
    <3> QED
      BY <2>2, <3>1, <3>2
  <2>3. ASSUME NEW r \in Ranges
        PROVE  g[r] = IF r[1] >= r[2] THEN r[1]
                      ELSE IF CharAt(dict, Mid(r), depth) \in chars
                           THEN g[<<Mid(r) + 1, r[2]>>]
                      ELSE g[<<r[1], Mid(r)>>]
    <3>1. CASE r[1] >= r[2]
      BY <2>1, <3>1
    <3>2. CASE r[1] < r[2]
      <4>1. PICK l \in lo .. hi, h \in lo .. hi : l = r[1] /\ h = r[2] /\ l < h /\ r = <<l, h>>
        BY <3>2
      <4>2. PICK m \in l .. h - 1 : /\ m = Mid(r) /\ m \in lo .. hi /\ m + 1 \in lo .. hi
                                    /\ CharAt(dict, m, depth) \in chars <=> m \in P
        BY <1>3, <3>2, <4>1
      <4>3. m \in P => EndsAt(g[<<m + 1, h>>], l, h, P)
        <5>1. EndsAt(g[<<m + 1, h>>], m + 1, h, P)
          BY <2>2, <4>2
        <5> QED
          BY <1>2, <4>1, <4>2, <5>1, HalfEnds
      <4>4. m \notin P => EndsAt(g[<<l, m>>], l, h, P)
        <5>1. EndsAt(g[<<l, m>>], l, m, P)
          BY <2>2, <4>2
        <5> QED
          BY <1>2, <4>1, <4>2, <5>1, HalfEnds
      <4>5. EndsAt(g[<<l, h>>], l, h, P)
        BY <2>2, <4>1
      <4>6. \A e, f : EndsAt(e, l, h, P) /\ EndsAt(f, l, h, P) => e = f
        BY <1>2, <4>1, EndIs
      <4>7. ~(r[1] >= r[2])
        BY <4>1
      <4> QED
        BY <4>1, <4>2, <4>3, <4>4, <4>5, <4>6, <4>7
    <3> QED
      BY <3>1, <3>2
  <2>4. Bisects(g)
    BY <2>1, <2>3
  <2> QED
    BY <2>4
<1>5. ASSUME NEW g, Bisects(g) PROVE EndsAt(g[<<lo, hi>>], lo, hi, P)
  <2>1. \A r \in Ranges :
           g[r] = IF r[1] >= r[2] THEN r[1]
                  ELSE IF CharAt(dict, Mid(r), depth) \in chars THEN g[<<Mid(r) + 1, r[2]>>]
                  ELSE g[<<r[1], Mid(r)>>]
    BY <1>5
  <2> DEFINE bad == {n \in Nat : \E l, h \in lo .. hi :
                                    h - l = n /\ ~EndsAt(g[<<l, h>>], l, h, P)}
  <2>2. ASSUME bad # {} PROVE FALSE
    <3>1. bad \subseteq Nat
      OBVIOUS
    <3>2. PICK n \in bad : \A j \in bad : n <= j
      <4> HIDE DEF bad
      <4> QED
        BY <2>2, <3>1, LeastExists
    <3>3. PICK l \in lo .. hi, h \in lo .. hi :
             n \in Nat /\ h - l = n /\ ~EndsAt(g[<<l, h>>], l, h, P)
      OBVIOUS
    <3>4. \A a, b \in lo .. hi : a <= b /\ b - a < n => EndsAt(g[<<a, b>>], a, b, P)
      <4>1. SUFFICES ASSUME NEW a \in lo .. hi, NEW b \in lo .. hi, a <= b, b - a < n
                     PROVE  EndsAt(g[<<a, b>>], a, b, P)
        OBVIOUS
      <4>2. b - a \in Nat /\ b - a \notin bad
        <5>1. b - a \in Nat
          BY <4>1
        <5> HIDE DEF bad
        <5> QED
          BY <3>1, <3>2, <4>1, <5>1
      <4> QED
        BY <4>2
    <3>5. CASE l = h
      <4>1. PICK r \in Ranges : r = <<l, h>>
        OBVIOUS
      <4>2. g[r] = r[1] /\ r[1] = l
        <5>1. r[1] = l /\ r[2] = l /\ l \in Int
          BY <3>5, <4>1
        <5>2. r[1] >= r[2]
          BY <5>1
        <5> QED
          BY <2>1, <5>1, <5>2
      <4> QED
        BY <3>3, <3>5, <4>1, <4>2 DEF EndsAt
    <3>6. CASE l < h
      <4>1. PICK r \in Ranges : r = <<l, h>> /\ r[1] = l /\ r[2] = h
        <5>1. <<l, h>> \in Ranges /\ <<l, h>>[1] = l /\ <<l, h>>[2] = h
          OBVIOUS
        <5> HIDE DEF Ranges
        <5> QED
          BY <5>1
      <4>2. PICK m \in l .. h - 1 : /\ m = Mid(r) /\ m \in lo .. hi /\ m + 1 \in lo .. hi
                                    /\ CharAt(dict, m, depth) \in chars <=> m \in P
        BY <1>3, <3>6, <4>1
      <4>3. m \in P => EndsAt(g[<<m + 1, h>>], l, h, P)
        <5>1. m + 1 <= h /\ h - (m + 1) < n
          BY <3>3
        <5>2. EndsAt(g[<<m + 1, h>>], m + 1, h, P)
          BY <3>4, <4>2, <5>1
        <5>3. ComeFirst(P, l, h) /\ l \in Int /\ h \in Int
          BY <1>2
        <5> QED
          BY <4>2, <5>2, <5>3, HalfEnds
      <4>4. m \notin P => EndsAt(g[<<l, m>>], l, h, P)
        <5>1. l <= m /\ m - l < n
          BY <3>3
        <5>2. EndsAt(g[<<l, m>>], l, m, P)
          BY <3>4, <4>2, <5>1
        <5> QED
          BY <1>2, <4>2, <5>2, HalfEnds
      <4>5. ~(r[1] >= r[2])
        BY <3>6, <4>1
      <4>6. g[r] = IF m \in P THEN g[<<m + 1, h>>] ELSE g[<<l, m>>]
        BY <2>1, <4>1, <4>2, <4>5
      <4> QED
        BY <3>3, <4>1, <4>3, <4>4, <4>6
    <3> QED
      BY <3>3, <3>5, <3>6
  <2>3. hi - lo \in Nat /\ hi - lo \notin bad
    <3>1. hi - lo \in Nat
      OBVIOUS
    <3> HIDE DEF bad
    <3> QED
      BY <2>2, <3>1
  <2>4. lo \in lo .. hi /\ hi \in lo .. hi
    OBVIOUS
  <2> QED
    BY <2>3, <2>4
<1>6. PICK g : g = CHOOSE f : Bisects(f)
  OBVIOUS
<1>7. Bisects(g)
  <2> HIDE DEF Bisects
  <2> QED
    BY <1>4, <1>6
<1>8. Partition(dict, lo, hi, depth, chars) = g[<<lo, hi>>]
  BY <1>6, Zenon DEF Partition
<1> QED
  BY <1>1, <1>5, <1>7, <1>8

-----------------------------------------------------------------------------
(* The dictionary: narrowing a range.                                       *)

\* A cursor that holds the range of the words with a prefix.
Holds(cursor, arena, p) ==
    /\ cursor.at = "range" /\ cursor.depth = Len(p)
    /\ cursor.from \in Nat \ {0} /\ cursor.len \in Nat
    /\ Group(arena, p) = cursor.from .. cursor.from + cursor.len - 1

LEMMA CharsRise ==
    ASSUME NEW dict, NEW words, Sorted(dict.arena, words), NEW p \in Seq(Chars)
    PROVE  /\ \A i \in Group(dict.arena, p) : /\ CharAt(dict, i, Len(p)) \in Nat
                                              /\ CharAt(dict, i, Len(p)) = Key(dict.arena[i], Len(p) + 1)
           /\ \A i, j \in Group(dict.arena, p) :
                 i <= j => CharAt(dict, i, Len(p)) <= CharAt(dict, j, Len(p))
<1>1. PICK d \in Nat : d = Len(p)
  OBVIOUS
<1>2. PICK arena : arena = dict.arena
  OBVIOUS
<1>3. ASSUME NEW i \in Group(arena, p)
      PROVE  CharAt(dict, i, d) \in Nat /\ CharAt(dict, i, d) = Key(arena[i], d + 1)
  <2>1. i \in DOMAIN arena
    BY DEF Group
  <2>2. PICK w \in Seq(Chars) : w = arena[i]
    BY <1>2, <2>1 DEF Sorted
  <2>3. d + 1 \in Nat \ {0} /\ (Len(w) > d <=> d + 1 <= Len(w))
    BY <2>2
  <2>4. CharAt(dict, i, d) = IF Len(w) > d THEN Place(w[d + 1]) ELSE 0
    BY <1>2, <2>2 DEF CharAt
  <2>5. /\ Key(w, d + 1) \in Nat
        /\ Key(w, d + 1) > 0 <=> d + 1 <= Len(w)
        /\ d + 1 <= Len(w) => Key(w, d + 1) = Place(w[d + 1])
    BY <2>3, KeyIs
  <2>6. CharAt(dict, i, d) = Key(w, d + 1)
    BY <2>3, <2>4, <2>5
  <2> QED
    BY <2>2, <2>5, <2>6
<1>4. \A i, j \in Group(arena, p) : i <= j => Key(arena[i], d + 1) <= Key(arena[j], d + 1)
  BY <1>1, <1>2, GroupStands
<1> QED
  BY <1>1, <1>2, <1>3, <1>4

\* Scanning the range finds the words with a character more,
LEMMA ScannedIs ==
    ASSUME NEW dict, NEW words, Sorted(dict.arena, words), NEW p \in Seq(Chars),
           NEW c \in Chars, NEW cursor, Holds(cursor, dict.arena, p)
    PROVE  Scanned(dict, cursor, Place(c)) = Group(dict.arena, Append(p, c))
<1>1. PICK g : g = Group(dict.arena, p)
  OBVIOUS
<1>2. PICK a \in Nat, n \in Nat, d \in Nat, k \in Nat, b \in Int :
         /\ a = cursor.from /\ n = cursor.len /\ d = cursor.depth /\ d = Len(p)
         /\ k = Place(c) /\ b = a + n - 1 /\ g = a .. b
  <2>1. Place(c) \in Nat /\ Len(p) \in Nat
    BY PlaceIs
  <2>2. PICK a \in Nat, n \in Nat : a = cursor.from /\ n = cursor.len
    BY DEF Holds
  <2>3. cursor.depth = Len(p) /\ g = a .. a + n - 1 /\ a + n - 1 \in Int
    BY <1>1, <2>2 DEF Holds
  <2> QED
    BY <2>1, <2>2, <2>3
<1>3. \A i \in g : CharAt(dict, i, d) \in Nat /\ CharAt(dict, i, d) = Key(dict.arena[i], d + 1)
  BY <1>1, <1>2, CharsRise
<1>4. \A i, j \in g : i <= j => CharAt(dict, i, d) <= CharAt(dict, j, d)
  BY <1>1, <1>2, CharsRise
<1>5. Group(dict.arena, Append(p, c)) = {i \in g : CharAt(dict, i, d) = k}
  <2>1. Group(dict.arena, Append(p, c)) = {i \in g : Key(dict.arena[i], Len(p) + 1) = Place(c)}
    BY <1>1, LongerGroup
  <2> QED
    BY <1>2, <1>3, <2>1
<1>6. \A i \in g : \A j \in a .. i : j \in g /\ j <= i
  BY <1>2
<1>7. \A i \in g : CharAt(dict, i, d) = k => \A j \in a .. i : CharAt(dict, j, d) <= k
  BY <1>4, <1>6
<1>8. Scanned(dict, cursor, k)
        = {i \in g : CharAt(dict, i, d) = k /\ \A j \in a .. i : CharAt(dict, j, d) <= k}
  BY <1>2, Zenon DEF Scanned
<1> QED
  BY <1>2, <1>5, <1>7, <1>8

\* and so does bisecting it.
LEMMA BisectedIs ==
    ASSUME NEW dict, NEW words, Sorted(dict.arena, words), NEW p \in Seq(Chars),
           NEW c \in Chars, NEW cursor, Holds(cursor, dict.arena, p)
    PROVE  Bisected(dict, cursor, Place(c)) = Group(dict.arena, Append(p, c))
<1>1. PICK g : g = Group(dict.arena, p)
  OBVIOUS
<1>2. PICK a \in Nat, n \in Nat, d \in Nat, k \in Nat, b \in Nat :
         /\ a = cursor.from /\ n = cursor.len /\ d = cursor.depth /\ d = Len(p)
         /\ k = Place(c) /\ b = a + n /\ g = a .. b - 1 /\ a <= b
  <2>1. Place(c) \in Nat /\ Len(p) \in Nat
    BY PlaceIs
  <2>2. PICK a \in Nat, n \in Nat : a = cursor.from /\ n = cursor.len
    BY DEF Holds
  <2>3. cursor.depth = Len(p) /\ g = a .. a + n - 1
    BY <1>1, <2>2 DEF Holds
  <2>4. a + n - 1 = (a + n) - 1 /\ a + n \in Nat /\ a <= a + n
    OBVIOUS
  <2> QED
    BY <2>1, <2>2, <2>3, <2>4
<1>3. \A i \in g : CharAt(dict, i, d) \in Nat /\ CharAt(dict, i, d) = Key(dict.arena[i], d + 1)
  BY <1>1, <1>2, CharsRise
<1>4. \A i, j \in g : i <= j => CharAt(dict, i, d) <= CharAt(dict, j, d)
  BY <1>1, <1>2, CharsRise
<1>5. Group(dict.arena, Append(p, c)) = {i \in g : CharAt(dict, i, d) = k}
  <2>1. Group(dict.arena, Append(p, c)) = {i \in g : Key(dict.arena[i], Len(p) + 1) = Place(c)}
    BY <1>1, LongerGroup
  <2> QED
    BY <1>2, <1>3, <2>1
<1>6. PICK P : P = With(dict, a, b, d, 0 .. k - 1)
  OBVIOUS
<1>7. \A i \in a .. b - 1 : i \in P <=> CharAt(dict, i, d) < k
  BY <1>2, <1>3, <1>6 DEF With
<1>8. ComeFirst(P, a, b)
  <2>1. \A i, j \in a .. b - 1 : i <= j /\ CharAt(dict, j, d) < k => CharAt(dict, i, d) < k
    BY <1>2, <1>3, <1>4
  <2> QED
    BY <1>7, <2>1 DEF ComeFirst
<1>9. PICK m : m = Partition(dict, a, b, d, 0 .. k - 1)
  OBVIOUS
<1>10. EndsAt(m, a, b, P)
  BY <1>2, <1>6, <1>8, <1>9, PartitionIs
<1>11. m \in a .. b /\ \A i \in a .. b - 1 : CharAt(dict, i, d) < k <=> i < m
  BY <1>7, <1>10 DEF EndsAt
<1>12. PICK Q : Q = With(dict, m, b, d, {k})
  OBVIOUS
<1>13. \A i \in m .. b - 1 : i \in a .. b - 1 /\ i \in g /\ (i \in Q <=> CharAt(dict, i, d) = k)
  BY <1>2, <1>11, <1>12 DEF With
<1>14. ComeFirst(Q, m, b)
  <2>1. ASSUME NEW i \in m .. b - 1, NEW j \in m .. b - 1, i <= j, CharAt(dict, j, d) = k
        PROVE  CharAt(dict, i, d) = k
    <3>1. CharAt(dict, i, d) <= k
      BY <1>4, <1>13, <2>1
    <3>2. ~(CharAt(dict, i, d) < k)
      BY <1>11, <1>13
    <3>3. CharAt(dict, i, d) \in Nat
      BY <1>3, <1>13
    <3> QED
      BY <3>1, <3>2, <3>3
  <2> QED
    BY <1>13, <2>1 DEF ComeFirst
<1>15. PICK e : e = Partition(dict, m, b, d, {k})
  OBVIOUS
<1>16. EndsAt(e, m, b, Q)
  <2>1. m \in Int /\ b \in Int /\ m <= b
    BY <1>11
  <2> QED
    BY <1>12, <1>14, <1>15, <2>1, PartitionIs
<1>17. e \in m .. b /\ \A i \in m .. b - 1 : CharAt(dict, i, d) = k <=> i < e
  BY <1>13, <1>16 DEF EndsAt
<1>18. Bisected(dict, cursor, k) = m .. e - 1
  BY <1>2, <1>9, <1>15 DEF Bisected, MatchesFrom
<1>19. ASSUME NEW i \in g, CharAt(dict, i, d) = k PROVE i \in m .. e - 1
  <2>1. ~(CharAt(dict, i, d) < k)
    BY <1>19
  <2>2. i \in a .. b - 1
    BY <1>2
  <2>3. i >= m
    BY <1>11, <2>1, <2>2
  <2>4. i \in m .. b - 1
    BY <1>11, <2>2, <2>3
  <2> QED
    BY <1>17, <1>19, <2>4
<1>20. ASSUME NEW i \in m .. e - 1 PROVE i \in g /\ CharAt(dict, i, d) = k
  <2>1. i \in m .. b - 1 /\ i < e
    BY <1>11, <1>17
  <2> QED
    BY <1>13, <1>17, <2>1
<1> QED
  BY <1>2, <1>5, <1>18, <1>19, <1>20

\* What a step says that leaves the cursor in a range.
InRange(s, arena, words, p) ==
    IF Group(arena, p) = {} THEN s = Stuck
    ELSE s # Stuck /\ (s.isWord <=> p \in words) /\ Holds(s.cursor, arena, p)

\* A step that was taken is not the lack of one.
LEMMA SteppedIs ==
    ASSUME NEW cursor, NEW isWord
    PROVE  /\ Stepped(cursor, isWord) # Stuck
           /\ Stepped(cursor, isWord).cursor = cursor
           /\ Stepped(cursor, isWord).isWord = isWord
  BY DEF Stepped, Stuck

\* The range found is that of the longer prefix, and says whether this is a word.
LEMMA NarrowedIs ==
    ASSUME NEW dict, NEW words, Sorted(dict.arena, words), NEW p \in Seq(Chars),
           NEW c \in Chars, NEW cursor, Holds(cursor, dict.arena, p), NEW found,
           found = Group(dict.arena, Append(p, c))
    PROVE  InRange(NarrowTo(dict, cursor, found), dict.arena, words, Append(p, c))
<1>1. PICK q \in Seq(Chars) : q = Append(p, c)
  BY AppendAt
<1>2. Len(q) = Len(p) + 1 /\ cursor.depth = Len(p)
  BY <1>1, AppendAt DEF Holds
<1>3. CASE found = {}
  BY <1>1, <1>3, Zenon DEF NarrowTo, InRange
<1>4. CASE found # {}
  <2>1. PICK first \in Nat \ {0}, len \in Nat :
           /\ first = Min(found) /\ len = Cardinality(found) /\ len = Max(found) - first + 1
           /\ found = first .. first + len - 1
    <3>1. /\ Cardinality(found) = Max(found) - Min(found) + 1
          /\ Cardinality(found) \in 1 .. Len(dict.arena) /\ Min(found) \in 1 .. Len(dict.arena)
          /\ found = Min(found) .. Min(found) + Cardinality(found) - 1
      BY <1>1, <1>4, GroupSpan
    <3>2. Len(dict.arena) \in Nat
      BY DEF Sorted
    <3> QED
      BY <3>1, <3>2
  <2>2. Len(dict.arena[first]) = Len(q) <=> q \in words
    <3>1. Len(dict.arena[Min(found)]) = Len(q) <=> q \in words
      BY <1>1, <1>4, FirstIsWord
    <3> QED
      BY <2>1, <3>1
  <2>3. PICK s : s = NarrowTo(dict, cursor, found)
    OBVIOUS
  <2>4. s = Stepped(Within(first, len, Len(q)), Len(dict.arena[first]) = Len(q))
    BY <1>2, <1>4, <2>1, <2>3, Zenon DEF NarrowTo
  <2>5. s # Stuck /\ s.cursor = Within(first, len, Len(q))
    BY <2>4, SteppedIs
  <2>6. s.isWord <=> q \in words
    <3>1. s.isWord = (Len(dict.arena[first]) = Len(q))
      BY <2>4, SteppedIs, Zenon
    <3> QED
      BY <2>2, <3>1, Zenon
  <2>7. Holds(s.cursor, dict.arena, q)
    <3>1. PICK w : w = Within(first, len, Len(q))
      OBVIOUS
    <3>2. w.at = "range" /\ w.from = first /\ w.len = len /\ w.depth = Len(q)
      BY <3>1 DEF Within
    <3>3. Group(dict.arena, q) = first .. first + len - 1
      BY <1>1, <2>1
    <3>4. Holds(w, dict.arena, q)
      BY <2>1, <3>2, <3>3 DEF Holds
    <3> QED
      BY <2>5, <3>1, <3>4
  <2> QED
    BY <1>1, <1>4, <2>3, <2>5, <2>6, <2>7, Zenon DEF InRange
<1> QED
  BY <1>3, <1>4

-----------------------------------------------------------------------------
(* The dictionary: the nodes of its index and their edges.                  *)

\* What goes on from a prefix.
OnwardFrom(onward, arena, p) ==
    /\ onward \in Seq(Chars) /\ Len(onward) <= Len(Alphabet) /\ Distinct(onward, Len(onward))
    /\ \A c : (\E k \in 1 .. Len(onward) : onward[k] = c)
                <=> c \in Chars /\ Group(arena, Append(p, c)) # {}

\* The characters that go on are those with a word behind them.
LEMMA OnwardIs ==
    ASSUME NEW arena, NEW p
    PROVE  OnwardFrom(Onward(arena, p), arena, p)
<1>1. PICK n \in Nat, e \in Seq(Chars) : e = Characters /\ n = Len(e)
  BY CharactersAre
<1>2. /\ \A i \in 1 .. n : e[i] \in Chars
      /\ DOMAIN e = 1 .. n
  BY <1>1
<1>3. Distinct(e, n) /\ n <= Len(Alphabet)
  BY <1>1, CharactersAre
<1>4. \A c : c \in Chars <=> \E i \in 1 .. n : e[i] = c
  BY <1>1, CharactersAre
<1>5. PICK K : K = {i \in 1 .. n : Group(arena, Append(p, e[i])) # {}}
  OBVIOUS
<1>6. PICK f : f = [i \in 1 .. n |-> IF i \in K THEN <<e[i]>> ELSE << >>]
  OBVIOUS
<1>7. Onward(arena, p) = FlattenSeq(f)
  <2>1. Onward(arena, p) = FlattenSeq([i \in DOMAIN e |->
           IF Group(arena, Append(p, e[i])) = {} THEN << >> ELSE <<e[i]>>])
    BY <1>1, Zenon DEF Onward
  <2>2. [i \in DOMAIN e |-> IF Group(arena, Append(p, e[i])) = {} THEN << >> ELSE <<e[i]>>] = f
    BY <1>2, <1>5, <1>6
  <2> QED
    BY <2>1, <2>2, Zenon
<1>8. PICK s : s = Onward(arena, p)
  OBVIOUS
<1>9. Filtered(s, Chars, n, e, K)
  BY <1>2, <1>3, <1>6, <1>7, <1>8, FilterIs
<1>10. /\ s \in Seq(Chars) /\ Len(s) <= n /\ Distinct(s, Len(s))
       /\ \A c : (\E k \in 1 .. Len(s) : s[k] = c) <=> \E i \in 1 .. n : i \in K /\ e[i] = c
  BY <1>9 DEF Filtered
<1>11. Len(s) <= Len(Alphabet)
  <2>1. Len(s) \in Nat /\ Len(Alphabet) \in Nat
    BY <1>10, LexiconAssumption
  <2> QED
    BY <1>3, <1>10, <2>1
<1>12. \A c : (\E i \in 1 .. n : i \in K /\ e[i] = c)
                <=> c \in Chars /\ Group(arena, Append(p, c)) # {}
  BY <1>4, <1>5
<1>13. \A c : (\E k \in 1 .. Len(s) : s[k] = c)
                <=> c \in Chars /\ Group(arena, Append(p, c)) # {}
  BY <1>10, <1>12
<1> QED
  BY <1>8, <1>10, <1>11, <1>13 DEF OnwardFrom

\* Of two words with a prefix, one at least goes on from it.
LEMMA SomeGoOn ==
    ASSUME NEW arena, NEW words, Sorted(arena, words), NEW p \in Seq(Chars),
           NEW i \in Group(arena, p), NEW j \in Group(arena, p), i < j
    PROVE  \E c \in Chars : Group(arena, Append(p, c)) # {}
<1>1. PICK d \in Nat : d = Len(p)
  OBVIOUS
<1>2. \A k \in Group(arena, p) :
         k \in DOMAIN arena /\ \A m \in 1 .. d : Key(p, m) = Key(arena[k], m)
  BY <1>1, GroupIs
<1>3. PICK v \in Seq(Chars), w \in Seq(Chars) : v = arena[i] /\ w = arena[j] /\ Precedes(v, w)
  BY <1>2 DEF Sorted
<1>4. PICK n \in Nat \ {0} : PutsFirst(v, w, n)
  BY <1>3, PrecedesIs
<1>5. Key(v, n) < Key(w, n) /\ Key(v, n) \in Nat /\ Key(w, n) \in Nat /\ Key(w, n) > 0
  BY <1>4, KeyIs DEF PutsFirst
<1>6. ~(n <= d)
  <2>1. \A m \in 1 .. d : Key(v, m) = Key(w, m)
    BY <1>2, <1>3
  <2> QED
    BY <1>5, <2>1
<1>7. n <= Len(w)
  BY <1>5, KeyIs
<1>8. d + 1 \in Nat \ {0} /\ d + 1 <= Len(w)
  BY <1>6, <1>7
<1>9. w[d + 1] \in Chars /\ Key(w, d + 1) = Place(w[d + 1])
  BY <1>8, KeyIs
<1>10. j \in Group(arena, Append(p, w[d + 1]))
  BY <1>1, <1>3, <1>9, LongerGroup
<1> QED
  BY <1>9, <1>10

\* The prefixes of words, and breadth first.
PrefixesOf(arena) == UNION {{SubSeq(w, 1, n) : n \in 2 .. Len(w)} : w \in Range(arena)}
Earlier(p, q) == Len(p) < Len(q) \/ (Len(p) = Len(q) /\ Precedes(p, q))

LEMMA PrefixesAre ==
    ASSUME NEW arena, NEW words, Sorted(arena, words)
    PROVE  /\ IsFiniteSet(PrefixesOf(arena))
           /\ \A p : p \in PrefixesOf(arena) <=>
                 p \in Seq(Chars) /\ Len(p) >= 2 /\ Group(arena, p) # {}
<1>1. PICK m \in Nat : DOMAIN arena = 1 .. m /\ Len(arena) = m
  BY DEF Sorted
<1>2. \A i \in 1 .. m : arena[i] \in Seq(Chars)
  BY <1>1 DEF Sorted
<1> DEFINE of(w) == {SubSeq(w, 1, n) : n \in 2 .. Len(w)}
<1>3. \A w \in Seq(Chars) : IsFiniteSet(of(w))
  <2>1. SUFFICES ASSUME NEW w \in Seq(Chars) PROVE IsFiniteSet(of(w))
    OBVIOUS
  <2>2. PICK f : f = [n \in 2 .. Len(w) |-> SubSeq(w, 1, n)]
    OBVIOUS
  <2>3. of(w) = {f[n] : n \in 2 .. Len(w)}
    BY <2>2
  <2>4. PICK a \in Int, b \in Int : a = 2 /\ b = Len(w)
    OBVIOUS
  <2>5. IsFiniteSet(a .. b)
    BY FS_Interval
  <2>6. IsFiniteSet({f[n] : n \in a .. b})
    BY <2>5, ImageIsFinite
  <2> QED
    BY <2>3, <2>4, <2>6
<1>4. PICK g : g = [i \in 1 .. m |-> of(arena[i])]
  OBVIOUS
<1>5. PICK S : S = {g[i] : i \in 1 .. m}
  OBVIOUS
<1>6. PrefixesOf(arena) = UNION S
  <2>1. Range(arena) = {arena[i] : i \in 1 .. m}
    BY <1>1 DEF Range
  <2>2. {of(w) : w \in Range(arena)} = S
    <3> HIDE DEF of
    <3> QED
      BY <1>4, <1>5, <2>1
  <2> QED
    BY <2>2, Zenon DEF PrefixesOf
<1>7. IsFiniteSet(PrefixesOf(arena))
  <2>1. IsFiniteSet(1 .. m)
    BY FS_Interval
  <2>2. IsFiniteSet(S)
    BY <1>5, <2>1, ImageIsFinite
  <2>3. \A T \in S : IsFiniteSet(T)
    BY <1>2, <1>3, <1>4, <1>5
  <2>4. IsFiniteSet(UNION S)
    BY <2>2, <2>3, FS_UNION
  <2> QED
    BY <1>6, <2>4
<1>8. \A p : p \in PrefixesOf(arena) <=>
         \E i \in 1 .. m : \E n \in 2 .. Len(arena[i]) : p = SubSeq(arena[i], 1, n)
  BY <1>4, <1>5, <1>6
<1>9. ASSUME NEW w \in Seq(Chars), NEW n \in 2 .. Len(w), NEW p, p = SubSeq(w, 1, n)
      PROVE  p \in Seq(Chars) /\ Len(p) >= 2 /\ IsPrefix(p, w)
  <2>1. p \in Seq(Chars) /\ Len(p) = n /\ \A k \in 1 .. n : p[k] = w[k]
    <3>1. \A k \in 1 .. n : w[k] \in Chars
      OBVIOUS
    <3> QED
      BY <1>9, <3>1
  <2> QED
    BY <2>1, PrefixIs
<1>10. ASSUME NEW w \in Seq(Chars), NEW p \in Seq(Chars), Len(p) >= 2, IsPrefix(p, w)
       PROVE  \E n \in 2 .. Len(w) : p = SubSeq(w, 1, n)
  <2>1. Len(p) <= Len(w) /\ \A k \in 1 .. Len(p) : p[k] = w[k]
    BY <1>10, PrefixIs
  <2>2. Len(p) \in 2 .. Len(w)
    BY <1>10, <2>1
  <2>3. \A k \in 1 .. Len(p) : w[k] \in Chars
    BY <2>1
  <2>4. PICK q : q = SubSeq(w, 1, Len(p))
    OBVIOUS
  <2>5. q \in Seq(Chars) /\ Len(q) = Len(p) /\ \A k \in 1 .. Len(p) : q[k] = w[k]
    BY <2>2, <2>3, <2>4
  <2>6. p = q
    BY <2>1, <2>5
  <2> QED
    BY <2>2, <2>4, <2>6
<1>11. ASSUME NEW p, p \in PrefixesOf(arena)
       PROVE  p \in Seq(Chars) /\ Len(p) >= 2 /\ Group(arena, p) # {}
  <2>1. PICK i \in 1 .. m : \E n \in 2 .. Len(arena[i]) : p = SubSeq(arena[i], 1, n)
    BY <1>8, <1>11
  <2>2. p \in Seq(Chars) /\ Len(p) >= 2 /\ IsPrefix(p, arena[i])
    BY <1>2, <1>9, <2>1
  <2>3. i \in Group(arena, p)
    BY <1>1, <2>2 DEF Group
  <2> QED
    BY <2>2, <2>3
<1>12. ASSUME NEW p \in Seq(Chars), Len(p) >= 2, Group(arena, p) # {}
       PROVE  p \in PrefixesOf(arena)
  <2>1. PICK i \in 1 .. m : IsPrefix(p, arena[i])
    BY <1>1, <1>12 DEF Group
  <2>2. \E n \in 2 .. Len(arena[i]) : p = SubSeq(arena[i], 1, n)
    BY <1>2, <1>10, <1>12, <2>1
  <2> QED
    BY <1>8, <2>2
<1> QED
  BY <1>7, <1>11, <1>12

LEMMA EarlierIs ==
    /\ \A p \in Seq(Chars) : ~Earlier(p, p)
    /\ \A p, q, r \in Seq(Chars) : Earlier(p, q) /\ Earlier(q, r) => Earlier(p, r)
    /\ \A p, q \in Seq(Chars) : p # q => Earlier(p, q) \/ Earlier(q, p)
<1>1. \A p \in Seq(Chars) : ~Earlier(p, p)
  BY OrderIs DEF Earlier
<1>2. ASSUME NEW p \in Seq(Chars), NEW q \in Seq(Chars), NEW r \in Seq(Chars),
             Earlier(p, q), Earlier(q, r)
      PROVE  Earlier(p, r)
  <2>1. Len(p) \in Nat /\ Len(q) \in Nat /\ Len(r) \in Nat
    OBVIOUS
  <2>2. Precedes(p, q) /\ Precedes(q, r) => Precedes(p, r)
    BY OrderIs
  <2> QED
    BY <1>2, <2>1, <2>2 DEF Earlier
<1>3. ASSUME NEW p \in Seq(Chars), NEW q \in Seq(Chars), p # q
      PROVE  Earlier(p, q) \/ Earlier(q, p)
  <2>1. Len(p) \in Nat /\ Len(q) \in Nat
    OBVIOUS
  <2>2. Precedes(p, q) \/ Precedes(q, p)
    BY <1>3, OrderIs
  <2> QED
    BY <2>1, <2>2 DEF Earlier
<1> QED
  BY <1>1, <1>2, <1>3

\* The nodes are the prefixes that too many words have for a leaf.
NodesOf(nodes, arena, maxLeaf) ==
    /\ nodes \in Seq(Seq(Chars)) /\ Distinct(nodes, Len(nodes))
    /\ \A p : (\E n \in 1 .. Len(nodes) : nodes[n] = p) <=>
          /\ p \in Seq(Chars) /\ Len(p) >= 2 /\ Group(arena, p) # {}
          /\ Cardinality(Group(arena, p)) > maxLeaf

\* The nodes are the prefixes with more words than a leaf may have, each once.
LEMMA NodesAre ==
    ASSUME NEW arena, NEW words, Sorted(arena, words), NEW maxLeaf
    PROVE  NodesOf(Nodes(arena, maxLeaf), arena, maxLeaf)
<1> DEFINE large == {p \in PrefixesOf(arena) : Cardinality(Group(arena, p)) > maxLeaf}
           R == {p \in large \X large : Earlier(p[1], p[2])}
<1>1. IsFiniteSet(large) /\ large \subseteq Seq(Chars)
  <2>1. PICK S : S = PrefixesOf(arena)
    OBVIOUS
  <2>2. IsFiniteSet(S) /\ S \subseteq Seq(Chars)
    BY <2>1, PrefixesAre
  <2>3. large \in SUBSET S
    BY <2>1
  <2> HIDE DEF large
  <2> QED
    BY <2>2, <2>3, FS_Subset
<1>2. \A p : p \in large <=> /\ p \in Seq(Chars) /\ Len(p) >= 2 /\ Group(arena, p) # {}
                             /\ Cardinality(Group(arena, p)) > maxLeaf
  BY PrefixesAre
<1>3. Nodes(arena, maxLeaf) = [n \in 1 .. Cardinality(large) |->
            CHOOSE p \in large : Cardinality({q \in large : Earlier(q, p)}) = n - 1]
  BY Zenon DEF Nodes, Earlier, PrefixesOf
<1>4. \A p, q \in large : <<p, q>> \in R <=> Earlier(p, q)
  <2> HIDE DEF large
  <2> QED
    OBVIOUS
<1>5. \A p \in large : Rank(large, R, p) = Cardinality({q \in large : Earlier(q, p)})
  <2>1. SUFFICES ASSUME NEW p \in large
                 PROVE  Rank(large, R, p) = Cardinality({q \in large : Earlier(q, p)})
    OBVIOUS
  <2> HIDE DEF large, R
  <2>2. {y \in large : <<y, p>> \in R} = {q \in large : Earlier(q, p)}
    BY <1>4
  <2> QED
    BY <2>2 DEF Rank
<1> HIDE DEF large, R
<1>6. Strict(large, R)
  BY <1>1, <1>4, EarlierIs DEF Strict
<1>7. PICK n \in Nat : n = Cardinality(large)
  BY <1>1, FS_CardinalityType
<1>8. PICK f : f = Nodes(arena, maxLeaf)
  OBVIOUS
<1>9. f = [i \in 1 .. n |->
            CHOOSE p \in large : Cardinality({q \in large : Earlier(q, p)}) = i - 1]
  BY <1>3, <1>7, <1>8
<1>10. \A i \in 1 .. n : f[i] \in large /\ Rank(large, R, f[i]) = i - 1
  <2>1. SUFFICES ASSUME NEW i \in 1 .. n
                 PROVE  f[i] \in large /\ Rank(large, R, f[i]) = i - 1
    OBVIOUS
  <2>2. \E p \in large : Rank(large, R, p) = i - 1
    BY <1>1, <1>6, <1>7, RanksAre
  <2>3. \E p \in large : Cardinality({q \in large : Earlier(q, p)}) = i - 1
    BY <1>5, <2>2
  <2>4. f[i] = CHOOSE p \in large : Cardinality({q \in large : Earlier(q, p)}) = i - 1
    BY <1>9
  <2>5. f[i] \in large /\ Cardinality({q \in large : Earlier(q, f[i])}) = i - 1
    BY <2>3, <2>4, Zenon
  <2> QED
    BY <1>5, <2>5
<1>11. InOrder(f, large, R, n) /\ Distinct(f, n)
  BY <1>1, <1>6, <1>7, <1>10, RankedIs
<1>12. f \in [1 .. n -> Seq(Chars)]
  BY <1>1, <1>9, <1>10
<1>13. f \in Seq(Seq(Chars)) /\ Len(f) = n
  BY <1>12
<1>14. \A p : (\E i \in 1 .. n : f[i] = p) <=> p \in large
  BY <1>11 DEF InOrder
<1> QED
  BY <1>2, <1>8, <1>11, <1>13, <1>14 DEF NodesOf

\* A run of edges, one for each character that goes on from a prefix.
RunOf(edges, onward, p, start) ==
    /\ start \in 1 .. Len(edges) /\ Len(onward) \in Nat \ {0}
    /\ \A k \in 1 .. Len(onward) :
          start + (k - 1) \in 1 .. Len(edges) /\ edges[start + (k - 1)] = Append(p, onward[k])
StartOf(arena, edges, p) ==
    CHOOSE e \in DOMAIN edges : edges[e] = Append(p, Onward(arena, p)[1])

EdgesOf(edges, arena, nodes) ==
    /\ edges \in Seq(Seq(Chars))
    /\ \A e \in 1 .. Len(edges) : Len(edges[e]) >= 2 /\ Group(arena, edges[e]) # {}
    /\ \A p \in Range(nodes) : RunOf(edges, Onward(arena, p), p, StartOf(arena, edges, p))

LEMMA AppendSame ==
    ASSUME NEW p \in Seq(Chars), NEW q \in Seq(Chars), NEW b \in Chars, NEW c \in Chars,
           Append(p, b) = Append(q, c)
    PROVE  p = q /\ b = c
<1>1. PICK d \in Nat, e \in Nat : d = Len(p) /\ e = Len(q)
  OBVIOUS
<1>2. PICK v, w : v = Append(p, b) /\ w = Append(q, c)
  OBVIOUS
<1>3. Len(v) = d + 1 /\ v[d + 1] = b /\ \A k \in 1 .. d : v[k] = p[k]
  BY <1>1, <1>2
<1>4. Len(w) = e + 1 /\ w[e + 1] = c /\ \A k \in 1 .. e : w[k] = q[k]
  BY <1>1, <1>2
<1>5. d = e /\ b = c
  BY <1>2, <1>3, <1>4
<1>6. p = q
  BY <1>1, <1>2, <1>3, <1>4, <1>5
<1> QED
  BY <1>5, <1>6

\* The edges of a node stand together, one for each character that goes on.
LEMMA EdgesAre ==
    ASSUME NEW arena, NEW words, Sorted(arena, words), NEW maxLeaf \in Nat \ {0},
           NEW nodes, NodesOf(nodes, arena, maxLeaf)
    PROVE  EdgesOf(Edges(arena, nodes), arena, nodes)
<1>1. PICK n \in Nat : n = Len(nodes) /\ DOMAIN nodes = 1 .. n
  BY DEF NodesOf
<1>2. \A i \in 1 .. n : nodes[i] \in Seq(Chars) /\ Len(nodes[i]) >= 2
  BY <1>1 DEF NodesOf
<1>3. PICK on : on = [i \in 1 .. n |-> Onward(arena, nodes[i])]
  OBVIOUS
<1>4. \A i \in 1 .. n : OnwardFrom(on[i], arena, nodes[i])
  BY <1>3, OnwardIs
<1>5. \A i \in 1 .. n : on[i] \in Seq(Chars) /\ Distinct(on[i], Len(on[i]))
  BY <1>4 DEF OnwardFrom
<1>6. \A i \in 1 .. n : Len(on[i]) \in Nat \ {0}
  <2>1. SUFFICES ASSUME NEW i \in 1 .. n PROVE Len(on[i]) \in Nat \ {0}
    OBVIOUS
  <2>2. PICK p \in Seq(Chars) : p = nodes[i]
    BY <1>2
  <2>3. PICK g : g = Group(arena, p)
    OBVIOUS
  <2>4. g # {} /\ Cardinality(g) > maxLeaf
    BY <1>1, <2>2, <2>3 DEF NodesOf
  <2>5. g \subseteq 1 .. Len(arena) /\ Len(arena) \in Nat
    <3>1. Group(arena, p) \subseteq 1 .. Len(arena)
      BY <2>2, GroupIs
    <3> QED
      BY <2>3, <3>1 DEF Sorted
  <2>6. IsFiniteSet(g)
    BY <2>3, <2>4, GroupSpan
  <2>7. PICK a \in g : TRUE
    BY <2>4
  <2>8. PICK b \in g : a # b
    <3>1. SUFFICES ASSUME \A b \in g : a = b PROVE FALSE
      OBVIOUS
    <3>2. g = {a}
      BY <2>7, <3>1
    <3>3. Cardinality(g) = 1
      BY <3>2, FS_Singleton
    <3> QED
      BY <2>4, <3>3
  <2>9. \E c \in Chars : Group(arena, Append(p, c)) # {}
    <3>1. a \in Int /\ b \in Int
      BY <2>5, <2>7, <2>8
    <3>2. CASE a < b
      BY <2>2, <2>3, <2>7, <2>8, <3>2, SomeGoOn
    <3>3. CASE b < a
      BY <2>2, <2>3, <2>7, <2>8, <3>3, SomeGoOn
    <3> QED
      BY <2>8, <3>1, <3>2, <3>3
  <2>10. \E k \in 1 .. Len(on[i]) : on[i][k] \in Chars
    BY <1>4, <2>2, <2>9 DEF OnwardFrom
  <2>11. Len(on[i]) \in Nat
    BY <1>5
  <2> QED
    BY <2>10, <2>11
<1>7. PICK f : f = [i \in 1 .. n |-> [k \in 1 .. Len(on[i]) |-> Append(nodes[i], on[i][k])]]
  OBVIOUS
<1>8. PICK edges : edges = Edges(arena, nodes)
  OBVIOUS
<1>9. edges = FlattenSeq(f)
  <2>1. edges = FlattenSeq([i \in DOMAIN nodes |->
            [k \in DOMAIN Onward(arena, nodes[i]) |->
               Append(nodes[i], Onward(arena, nodes[i])[k])]])
    BY <1>8, Zenon DEF Edges
  <2>2. \A i \in 1 .. n : DOMAIN on[i] = 1 .. Len(on[i])
    BY <1>5
  <2>3. [i \in DOMAIN nodes |->
            [k \in DOMAIN Onward(arena, nodes[i]) |->
               Append(nodes[i], Onward(arena, nodes[i])[k])]] = f
    BY <1>1, <1>3, <1>7, <2>2
  <2> QED
    BY <2>1, <2>3, Zenon
<1>10. \A i \in 1 .. n : /\ f[i] \in Seq(Seq(Chars)) /\ Len(f[i]) = Len(on[i])
                         /\ \A k \in 1 .. Len(on[i]) : f[i][k] = Append(nodes[i], on[i][k])
  <2>1. SUFFICES ASSUME NEW i \in 1 .. n
                 PROVE  /\ f[i] \in Seq(Seq(Chars)) /\ Len(f[i]) = Len(on[i])
                        /\ \A k \in 1 .. Len(on[i]) : f[i][k] = Append(nodes[i], on[i][k])
    OBVIOUS
  <2>2. PICK p \in Seq(Chars), o \in Seq(Chars), m \in Nat : p = nodes[i] /\ o = on[i] /\ m = Len(o)
    BY <1>2, <1>5
  <2>3. f[i] = [k \in 1 .. m |-> Append(p, o[k])]
    BY <1>7, <2>2
  <2>4. \A k \in 1 .. m : Append(p, o[k]) \in Seq(Chars)
    BY <2>2
  <2>5. f[i] \in [1 .. m -> Seq(Chars)]
    BY <2>3, <2>4
  <2> QED
    BY <2>2, <2>3, <2>5
<1>11. f \in [1 .. n -> Seq(Seq(Chars))]
  BY <1>7, <1>10
<1>12. edges \in Seq(Seq(Chars)) /\ \E o \in [1 .. n -> Nat] : Follow(edges, f, n, o)
  BY <1>9, <1>11, FlattenHas
<1>13. PICK o \in [1 .. n -> Nat] : Follow(edges, f, n, o)
  BY <1>12
<1>14. \A i \in 1 .. n : \A k \in 1 .. Len(on[i]) :
          o[i] + k \in 1 .. Len(edges) /\ edges[o[i] + k] = Append(nodes[i], on[i][k])
  BY <1>10, <1>13 DEF Follow
<1>15. \A e \in 1 .. Len(edges) : \E i \in 1 .. n : \E k \in 1 .. Len(on[i]) :
          e = o[i] + k /\ edges[e] = Append(nodes[i], on[i][k])
  <2>1. \A e \in 1 .. Len(edges) : \E i \in 1 .. n : \E k \in 1 .. Len(f[i]) : e = o[i] + k
    BY <1>13 DEF Follow
  <2>2. \A e \in 1 .. Len(edges) : \E i \in 1 .. n : \E k \in 1 .. Len(on[i]) : e = o[i] + k
    BY <1>10, <2>1
  <2>3. ASSUME NEW e \in 1 .. Len(edges), NEW i \in 1 .. n, NEW k \in 1 .. Len(on[i]),
               e = o[i] + k
        PROVE  edges[e] = Append(nodes[i], on[i][k])
    BY <1>14, <2>3
  <2> QED
    BY <2>2, <2>3
<1>16. \A i \in 1 .. n : \A k \in 1 .. Len(on[i]) : on[i][k] \in Chars
  BY <1>5
<1>17. ASSUME NEW e \in 1 .. Len(edges)
       PROVE  Len(edges[e]) >= 2 /\ Group(arena, edges[e]) # {}
  <2>a. PICK i \in 1 .. n : \E k \in 1 .. Len(on[i]) : edges[e] = Append(nodes[i], on[i][k])
    BY <1>15
  <2>1. PICK k \in 1 .. Len(on[i]) : edges[e] = Append(nodes[i], on[i][k])
    BY <2>a
  <2>2. PICK p \in Seq(Chars), c \in Chars : p = nodes[i] /\ c = on[i][k] /\ Len(p) >= 2
    BY <1>2, <1>16, <2>1
  <2>3. Group(arena, Append(p, c)) # {}
    BY <1>4, <2>1, <2>2 DEF OnwardFrom
  <2>4. Len(Append(p, c)) = Len(p) + 1
    BY AppendAt
  <2> QED
    BY <2>1, <2>2, <2>3, <2>4
<1>18. ASSUME NEW p \in Range(nodes)
       PROVE  RunOf(edges, Onward(arena, p), p, StartOf(arena, edges, p))
  <2>1. PICK i \in 1 .. n : p = nodes[i] /\ p \in Seq(Chars)
    BY <1>1, <1>2, <1>18 DEF Range
  <2>2. PICK on1 \in Seq(Chars), m \in Nat \ {0}, s \in Nat :
           on1 = Onward(arena, p) /\ on1 = on[i] /\ m = Len(on1) /\ s = o[i]
    BY <1>3, <1>5, <1>6, <2>1
  <2>3. \A k \in 1 .. m : s + k \in 1 .. Len(edges) /\ edges[s + k] = Append(p, on1[k])
    BY <1>14, <2>1, <2>2
  <2>4. s + 1 \in 1 .. Len(edges) /\ edges[s + 1] = Append(p, on1[1])
    BY <2>3
  <2>5. ASSUME NEW e \in 1 .. Len(edges), edges[e] = Append(p, on1[1])
        PROVE  e = s + 1
    <3>a. PICK j \in 1 .. n : \E k \in 1 .. Len(on[j]) :
             e = o[j] + k /\ edges[e] = Append(nodes[j], on[j][k])
      BY <1>15
    <3>1. PICK k \in 1 .. Len(on[j]) : e = o[j] + k /\ edges[e] = Append(nodes[j], on[j][k])
      BY <3>a
    <3>2. nodes[j] \in Seq(Chars) /\ on[j][k] \in Chars
      BY <1>2, <1>16, <3>1
    <3>3. on1[1] \in Chars
      BY <2>2
    <3>4. nodes[j] = p /\ on[j][k] = on1[1]
      <4>1. p \in Seq(Chars) /\ Append(nodes[j], on[j][k]) = Append(p, on1[1])
        <5>1. p \in Seq(Chars)
          BY <2>1
        <5> QED
          BY <2>5, <3>1, <5>1, Zenon
      <4>2. PICK q \in Seq(Chars), b \in Chars, c \in Chars :
               q = nodes[j] /\ b = on[j][k] /\ c = on1[1]
        BY <3>2, <3>3
      <4>3. Append(q, b) = Append(p, c)
        BY <4>1, <4>2, Zenon
      <4>4. q = p /\ b = c
        <5>1. \A v \in Seq(Chars) : \A x, y \in Chars :
                 Append(q, x) = Append(v, y) => q = v /\ x = y
          BY AppendSame
        <5>2. p \in Seq(Chars) /\ b \in Chars /\ c \in Chars
          BY <4>1
        <5>3. Append(q, b) = Append(p, c) => q = p /\ b = c
          BY <5>1, <5>2
        <5> QED
          BY <4>3, <5>3
      <4> QED
        BY <4>2, <4>4
    <3>5. j = i
      BY <1>1, <2>1, <3>1, <3>4 DEF NodesOf, Distinct
    <3>6. k = 1
      <4>1. 1 \in 1 .. Len(on[i]) /\ k \in 1 .. Len(on[i])
        BY <2>2, <3>1, <3>5
      <4> QED
        BY <1>5, <2>2, <3>4, <3>5, <4>1 DEF Distinct
    <3> QED
      BY <2>2, <3>1, <3>5, <3>6
  <2>6. StartOf(arena, edges, p) = s + 1
    <3>1. DOMAIN edges = 1 .. Len(edges)
      BY <1>12
    <3>2. PICK t : t = StartOf(arena, edges, p)
      OBVIOUS
    <3>3. t = CHOOSE e \in 1 .. Len(edges) : edges[e] = Append(p, on1[1])
      BY <2>2, <3>1, <3>2, Zenon DEF StartOf
    <3>4. t \in 1 .. Len(edges) /\ edges[t] = Append(p, on1[1])
      BY <2>4, <3>3, Zenon
    <3> QED
      BY <2>5, <3>2, <3>4
  <2>7. \A k \in 1 .. m : k \in Int /\ (s + 1) + (k - 1) = s + k
    OBVIOUS
  <2>8. PICK t \in Nat : t = s + 1
    OBVIOUS
  <2>9. \A k \in 1 .. m : t + (k - 1) \in 1 .. Len(edges) /\ edges[t + (k - 1)] = Append(p, on1[k])
    BY <2>3, <2>7, <2>8
  <2>10. RunOf(edges, on1, p, t)
    BY <2>2, <2>4, <2>8, <2>9 DEF RunOf
  <2> QED
    BY <2>2, <2>6, <2>8, <2>10
<1> QED
  BY <1>8, <1>12, <1>17, <1>18 DEF EdgesOf

-----------------------------------------------------------------------------
(* The dictionary: its entries.                                             *)

\* A cursor at the node of a prefix, and what a step stands for.
AtNode(cursor, arena, edges, p) ==
    /\ cursor.at = "node" /\ cursor.depth = Len(p)
    /\ cursor.fanout = Len(Onward(arena, p))
    /\ RunOf(edges, Onward(arena, p), p, cursor.start)
Represents(s, arena, edges, words, p) ==
    IF Group(arena, p) = {} THEN s = Stuck
    ELSE /\ s # Stuck /\ (s.isWord <=> p \in words)
         /\ Holds(s.cursor, arena, p) \/ AtNode(s.cursor, arena, edges, p)

\* The entries fit their fields, as pack asserts.
EntriesFit(arena, edges, maxLeaf) ==
    /\ maxLeaf \in 1 .. 2 ^ LeafLenBits - 1
    /\ Len(arena) <= 2 ^ (SizeBits - LeafLenBits)
    /\ Len(edges) <= 2 ^ (SizeBits - IndexLenBits)

\* The widths are numbers, and so are the sizes they allow.
LEMMA WidthsAre ==
    /\ LeafLenBits \in Nat /\ IndexLenBits \in Nat
    /\ SizeBits - LeafLenBits \in Nat /\ SizeBits - IndexLenBits \in Nat
    /\ 2 ^ LeafLenBits \in Nat /\ 2 ^ IndexLenBits \in Nat
    /\ 2 ^ (SizeBits - LeafLenBits) \in Nat /\ 2 ^ (SizeBits - IndexLenBits) \in Nat
    /\ Len(Alphabet) \in Nat /\ Len(Alphabet) < 2 ^ IndexLenBits
<1>1. PICK s \in Nat : s = SizeBits
  BY LexiconAssumption
<1>2. PICK a \in 1 .. s - 1, b \in 1 .. s - 1 : a = LeafLenBits /\ b = IndexLenBits
  BY <1>1, LexiconAssumption
<1>3. a \in Nat /\ b \in Nat /\ s - a \in Nat /\ s - b \in Nat
  BY <1>2
<1>4. 2 ^ a \in Nat /\ 2 ^ b \in Nat /\ 2 ^ (s - a) \in Nat /\ 2 ^ (s - b) \in Nat
  BY <1>3, PowersOfTwo
<1>5. Len(Alphabet) \in Nat /\ Len(Alphabet) < 2 ^ IndexLenBits
  BY LexiconAssumption
<1> QED
  BY <1>1, <1>2, <1>3, <1>4, <1>5

\* What points at the words with a prefix leads to them.
LEMMA EntryLeads ==
    ASSUME NEW arena, NEW words, Sorted(arena, words), NEW maxLeaf, NEW nodes, NEW edges,
           NodesOf(nodes, arena, maxLeaf), EdgesOf(edges, arena, nodes),
           EntriesFit(arena, edges, maxLeaf), NEW p \in Seq(Chars), Len(p) >= 2
    PROVE  Represents(StepFrom(Pack(Entry(arena, nodes, edges, p)), Len(p)),
                      arena, edges, words, p)
<1>1. PICK d \in Nat : d = Len(p)
  OBVIOUS
<1>2. PICK g : g = Group(arena, p)
  OBVIOUS
<1>3. PICK child : child = Entry(arena, nodes, edges, p)
  OBVIOUS
<1>4. PICK s : s = StepFrom(Pack(child), d)
  OBVIOUS
<1>5. CASE g = {}
  <2>1. child = Empty
    <3>1. p \notin Range(nodes)
      <4>1. ~ \E i \in 1 .. Len(nodes) : nodes[i] = p
        BY <1>2, <1>5 DEF NodesOf
      <4>2. DOMAIN nodes = 1 .. Len(nodes)
        BY DEF NodesOf
      <4> QED
        BY <4>1, <4>2 DEF Range
    <3> QED
      BY <1>2, <1>3, <1>5, <3>1, Zenon DEF Entry
  <2>2. Unpack(Pack(child)) = Empty /\ Empty.kind = "empty"
    BY <2>1 DEF Pack, Unpack, Empty
  <2>3. s = Stuck
    BY <1>4, <2>2 DEF StepFrom
  <2> QED
    BY <1>1, <1>2, <1>3, <1>4, <1>5, <2>3 DEF Represents
<1>6. CASE g # {}
  <2>1. PICK isWord \in BOOLEAN : isWord = (Len(arena[Min(g)]) = d) /\ (isWord <=> p \in words)
    BY <1>1, <1>2, <1>6, FirstIsWord
  <2>2. CASE p \in Range(nodes)
    <3>1. PICK onward, start : onward = Onward(arena, p) /\ start = StartOf(arena, edges, p)
      OBVIOUS
    <3>2. RunOf(edges, onward, p, start)
      BY <2>2, <3>1 DEF EdgesOf
    <3>3. PICK k : k = Len(onward)
      OBVIOUS
    <3>4. child = Child("index", start, k, isWord)
      <4>1. child = Child("index", CHOOSE e \in DOMAIN edges : edges[e] = Append(p, onward[1]),
                          Len(onward), Len(arena[Min(g)]) = Len(p))
        BY <1>2, <1>3, <1>6, <2>2, <3>1, Zenon DEF Entry
      <4>2. start = CHOOSE e \in DOMAIN edges : edges[e] = Append(p, onward[1])
        BY <3>1, Zenon DEF StartOf
      <4> QED
        BY <1>1, <2>1, <3>3, <4>1, <4>2, Zenon
    <3>5. k \in 1 .. 2 ^ LenBits("index") - 1
      <4>1. k \in Nat \ {0}
        BY <3>2, <3>3 DEF RunOf
      <4>2. k <= Len(Alphabet)
        BY <3>1, <3>3, OnwardIs DEF OnwardFrom
      <4>3. LenBits("index") = IndexLenBits
        BY DEF LenBits
      <4>4. PICK x \in Nat, y \in Nat : x = 2 ^ IndexLenBits /\ y = Len(Alphabet) /\ y < x
        BY WidthsAre
      <4>5. k \in 1 .. x - 1
        BY <4>1, <4>2, <4>4
      <4> QED
        BY <4>3, <4>4, <4>5
    <3>6. start \in 1 .. 2 ^ (SizeBits - LenBits("index"))
      <4>1. start \in 1 .. Len(edges) /\ Len(edges) <= 2 ^ (SizeBits - IndexLenBits)
        BY <3>2 DEF RunOf, EntriesFit
      <4>2. PICK x \in Nat, y \in Nat : x = 2 ^ (SizeBits - IndexLenBits) /\ y = Len(edges)
        BY WidthsAre DEF EdgesOf
      <4>3. start \in 1 .. x
        BY <4>1, <4>2
      <4>4. LenBits("index") = IndexLenBits
        BY DEF LenBits
      <4> QED
        BY <4>2, <4>3, <4>4
    <3>7. Unpack(Pack(child)) = child
      BY <3>4, <3>5, <3>6, PackedIsKept
    <3>8. child.kind = "index" /\ child.start = start /\ child.len = k /\ child.isWord = isWord
      BY <3>4 DEF Child
    <3>9. s = Stepped(Node(start, k, d), isWord)
      BY <1>4, <3>7, <3>8, Zenon DEF StepFrom
    <3>10. PICK cursor : cursor = Node(start, k, d)
      OBVIOUS
    <3>11. s # Stuck /\ s.cursor = cursor /\ s.isWord = isWord
      BY <3>9, <3>10, SteppedIs, Zenon
    <3>12. AtNode(cursor, arena, edges, p)
      <4>1. /\ cursor.at = "node" /\ cursor.start = start /\ cursor.fanout = k
            /\ cursor.depth = d
        BY <3>10 DEF Node
      <4> QED
        BY <1>1, <3>1, <3>2, <3>3, <4>1 DEF AtNode
    <3>13. Represents(s, arena, edges, words, p)
      BY <1>2, <1>6, <2>1, <3>11, <3>12, Zenon DEF Represents
    <3> QED
      BY <1>1, <1>3, <1>4, <3>13
  <2>3. CASE p \notin Range(nodes)
    <3>1. PICK start \in Nat \ {0}, k \in Nat, m \in Nat :
             /\ start = Min(g) /\ k = Cardinality(g) /\ m = Len(arena)
             /\ start \in 1 .. m /\ k \in 1 .. m /\ g = start .. start + k - 1
      <4>1. /\ Cardinality(g) \in 1 .. Len(arena) /\ Min(g) \in 1 .. Len(arena)
            /\ g = Min(g) .. Min(g) + Cardinality(g) - 1
        BY <1>2, <1>6, GroupSpan
      <4>2. Len(arena) \in Nat
        BY DEF Sorted
      <4> QED
        BY <4>1, <4>2
    <3>2. child = Child("leaf", start, k, isWord)
      <4>1. child = Child("leaf", Min(g), Cardinality(g), Len(arena[Min(g)]) = Len(p))
        BY <1>2, <1>3, <1>6, <2>3, Zenon DEF Entry
      <4> QED
        BY <1>1, <2>1, <3>1, <4>1, Zenon
    <3>3. k <= maxLeaf
      <4>1. ~ \E i \in 1 .. Len(nodes) : nodes[i] = p
        BY <2>3 DEF NodesOf, Range
      <4>2. ~(k > maxLeaf)
        BY <1>2, <1>6, <3>1, <4>1 DEF NodesOf
      <4>3. maxLeaf \in Int
        BY DEF EntriesFit
      <4> QED
        BY <3>1, <4>2, <4>3
    <3>4. LenBits("leaf") = LeafLenBits
      BY DEF LenBits
    <3>5. k \in 1 .. 2 ^ LenBits("leaf") - 1
      <4>1. PICK x \in Nat : x = 2 ^ LeafLenBits
        BY WidthsAre
      <4>2. maxLeaf \in 1 .. x - 1
        BY <4>1 DEF EntriesFit
      <4>3. k \in 1 .. x - 1
        BY <3>1, <3>3, <4>2
      <4> QED
        BY <3>4, <4>1, <4>3
    <3>6. start \in 1 .. 2 ^ (SizeBits - LenBits("leaf"))
      <4>1. PICK x \in Nat : x = 2 ^ (SizeBits - LeafLenBits)
        BY WidthsAre
      <4>2. m <= x
        BY <3>1, <4>1 DEF EntriesFit
      <4>3. start \in 1 .. x
        BY <3>1, <4>2
      <4> QED
        BY <3>4, <4>1, <4>3
    <3>7. Unpack(Pack(child)) = child
      BY <3>2, <3>5, <3>6, PackedIsKept
    <3>8. child.kind = "leaf" /\ child.start = start /\ child.len = k /\ child.isWord = isWord
      BY <3>2 DEF Child
    <3>9. s = Stepped(Within(start, k, d), isWord)
      BY <1>4, <3>7, <3>8, Zenon DEF StepFrom
    <3>10. PICK cursor : cursor = Within(start, k, d)
      OBVIOUS
    <3>11. s # Stuck /\ s.cursor = cursor /\ s.isWord = isWord
      BY <3>9, <3>10, SteppedIs, Zenon
    <3>12. Holds(cursor, arena, p)
      <4>1. /\ cursor.at = "range" /\ cursor.from = start /\ cursor.len = k
            /\ cursor.depth = d
        BY <3>10 DEF Within
      <4> QED
        BY <1>1, <1>2, <3>1, <4>1 DEF Holds
    <3>13. Represents(s, arena, edges, words, p)
      BY <1>2, <1>6, <2>1, <3>11, <3>12, Zenon DEF Represents
    <3> QED
      BY <1>1, <1>3, <1>4, <3>13
  <2> QED
    BY <2>2, <2>3
<1> QED
  BY <1>5, <1>6

-----------------------------------------------------------------------------
(* The dictionary: what its cursor knows.                                   *)

\* A dictionary that knows the words, with the prefixes at its edges.
Built(dict, edges, words) ==
    /\ Sorted(dict.arena, words) /\ edges \in Seq(Seq(Chars))
    /\ \A e \in 1 .. Len(edges) :
          /\ Len(edges[e]) >= 2 /\ dict.edgeLetters[e] = edges[e][Len(edges[e])]
          /\ Represents(StepFrom(dict.edgeChildren[e], Len(edges[e])), dict.arena, edges, words,
                        edges[e])
    /\ \A a, b \in Chars :
          Represents(StepFrom(dict.dense[<<a, b>>], 2), dict.arena, edges, words, <<a, b>>)

\* What from_encoded builds leads from every two characters, and along every edge.
LEMMA BuiltIs ==
    ASSUME NEW words, NEW maxLeaf, NEW maxScan, Indexable(words, maxLeaf)
    PROVE  \E edges : Built(Dictionary(words, maxLeaf, maxScan), edges, words)
<1>1. PICK arena : arena = Arena(words)
  OBVIOUS
<1>2. PICK nodes : nodes = Nodes(arena, maxLeaf)
  OBVIOUS
<1>3. PICK edges : edges = Edges(arena, nodes)
  OBVIOUS
<1>4. PICK dict : dict = Dictionary(words, maxLeaf, maxScan)
  OBVIOUS
<1>5. Sorted(arena, words) /\ Len(arena) = Cardinality(words)
  BY <1>1, ArenaIs DEF Indexable
<1>6. NodesOf(nodes, arena, maxLeaf)
  BY <1>2, <1>5, NodesAre
<1>7. maxLeaf \in Nat \ {0}
  BY WidthsAre DEF Indexable
<1>8. EdgesOf(edges, arena, nodes)
  BY <1>3, <1>5, <1>6, <1>7, EdgesAre
<1>9. EntriesFit(arena, edges, maxLeaf)
  BY <1>1, <1>2, <1>3, <1>5 DEF Indexable, EntriesFit
<1>10. \A p \in Seq(Chars) : Len(p) >= 2 =>
          Represents(StepFrom(Pack(Entry(arena, nodes, edges, p)), Len(p)),
                     arena, edges, words, p)
  BY <1>5, <1>6, <1>8, <1>9, EntryLeads
<1>11. /\ dict.arena = arena
       /\ dict.dense = [two \in Range(Characters) \X Range(Characters) |->
                          Pack(Entry(arena, nodes, edges, two))]
       /\ dict.edgeLetters = [e \in DOMAIN edges |-> edges[e][Len(edges[e])]]
       /\ dict.edgeChildren = [e \in DOMAIN edges |-> Pack(Entry(arena, nodes, edges, edges[e]))]
  BY <1>1, <1>2, <1>3, <1>4 DEF Dictionary
<1>12. edges \in Seq(Seq(Chars)) /\ DOMAIN edges = 1 .. Len(edges)
  BY <1>8 DEF EdgesOf
<1>13. ASSUME NEW e \in 1 .. Len(edges)
       PROVE  /\ Len(edges[e]) >= 2 /\ dict.edgeLetters[e] = edges[e][Len(edges[e])]
              /\ Represents(StepFrom(dict.edgeChildren[e], Len(edges[e])), dict.arena, edges,
                            words, edges[e])
  <2>1. PICK p \in Seq(Chars) : p = edges[e] /\ Len(p) >= 2
    BY <1>8 DEF EdgesOf
  <2>2. /\ dict.edgeLetters[e] = p[Len(p)]
        /\ dict.edgeChildren[e] = Pack(Entry(arena, nodes, edges, p))
    BY <1>11, <1>12, <2>1
  <2> QED
    BY <1>10, <1>11, <2>1, <2>2
<1>14. ASSUME NEW a \in Chars, NEW b \in Chars
       PROVE  Represents(StepFrom(dict.dense[<<a, b>>], 2), dict.arena, edges, words, <<a, b>>)
  <2>1. PICK p \in Seq(Chars) : p = <<a, b>> /\ Len(p) = 2
    <3>1. <<a, b>> \in Seq(Chars) /\ Len(<<a, b>>) = 2
      OBVIOUS
    <3> QED
      BY <3>1
  <2>2. p \in Range(Characters) \X Range(Characters)
    BY <2>1, CharactersAre
  <2>3. dict.dense[p] = Pack(Entry(arena, nodes, edges, p))
    BY <1>11, <2>2
  <2>4. Represents(StepFrom(Pack(Entry(arena, nodes, edges, p)), 2), arena, edges, words, p)
    <3>1. \A q \in Seq(Chars) : Len(q) = 2 =>
             Represents(StepFrom(Pack(Entry(arena, nodes, edges, q)), 2), arena, edges, words, q)
      <4>1. SUFFICES ASSUME NEW q \in Seq(Chars), Len(q) = 2
                     PROVE  Represents(StepFrom(Pack(Entry(arena, nodes, edges, q)), 2),
                                       arena, edges, words, q)
        OBVIOUS
      <4>2. Len(q) >= 2
        BY <4>1
      <4>3. Represents(StepFrom(Pack(Entry(arena, nodes, edges, q)), Len(q)),
                       arena, edges, words, q)
        BY <1>10, <4>2
      <4> QED
        BY <4>1, <4>3, Zenon
    <3> QED
      BY <2>1, <3>1, Zenon
  <2> QED
    BY <1>11, <2>1, <2>3, <2>4
<1>15. Built(dict, edges, words)
  BY <1>5, <1>11, <1>12, <1>13, <1>14 DEF Built
<1> QED
  BY <1>4, <1>15

\* Where the characters spelt so far have led.
Leads(s, dict, edges, words, p) ==
    /\ Len(p) = 0 => s = Stepped(Root, FALSE)
    /\ Len(p) = 1 => s = Stepped(First(p[1]), FALSE)
    /\ Len(p) >= 2 => Represents(s, dict.arena, edges, words, p)

\* From a range, a character more leads to the words that go on with it,
LEMMA NarrowLeads ==
    ASSUME NEW dict, NEW edges, NEW words, Sorted(dict.arena, words), NEW p \in Seq(Chars),
           NEW c \in Chars, NEW cursor, Holds(cursor, dict.arena, p)
    PROVE  Represents(Narrow(dict, cursor, c), dict.arena, edges, words, Append(p, c))
<1>1. PICK found : found = IF cursor.len <= dict.maxScan THEN Scanned(dict, cursor, Place(c))
                           ELSE Bisected(dict, cursor, Place(c))
  OBVIOUS
<1>2. found = Group(dict.arena, Append(p, c))
  BY <1>1, ScannedIs, BisectedIs, Zenon
<1>3. Narrow(dict, cursor, c) = NarrowTo(dict, cursor, found)
  BY <1>1, Zenon DEF Narrow
<1>4. InRange(NarrowTo(dict, cursor, found), dict.arena, words, Append(p, c))
  BY <1>2, NarrowedIs
<1> QED
  BY <1>3, <1>4, Zenon DEF InRange, Represents

\* and so it does from a node.
LEMMA EdgeLeads ==
    ASSUME NEW dict, NEW edges, NEW words, Built(dict, edges, words), NEW p \in Seq(Chars),
           NEW c \in Chars, NEW cursor, AtNode(cursor, dict.arena, edges, p)
    PROVE  Represents(AlongEdge(dict, cursor, c), dict.arena, edges, words, Append(p, c))
<1>1. PICK d \in Nat : d = Len(p)
  OBVIOUS
<1>0. PICK on : on = Onward(dict.arena, p)
  OBVIOUS
<1>2. PICK m \in Nat \ {0}, start \in Nat \ {0} :
         m = Len(on) /\ start = cursor.start /\ RunOf(edges, on, p, start)
  <2>1. RunOf(edges, on, p, cursor.start) /\ Len(on) = cursor.fanout
    BY <1>0 DEF AtNode
  <2>2. Len(on) \in Nat \ {0} /\ cursor.start \in 1 .. Len(edges)
    BY <2>1 DEF RunOf
  <2> QED
    BY <2>1, <2>2
<1>3. PICK q : q = Append(p, c)
  OBVIOUS
<1>4. q \in Seq(Chars) /\ Len(q) = d + 1
  BY <1>1, <1>3
<1>5. /\ on \in Seq(Chars) /\ Distinct(on, m)
      /\ (\E k \in 1 .. m : on[k] = c) <=> Group(dict.arena, q) # {}
  <2>1. OnwardFrom(on, dict.arena, p)
    BY <1>0, OnwardIs
  <2> QED
    BY <1>2, <1>3, <2>1 DEF OnwardFrom
<1>6. \A k \in 1 .. m : /\ start + (k - 1) \in 1 .. Len(edges)
                        /\ edges[start + (k - 1)] = Append(p, on[k])
  BY <1>2 DEF RunOf
<1>7. \A k \in 1 .. m : dict.edgeLetters[start + (k - 1)] = on[k]
  <2>1. SUFFICES ASSUME NEW k \in 1 .. m PROVE dict.edgeLetters[start + (k - 1)] = on[k]
    OBVIOUS
  <2>2. PICK e \in 1 .. Len(edges) : e = start + (k - 1) /\ edges[e] = Append(p, on[k])
    BY <1>6
  <2>3. on[k] \in Chars
    BY <1>2, <1>5
  <2>4. dict.edgeLetters[e] = edges[e][Len(edges[e])]
    BY DEF Built
  <2>5. Len(edges[e]) = d + 1 /\ edges[e][d + 1] = on[k]
    BY <1>1, <2>2, <2>3
  <2> QED
    BY <2>2, <2>4, <2>5
<1>8. PICK matching : matching = {e \in start .. start + m - 1 : dict.edgeLetters[e] = c}
  OBVIOUS
<1>9. PICK s : s = AlongEdge(dict, cursor, c)
  OBVIOUS
<1>10. s = IF matching = {} THEN Stuck ELSE StepFrom(dict.edgeChildren[Min(matching)], d + 1)
  <2>1. d = cursor.depth /\ m = cursor.fanout
    BY <1>0, <1>1, <1>2 DEF AtNode
  <2> QED
    BY <1>2, <1>8, <1>9, <2>1, Zenon DEF AlongEdge
<1>11. \A e : e \in start .. start + m - 1 <=> \E k \in 1 .. m : e = start + (k - 1)
  <2>1. ASSUME NEW e \in start .. start + m - 1
        PROVE  \E k \in 1 .. m : e = start + (k - 1)
    <3>1. PICK k \in 1 .. m : k = e - start + 1
      BY <1>2
    <3>2. e = start + (k - 1)
      BY <3>1
    <3> QED
      BY <3>2
  <2>2. ASSUME NEW k \in 1 .. m, NEW e, e = start + (k - 1)
        PROVE  e \in start .. start + m - 1
    BY <2>2
  <2> QED
    BY <2>1, <2>2
<1>12. CASE Group(dict.arena, q) = {}
  <2>1. matching = {}
    <3>1. SUFFICES ASSUME NEW e \in matching PROVE FALSE
      OBVIOUS
    <3>2. e \in start .. start + m - 1 /\ dict.edgeLetters[e] = c
      BY <1>8
    <3>3. PICK k \in 1 .. m : e = start + (k - 1)
      BY <1>11, <3>2
    <3>4. on[k] = c
      BY <1>7, <3>2, <3>3
    <3> QED
      BY <1>5, <1>12, <3>4
  <2> QED
    BY <1>3, <1>9, <1>10, <1>12, <2>1 DEF Represents
<1>13. CASE Group(dict.arena, q) # {}
  <2>1. PICK k \in 1 .. m : on[k] = c
    BY <1>5, <1>13
  <2>2. PICK e \in Nat : e = start + (k - 1) /\ e \in 1 .. Len(edges) /\ edges[e] = q
    BY <1>3, <1>6, <2>1
  <2>3. e \in matching
    BY <1>7, <1>8, <1>11, <2>1, <2>2
  <2>4. ASSUME NEW x \in matching PROVE x = e
    <3>1. PICK j \in 1 .. m : x = start + (j - 1)
      BY <1>8, <1>11
    <3>2. on[j] = c
      BY <1>7, <1>8, <3>1
    <3>3. j = k
      BY <1>5, <2>1, <3>2 DEF Distinct
    <3> QED
      BY <2>2, <3>1, <3>3
  <2>5. Min(matching) = e
    <3>1. matching \subseteq Nat /\ matching # {}
      BY <2>2, <2>3, <2>4
    <3>2. Min(matching) \in matching
      BY <3>1, MinIs
    <3> QED
      BY <2>4, <3>2
  <2>6. s = StepFrom(dict.edgeChildren[e], Len(edges[e]))
    BY <1>4, <1>10, <2>2, <2>3, <2>5
  <2>7. Represents(StepFrom(dict.edgeChildren[e], Len(edges[e])), dict.arena, edges, words,
                   edges[e])
    BY <2>2 DEF Built
  <2> QED
    BY <1>3, <1>9, <2>2, <2>6, <2>7
<1> QED
  BY <1>12, <1>13

\* A character more leads to where it should.
LEMMA CharLeads ==
    ASSUME NEW dict, NEW edges, NEW words, Built(dict, edges, words), NEW p \in Seq(Chars),
           NEW c \in Chars, NEW s, Leads(s, dict, edges, words, p)
    PROVE  Leads(IF s = Stuck THEN Stuck ELSE AdvanceChar(dict, s.cursor, c),
                 dict, edges, words, Append(p, c))
<1>1. PICK d \in Nat : d = Len(p)
  OBVIOUS
<1>2. PICK q : q = Append(p, c)
  OBVIOUS
<1>3. q \in Seq(Chars) /\ Len(q) = d + 1 /\ q[d + 1] = c /\ \A k \in 1 .. d : q[k] = p[k]
  BY <1>1, <1>2
<1>4. PICK t : t = IF s = Stuck THEN Stuck ELSE AdvanceChar(dict, s.cursor, c)
  OBVIOUS
<1>5. CASE d = 0
  <2>1. s = Stepped(Root, FALSE)
    BY <1>1, <1>5 DEF Leads
  <2>2. s # Stuck /\ s.cursor = Root
    BY <2>1, SteppedIs
  <2>3. Root.at = "start"
    BY DEF Root
  <2>4. t = Stepped(First(c), FALSE)
    BY <1>4, <2>2, <2>3, Zenon DEF AdvanceChar
  <2>5. Len(q) = 1 /\ q[1] = c
    BY <1>3, <1>5
  <2>6. Leads(t, dict, edges, words, q)
    BY <2>4, <2>5 DEF Leads
  <2> QED
    BY <1>2, <1>4, <2>6
<1>6. CASE d = 1
  <2>1. PICK b \in Chars : b = p[1] /\ s = Stepped(First(b), FALSE)
    <3>1. p[1] \in Chars
      <4>1. 1 \in 1 .. Len(p)
        BY <1>1, <1>6
      <4> QED
        BY <4>1
    <3>2. s = Stepped(First(p[1]), FALSE)
      BY <1>1, <1>6 DEF Leads
    <3> QED
      BY <3>1, <3>2
  <2>2. PICK cursor : cursor = First(b) /\ s # Stuck /\ s.cursor = cursor
    BY <2>1, SteppedIs
  <2>3. cursor.at = "first" /\ cursor.char = b
    BY <2>2 DEF First
  <2>4. t = StepFrom(dict.dense[<<b, c>>], 2)
    BY <1>4, <2>2, <2>3, Zenon DEF AdvanceChar
  <2>5. Len(q) = 2 /\ q = <<b, c>>
    BY <1>3, <1>6, <2>1
  <2>6. Represents(t, dict.arena, edges, words, q)
    BY <2>4, <2>5 DEF Built
  <2>7. Leads(t, dict, edges, words, q)
    BY <2>5, <2>6 DEF Leads
  <2> QED
    BY <1>2, <1>4, <2>7
<1>7. CASE d >= 2
  <2>1. Represents(s, dict.arena, edges, words, p) /\ Sorted(dict.arena, words)
    BY <1>1, <1>7 DEF Leads, Built
  <2>2. Represents(t, dict.arena, edges, words, q)
    <3>1. CASE Group(dict.arena, p) = {}
      <4>1. t = Stuck
        BY <1>4, <2>1, <3>1 DEF Represents
      <4>2. Group(dict.arena, q) = {}
        <5>1. Group(dict.arena, Append(p, c))
                = {i \in Group(dict.arena, p) : Key(dict.arena[i], Len(p) + 1) = Place(c)}
          BY <2>1, LongerGroup
        <5> QED
          BY <1>2, <3>1, <5>1
      <4> QED
        BY <4>1, <4>2 DEF Represents
    <3>2. CASE Group(dict.arena, p) # {} /\ Holds(s.cursor, dict.arena, p)
      <4>1. PICK cursor : cursor = s.cursor /\ Holds(cursor, dict.arena, p) /\ s # Stuck
        BY <2>1, <3>2 DEF Represents
      <4>2. cursor.at = "range"
        BY <4>1 DEF Holds
      <4>3. t = Narrow(dict, cursor, c)
        BY <1>4, <4>1, <4>2, Zenon DEF AdvanceChar
      <4> QED
        BY <1>2, <2>1, <4>1, <4>3, NarrowLeads
    <3>3. CASE Group(dict.arena, p) # {} /\ AtNode(s.cursor, dict.arena, edges, p)
      <4>1. PICK cursor : cursor = s.cursor /\ AtNode(cursor, dict.arena, edges, p) /\ s # Stuck
        BY <2>1, <3>3 DEF Represents
      <4>2. cursor.at = "node"
        BY <4>1 DEF AtNode
      <4>3. t = AlongEdge(dict, cursor, c)
        BY <1>4, <4>1, <4>2, Zenon DEF AdvanceChar
      <4> QED
        BY <1>2, <4>1, <4>3, EdgeLeads
    <3> QED
      BY <2>1, <3>1, <3>2, <3>3 DEF Represents
  <2>3. Len(q) >= 2 /\ Len(q) # 0 /\ Len(q) # 1
    BY <1>3, <1>7
  <2>4. Leads(t, dict, edges, words, q)
    BY <2>2, <2>3 DEF Leads
  <2> QED
    BY <1>2, <1>4, <2>4
<1> QED
  BY <1>5, <1>6, <1>7

LEMMA FromZeroOn ==
    ASSUME NEW T, T \subseteq Nat, 0 \notin T, \A n \in Nat : n \notin T => n + 1 \notin T
    PROVE  T = {}
<1>1. SUFFICES ASSUME T # {} PROVE FALSE
  OBVIOUS
<1>2. PICK n \in T : \A j \in T : n <= j
  BY <1>1, LeastExists
<1>3. n - 1 \in Nat /\ n - 1 \notin T /\ (n - 1) + 1 = n
  <2>1. n \in Nat /\ n # 0
    BY <1>2
  <2> QED
    BY <1>2, <2>1
<1> QED
  BY <1>2, <1>3

LEMMA AdvanceIs ==
    ASSUME NEW dict, NEW step, NEW l \in Letters
    PROVE  LET next(s, c) == IF s = Stuck THEN Stuck ELSE AdvanceChar(dict, s.cursor, c)
               w == Grapheme[l]
           IN  /\ Len(w) = 1 => Advance(dict, step, l) = next(step, w[1])
               /\ Len(w) = 2 => Advance(dict, step, l) = next(next(step, w[1]), w[2])
<1> DEFINE next(s, c) == IF s = Stuck THEN Stuck ELSE AdvanceChar(dict, s.cursor, c)
           w == Grapheme[l]
           Along(g) == g = [k \in 0 .. Len(w) |-> IF k = 0 THEN step ELSE next(g[k - 1], w[k])]
<1>1. PICK a, b : a = next(step, w[1]) /\ b = next(a, w[2])
  OBVIOUS
<1>2. Len(w) \in {1, 2}
  BY LexiconAssumption
<1>3. \E g : Along(g)
  <2>1. PICK g : g = [k \in 0 .. Len(w) |-> IF k = 0 THEN step ELSE IF k = 1 THEN a ELSE b]
    OBVIOUS
  <2>2. ASSUME NEW k \in 0 .. Len(w)
        PROVE  g[k] = IF k = 0 THEN step ELSE next(g[k - 1], w[k])
    <3> HIDE DEF next
    <3>1. k = 0 \/ k = 1 \/ (k = 2 /\ Len(w) = 2)
      <4>1. PICK n \in Nat : n = Len(w) /\ (n = 1 \/ n = 2)
        BY <1>2
      <4>2. k \in 0 .. n
        BY <4>1
      <4>3. (n = 1 => k = 0 \/ k = 1) /\ (n = 2 => k = 0 \/ k = 1 \/ k = 2)
        BY <4>2
      <4>4. n = 1 \/ (n = 2 /\ Len(w) = 2)
        BY <4>1, Zenon
      <4> QED
        BY <4>3, <4>4, Zenon
    <3>2. CASE k = 0
      BY <2>1, <3>2
    <3>3. CASE k = 1
      BY <1>1, <1>2, <2>1, <3>3
    <3>4. CASE k = 2 /\ Len(w) = 2
      BY <1>1, <2>1, <3>4
    <3> QED
      BY <3>1, <3>2, <3>3, <3>4
  <2>3. Along(g)
    <3> HIDE DEF next
    <3> QED
      BY <2>1, <2>2
  <2> QED
    BY <2>3
<1>4. PICK g : g = CHOOSE f : Along(f)
  OBVIOUS
<1>5. Along(g)
  <2> HIDE DEF Along
  <2> QED
    BY <1>3, <1>4
<1>6. Advance(dict, step, l) = g[Len(w)]
  BY <1>4, Zenon DEF Advance, AdvanceOn
<1>7. \A k \in 0 .. Len(w) : g[k] = IF k = 0 THEN step ELSE next(g[k - 1], w[k])
  <2> HIDE DEF next
  <2> QED
    BY <1>5
<1>8. g[0] = step /\ g[1] = a /\ (Len(w) = 2 => g[2] = b)
  <2> HIDE DEF next
  <2>1. 0 \in 0 .. Len(w) /\ 1 \in 0 .. Len(w) /\ (Len(w) = 2 => 2 \in 0 .. Len(w))
    BY <1>2
  <2>2. g[0] = step
    BY <1>7, <2>1
  <2>3. g[1] = next(g[0], w[1])
    BY <1>7, <2>1
  <2>4. Len(w) = 2 => g[2] = next(g[1], w[2])
    BY <1>7, <2>1
  <2> QED
    BY <1>1, <2>2, <2>3, <2>4
<1> QED
  BY <1>1, <1>6, <1>8

\* A letter more leads to where its characters do.
LEMMA LetterLeads ==
    ASSUME NEW dict, NEW edges, NEW words, Built(dict, edges, words), NEW p \in Seq(Chars),
           NEW l \in Letters, NEW s, Leads(s, dict, edges, words, p)
    PROVE  /\ p \o Grapheme[l] \in Seq(Chars)
           /\ Leads(Advance(dict, s, l), dict, edges, words, p \o Grapheme[l])
<1> DEFINE next(t, c) == IF t = Stuck THEN Stuck ELSE AdvanceChar(dict, t.cursor, c)
<1>1. PICK w \in Seq(Chars) : w = Grapheme[l] /\ (Len(w) = 1 \/ Len(w) = 2)
  BY GraphemesAre, LexiconAssumption
<1>2. \A t : \A q \in Seq(Chars), c \in Chars :
         Leads(t, dict, edges, words, q) => Leads(next(t, c), dict, edges, words, Append(q, c))
  BY CharLeads
<1> HIDE DEF next
<1>3. w[1] \in Chars /\ (Len(w) = 2 => w[2] \in Chars)
  BY <1>1
<1>4. PICK a \in Chars, q \in Seq(Chars) : a = w[1] /\ q = Append(p, a)
  <2>1. PICK a \in Chars : a = w[1]
    BY <1>3
  <2>2. Append(p, a) \in Seq(Chars)
    OBVIOUS
  <2> QED
    BY <2>1, <2>2
<1>5. Leads(next(s, a), dict, edges, words, q)
  BY <1>2, <1>4
<1>6. PICK d \in Nat : d = Len(p)
  OBVIOUS
<1>7. /\ p \o w \in Seq(Chars) /\ Len(p \o w) = d + Len(w)
      /\ \A i \in 1 .. d + Len(w) : (p \o w)[i] = IF i <= d THEN p[i] ELSE w[i - d]
  <2>1. /\ p \o w \in Seq(Chars) /\ Len(p \o w) = Len(p) + Len(w)
        /\ \A i \in 1 .. Len(p) + Len(w) : (p \o w)[i] = IF i <= Len(p) THEN p[i] ELSE w[i - Len(p)]
    BY ConcatProperties
  <2> QED
    BY <1>6, <2>1
<1>8. PICK pw \in Seq(Chars) : pw = p \o w
  BY <1>7
<1>9. Len(q) = d + 1 /\ q[d + 1] = a /\ \A i \in 1 .. d : q[i] = p[i]
  BY <1>4, <1>6
<1>10. CASE Len(w) = 1
  <2>1. Len(pw) = d + 1 /\ \A i \in 1 .. d + 1 : pw[i] = IF i <= d THEN p[i] ELSE w[i - d]
    BY <1>7, <1>8, <1>10
  <2>2. \A i \in 1 .. d + 1 : pw[i] = q[i]
    <3>1. pw[d + 1] = w[1]
      BY <2>1
    <3> QED
      BY <1>4, <1>9, <2>1, <3>1
  <2>3. pw = q
    BY <1>9, <2>1, <2>2
  <2>4. Advance(dict, s, l) = next(s, a)
    BY <1>1, <1>4, <1>10, AdvanceIs DEF next
  <2> QED
    BY <1>1, <1>5, <1>8, <2>3, <2>4
<1>11. CASE Len(w) = 2
  <2>1. PICK b \in Chars, r \in Seq(Chars) : b = w[2] /\ r = Append(q, b)
    <3>1. PICK b \in Chars : b = w[2]
      BY <1>3, <1>11
    <3>2. Append(q, b) \in Seq(Chars)
      OBVIOUS
    <3> QED
      BY <3>1, <3>2
  <2>2. Leads(next(next(s, a), b), dict, edges, words, r)
    BY <1>2, <1>5, <2>1
  <2>3. Len(r) = d + 2 /\ r[d + 2] = b /\ \A i \in 1 .. d + 1 : r[i] = q[i]
    BY <1>9, <2>1
  <2>4. Len(pw) = d + 2 /\ \A i \in 1 .. d + 2 : pw[i] = IF i <= d THEN p[i] ELSE w[i - d]
    BY <1>7, <1>8, <1>11
  <2>5. \A i \in 1 .. d + 2 : pw[i] = r[i]
    <3>1. pw[d + 1] = w[1] /\ pw[d + 2] = w[2]
      BY <2>4
    <3> QED
      BY <1>4, <1>9, <2>1, <2>3, <2>4, <3>1
  <2>6. pw = r
    BY <2>3, <2>4, <2>5
  <2>7. Advance(dict, s, l) = next(next(s, a), b)
    BY <1>1, <1>4, <1>11, <2>1, AdvanceIs DEF next
  <2> QED
    BY <1>1, <1>8, <2>2, <2>6, <2>7
<1> QED
  BY <1>1, <1>10, <1>11

LEMMA StuckStays ==
    ASSUME NEW dict, NEW l \in Letters
    PROVE  Advance(dict, Stuck, l) = Stuck
<1>1. Len(Grapheme[l]) = 1 \/ Len(Grapheme[l]) = 2
  BY LexiconAssumption
<1> QED
  BY <1>1, AdvanceIs

\* What has been spelt after each letter.
Spelt(g, letters, n) ==
    /\ g[0] = << >>
    /\ \A i \in 1 .. n : g[i] = g[i - 1] \o Grapheme[letters[i]]
    /\ \A i \in 0 .. n : g[i] \in Seq(Chars)

LEMMA SpeltIs ==
    ASSUME NEW letters \in Seq(Letters), NEW n \in Nat, n = Len(letters)
    PROVE  \E g : Spelt(g, letters, n) /\ g[n] = Spelling(letters)
<1>1. PICK f : f = [i \in 1 .. n |-> Grapheme[letters[i]]]
  OBVIOUS
<1>2. Spelling(letters) = FlattenSeq(f)
  <2>1. f = [i \in DOMAIN letters |-> Grapheme[letters[i]]]
    BY <1>1
  <2> QED
    BY <2>1, Zenon DEF Spelling
<1>3. /\ Len(f) = n
      /\ \A i \in 1 .. n : f[i] = Grapheme[letters[i]] /\ f[i] \in Seq(Chars)
  <2>1. Len(f) = n
    BY <1>1
  <2>2. ASSUME NEW i \in 1 .. n PROVE f[i] = Grapheme[letters[i]] /\ f[i] \in Seq(Chars)
    <3>1. letters[i] \in Letters
      OBVIOUS
    <3> QED
      BY <1>1, <3>1, GraphemesAre
  <2> QED
    BY <2>1, <2>2
<1>4. << >> \in Seq(Chars)
  OBVIOUS
<1>5. CASE n = 0
  <2>1. FlattenSeq(f) = << >>
    <3>1. f = << >>
      BY <1>1, <1>5
    <3> QED
      BY <3>1 DEF FlattenSeq
  <2>2. PICK g : g = [i \in 0 .. n |-> << >>]
    OBVIOUS
  <2>3. g[0] = << >> /\ g[n] = << >> /\ \A i \in 0 .. n : g[i] \in Seq(Chars)
    BY <1>4, <1>5, <2>2
  <2>4. \A i \in 1 .. n : FALSE
    BY <1>5
  <2>5. Spelt(g, letters, n)
    BY <2>3, <2>4 DEF Spelt
  <2> QED
    BY <1>2, <2>1, <2>3, <2>5
<1>6. CASE n # 0
  <2>1. PICK j : Joined(j, f, n) /\ FlattenSeq(f) = j[n]
    BY <1>3, <1>6, FlattenIs
  <2>2. \A i \in 1 .. n : j[i] = IF i = 1 THEN f[i] ELSE j[i - 1] \o f[i]
    BY <2>1 DEF Joined
  <2>3. PICK g : g = [i \in 0 .. n |-> IF i = 0 THEN << >> ELSE j[i]]
    OBVIOUS
  <2>4. g[0] = << >> /\ \A i \in 1 .. n : g[i] = j[i]
    <3>1. 0 \in 0 .. n /\ \A i \in 1 .. n : i \in 0 .. n /\ i # 0
      OBVIOUS
    <3> QED
      BY <2>3, <3>1
  <2>5. ASSUME NEW i \in 1 .. n PROVE g[i] = g[i - 1] \o Grapheme[letters[i]]
    <3>1. CASE i = 1
      <4>1. g[1] = f[1] /\ f[1] \in Seq(Chars) /\ f[1] = Grapheme[letters[1]]
        BY <1>3, <2>2, <2>4, <3>1
      <4>2. << >> \o f[1] = f[1]
        BY <4>1, ConcatEmptySeq
      <4>3. i - 1 = 0
        BY <3>1
      <4> QED
        BY <2>4, <3>1, <4>1, <4>2, <4>3
    <3>2. CASE i # 1
      <4>1. i - 1 \in 1 .. n
        BY <3>2
      <4>2. j[i] = j[i - 1] \o f[i]
        BY <2>2, <3>2
      <4> QED
        BY <1>3, <2>4, <4>1, <4>2
    <3> QED
      BY <3>1, <3>2
  <2> DEFINE bad == {i \in Nat : i <= n /\ g[i] \notin Seq(Chars)}
  <2>6. 0 \notin bad
    BY <1>4, <2>4
  <2>7. ASSUME NEW i \in Nat, i \notin bad PROVE i + 1 \notin bad
    <3>1. SUFFICES ASSUME i + 1 <= n PROVE g[i + 1] \in Seq(Chars)
      OBVIOUS
    <3>2. i + 1 \in 1 .. n /\ (i + 1) - 1 = i
      BY <3>1
    <3>3. g[i + 1] = g[i] \o f[i + 1] /\ f[i + 1] \in Seq(Chars)
      BY <1>3, <2>5, <3>2
    <3>4. g[i] \in Seq(Chars)
      BY <2>7, <3>1
    <3>5. PICK u \in Seq(Chars), v \in Seq(Chars) : u = g[i] /\ v = f[i + 1]
      BY <3>3, <3>4
    <3>6. u \o v \in Seq(Chars)
      OBVIOUS
    <3> QED
      BY <3>3, <3>5, <3>6
  <2>8. bad = {}
    <3>1. bad \subseteq Nat
      OBVIOUS
    <3> HIDE DEF bad
    <3> QED
      BY <2>6, <2>7, <3>1, FromZeroOn
  <2>9. Spelt(g, letters, n)
    <3>1. \A i \in 0 .. n : i \in Nat /\ i <= n
      OBVIOUS
    <3>2. \A i \in 0 .. n : g[i] \in Seq(Chars)
      BY <2>8, <3>1
    <3> HIDE DEF bad
    <3> QED
      BY <2>4, <2>5, <3>2 DEF Spelt
  <2>10. g[n] = Spelling(letters)
    BY <1>2, <1>6, <2>1, <2>4
  <2> QED
    BY <2>9, <2>10
<1> QED
  BY <1>5, <1>6

LEMMA SpellingJoined ==
    ASSUME NEW a \in Seq(Letters), NEW b \in Seq(Letters)
    PROVE  Spelling(a \o b) = Spelling(a) \o Spelling(b)
<1>1. PICK n \in Nat, m \in Nat : n = Len(a) /\ m = Len(b)
  OBVIOUS
<1>2. PICK c \in Seq(Letters) :
         /\ c = a \o b /\ Len(c) = n + m
         /\ \A i \in 1 .. n + m : c[i] = IF i <= n THEN a[i] ELSE b[i - n]
  <2>1. /\ a \o b \in Seq(Letters) /\ Len(a \o b) = Len(a) + Len(b)
        /\ \A i \in 1 .. Len(a) + Len(b) :
              (a \o b)[i] = IF i <= Len(a) THEN a[i] ELSE b[i - Len(a)]
    BY ConcatProperties
  <2> QED
    BY <1>1, <2>1
<1>3. PICK f : Spelt(f, a, n) /\ f[n] = Spelling(a)
  BY <1>1, SpeltIs
<1>4. PICK g : Spelt(g, b, m) /\ g[m] = Spelling(b)
  BY <1>1, SpeltIs
<1>5. PICK h : Spelt(h, c, n + m) /\ h[n + m] = Spelling(c)
  <2>1. n + m \in Nat
    OBVIOUS
  <2> QED
    BY <1>2, <2>1, SpeltIs
<1> DEFINE bad == {i \in Nat : i <= n + m /\ h[i] # IF i <= n THEN f[i] ELSE f[n] \o g[i - n]}
<1>6. 0 \notin bad
  BY <1>3, <1>5 DEF Spelt
<1>7. ASSUME NEW i \in Nat, i \notin bad PROVE i + 1 \notin bad
  <2>1. SUFFICES ASSUME i + 1 <= n + m
                 PROVE  h[i + 1] = IF i + 1 <= n THEN f[i + 1] ELSE f[n] \o g[(i + 1) - n]
    OBVIOUS
  <2>2. i + 1 \in 1 .. n + m /\ (i + 1) - 1 = i /\ i <= n + m
    BY <2>1
  <2>3. h[i + 1] = h[i] \o Grapheme[c[i + 1]]
    BY <1>5, <2>2 DEF Spelt
  <2>4. h[i] = IF i <= n THEN f[i] ELSE f[n] \o g[i - n]
    BY <1>7, <2>2
  <2>5. CASE i + 1 <= n
    <3>1. i + 1 \in 1 .. n /\ i <= n
      BY <2>5
    <3>2. f[i + 1] = f[i] \o Grapheme[a[i + 1]]
      BY <1>3, <2>2, <3>1 DEF Spelt
    <3> QED
      BY <1>2, <2>2, <2>3, <2>4, <2>5, <3>1, <3>2
  <2>6. CASE ~(i + 1 <= n)
    <3>1. PICK j \in 0 .. m - 1 : j = i - n /\ i = n + j
      BY <2>2, <2>6
    <3>2. j + 1 \in 1 .. m /\ (j + 1) - 1 = j /\ (i + 1) - n = j + 1 /\ j \in 0 .. m
      BY <3>1
    <3>3. g[j + 1] = g[j] \o Grapheme[b[j + 1]]
      BY <1>4, <3>2 DEF Spelt
    <3>4. c[i + 1] = b[j + 1] /\ b[j + 1] \in Letters
      BY <1>1, <1>2, <2>2, <2>6, <3>2
    <3>5. PICK u \in Seq(Chars), v \in Seq(Chars), w \in Seq(Chars) :
             u = f[n] /\ v = g[j] /\ w = Grapheme[b[j + 1]]
      <4>1. f[n] \in Seq(Chars) /\ g[j] \in Seq(Chars)
        BY <1>3, <1>4, <3>2 DEF Spelt
      <4>2. Grapheme[b[j + 1]] \in Seq(Chars)
        BY <3>4, GraphemesAre
      <4> QED
        BY <4>1, <4>2
    <3>6. h[i] = u \o v
      <4>1. CASE i <= n
        <5>1. i = n /\ j = 0
          BY <2>6, <3>1, <4>1
        <5>2. h[i] = u /\ v = << >>
          BY <1>4, <2>4, <3>5, <4>1, <5>1 DEF Spelt
        <5>3. u \o << >> = u
          BY ConcatEmptySeq
        <5> QED
          BY <5>2, <5>3
      <4>2. CASE ~(i <= n)
        BY <2>4, <3>1, <3>5, <4>2
      <4> QED
        BY <4>1, <4>2
    <3>7. (u \o v) \o w = u \o (v \o w)
      BY ConcatAssociative
    <3> QED
      BY <2>3, <2>6, <3>2, <3>3, <3>4, <3>5, <3>6, <3>7
  <2> QED
    BY <2>5, <2>6
<1>8. bad = {}
  <2>1. bad \subseteq Nat
    OBVIOUS
  <2> HIDE DEF bad
  <2> QED
    BY <1>6, <1>7, <2>1, FromZeroOn
<1>9. h[n + m] = IF n + m <= n THEN f[n + m] ELSE f[n] \o g[(n + m) - n]
  <2>1. n + m \in Nat /\ n + m <= n + m
    OBVIOUS
  <2> QED
    BY <1>8, <2>1
<1>10. h[n + m] = f[n] \o g[m]
  <2>1. CASE m = 0
    <3>1. f[n] \in Seq(Chars) /\ g[m] = << >>
      BY <1>3, <1>4, <2>1 DEF Spelt
    <3>2. f[n] \o << >> = f[n]
      BY <3>1, ConcatEmptySeq
    <3> QED
      BY <1>9, <2>1, <3>1, <3>2
  <2>2. CASE m # 0
    <3>1. ~(n + m <= n) /\ (n + m) - n = m
      BY <2>2
    <3> QED
      BY <1>9, <3>1
  <2> QED
    BY <2>1, <2>2
<1> QED
  BY <1>2, <1>3, <1>4, <1>5, <1>10

-----------------------------------------------------------------------------
(* The dictionary: walks.                                                   *)

\* The steps of a walk.
Trail(g, dict, step, letters, n) ==
    g = [k \in 0 .. n |-> IF k = 0 THEN step
                          ELSE IF g[k - 1] = Stuck THEN Stuck
                          ELSE Advance(dict, g[k - 1], letters[k])]

LEMMA TrailExists ==
    ASSUME NEW dict, NEW step, NEW letters, NEW m \in Nat
    PROVE  \E g : Trail(g, dict, step, letters, m)
<1> DEFINE next(s, k) == IF s = Stuck THEN Stuck ELSE Advance(dict, s, letters[k])
           missing == {n \in Nat : ~ \E g : Trail(g, dict, step, letters, n)}
<1>1. \A n : \A g : Trail(g, dict, step, letters, n)
                      <=> g = [k \in 0 .. n |-> IF k = 0 THEN step ELSE next(g[k - 1], k)]
  BY DEF Trail
<1>2. 0 \notin missing
  <2>1. PICK g : g = [k \in 0 .. 0 |-> step]
    OBVIOUS
  <2>2. \A k \in 0 .. 0 : k = 0
    OBVIOUS
  <2>3. g = [k \in 0 .. 0 |-> IF k = 0 THEN step ELSE next(g[k - 1], k)]
    <3> HIDE DEF next
    <3> QED
      BY <2>1, <2>2
  <2> QED
    BY <1>1, <2>3
<1>3. ASSUME NEW n \in Nat, n \notin missing PROVE n + 1 \notin missing
  <2>1. PICK g : Trail(g, dict, step, letters, n)
    BY <1>3
  <2> HIDE DEF next
  <2>2. PICK h : h = [k \in 0 .. n + 1 |-> IF k = 0 THEN step ELSE next(g[k - 1], k)]
    OBVIOUS
  <2>3. \A k \in 0 .. n : g[k] = IF k = 0 THEN step ELSE next(g[k - 1], k)
    BY <1>1, <2>1
  <2>4. \A k \in 0 .. n : g[k] = h[k]
    BY <2>2, <2>3
  <2>5. \A k \in 0 .. n + 1 : k # 0 => g[k - 1] = h[k - 1]
    BY <2>4
  <2>6. h = [k \in 0 .. n + 1 |-> IF k = 0 THEN step ELSE next(h[k - 1], k)]
    BY <2>2, <2>5
  <2>7. Trail(h, dict, step, letters, n + 1)
    BY <1>1, <2>6
  <2> QED
    BY <2>7
<1>4. missing = {}
  <2>1. missing \subseteq Nat
    OBVIOUS
  <2> HIDE DEF missing
  <2> QED
    BY <1>2, <1>3, <2>1, FromZeroOn
<1> QED
  BY <1>4

LEMMA WalkIs ==
    ASSUME NEW dict, NEW step, NEW letters, NEW n \in Nat, n = Len(letters)
    PROVE  \E g : Trail(g, dict, step, letters, n) /\ WalkFrom(dict, step, letters) = g[n]
<1>1. PICK g : g = CHOOSE f : Trail(f, dict, step, letters, n)
  OBVIOUS
<1>2. Trail(g, dict, step, letters, n)
  BY <1>1, TrailExists
<1>3. WalkFrom(dict, step, letters) = g[n]
  BY <1>1, Zenon DEF WalkFrom, WalkOn, Trail
<1> QED
  BY <1>2, <1>3

\* A walk leads to where the characters of its letters do.
LEMMA WalkLeads ==
    ASSUME NEW dict, NEW edges, NEW words, Built(dict, edges, words), NEW p \in Seq(Chars),
           NEW letters \in Seq(Letters), NEW step, Leads(step, dict, edges, words, p)
    PROVE  Leads(WalkFrom(dict, step, letters), dict, edges, words, p \o Spelling(letters))
<1>1. PICK n \in Nat : n = Len(letters)
  OBVIOUS
<1>2. PICK f : Spelt(f, letters, n) /\ f[n] = Spelling(letters)
  BY <1>1, SpeltIs
<1>3. PICK g : Trail(g, dict, step, letters, n) /\ WalkFrom(dict, step, letters) = g[n]
  BY <1>1, WalkIs
<1>4. \A k \in 0 .. n : g[k] = IF k = 0 THEN step
                               ELSE IF g[k - 1] = Stuck THEN Stuck
                               ELSE Advance(dict, g[k - 1], letters[k])
  BY <1>3 DEF Trail
<1>5. \A k \in 1 .. n : letters[k] \in Letters
  BY <1>1
<1> DEFINE bad == {k \in Nat : k <= n /\ ~Leads(g[k], dict, edges, words, p \o f[k])}
<1>6. 0 \notin bad
  <2>1. g[0] = step
    <3>1. 0 \in 0 .. n
      OBVIOUS
    <3> QED
      BY <1>4, <3>1
  <2>2. f[0] = << >> /\ p \o << >> = p
    BY <1>2, ConcatEmptySeq DEF Spelt
  <2> QED
    BY <2>1, <2>2
<1>7. ASSUME NEW k \in Nat, k \notin bad PROVE k + 1 \notin bad
  <2>1. SUFFICES ASSUME k + 1 <= n
                 PROVE  Leads(g[k + 1], dict, edges, words, p \o f[k + 1])
    OBVIOUS
  <2>2. k + 1 \in 0 .. n /\ k + 1 # 0 /\ k + 1 \in 1 .. n /\ (k + 1) - 1 = k /\ k \in 0 .. n
    BY <2>1
  <2>3. PICK l \in Letters : l = letters[k + 1]
    BY <1>5, <2>2
  <2>4. f[k + 1] = f[k] \o Grapheme[l] /\ f[k] \in Seq(Chars)
    BY <1>2, <2>2, <2>3 DEF Spelt
  <2>5. Leads(g[k], dict, edges, words, p \o f[k])
    BY <1>7, <2>2
  <2>6. g[k + 1] = Advance(dict, g[k], l)
    <3>1. g[k + 1] = IF g[k] = Stuck THEN Stuck ELSE Advance(dict, g[k], l)
      BY <1>4, <2>2, <2>3
    <3>2. g[k] = Stuck => Advance(dict, g[k], l) = Stuck
      BY StuckStays
    <3> QED
      BY <3>1, <3>2
  <2>7. PICK u \in Seq(Chars), w \in Seq(Chars) : u = f[k] /\ w = Grapheme[l]
    BY <2>4, GraphemesAre
  <2>8. PICK q \in Seq(Chars) : q = p \o u
    <3>1. p \o u \in Seq(Chars)
      OBVIOUS
    <3> QED
      BY <3>1
  <2>9. Leads(Advance(dict, g[k], l), dict, edges, words, q \o w)
    <3>1. Leads(g[k], dict, edges, words, q)
      BY <2>5, <2>7, <2>8
    <3> QED
      BY <2>7, <3>1, LetterLeads
  <2>10. q \o w = p \o (u \o w)
    BY <2>8, ConcatAssociative
  <2> QED
    BY <2>4, <2>6, <2>7, <2>9, <2>10
<1>8. bad = {}
  <2>1. bad \subseteq Nat
    OBVIOUS
  <2> HIDE DEF bad
  <2> QED
    BY <1>6, <1>7, <2>1, FromZeroOn
<1>9. Leads(g[n], dict, edges, words, p \o f[n])
  <2>1. n \in Nat /\ n <= n
    OBVIOUS
  <2> QED
    BY <1>8, <2>1
<1> QED
  BY <1>2, <1>3, <1>9

LEMMA SpellingsAre ==
    ASSUME NEW n, NEW letters \in Spellings(n)
    PROVE  letters \in Seq(Letters)
<1>1. PICK m \in 1 .. n : letters \in [1 .. m -> Letters]
  BY DEF Spellings
<1>2. PICK k \in Nat : k = m
  BY <1>1
<1> QED
  BY <1>1, <1>2

LEMMA StartLeads ==
    ASSUME NEW dict, NEW edges, NEW words, Built(dict, edges, words),
           NEW letters \in Seq(Letters)
    PROVE  /\ Spelling(letters) \in Seq(Chars)
           /\ Leads(Walk(dict, letters), dict, edges, words, Spelling(letters))
<1>1. << >> \in Seq(Chars) /\ Leads(Stepped(Root, FALSE), dict, edges, words, << >>)
  BY DEF Leads
<1>2. PICK e \in Seq(Chars) : e = << >>
  BY <1>1
<1>3. PICK t \in Seq(Chars) : t = Spelling(letters)
  BY SpellingIs
<1>4. Leads(Walk(dict, letters), dict, edges, words, e \o t)
  BY <1>1, <1>2, <1>3, WalkLeads DEF Walk
<1>5. e \o t = t
  BY <1>2, ConcatEmptySeq
<1> QED
  BY <1>3, <1>4, <1>5

\* What has been spelt is said to begin a word, and to be one, when it does and is.
LEMMA LeadsSay ==
    ASSUME NEW dict, NEW edges, NEW words, Built(dict, edges, words), NEW p \in Seq(Chars),
           NEW s, Leads(s, dict, edges, words, p)
    PROVE  /\ Len(p) >= 2 => (s # Stuck <=> \E w \in words : IsPrefix(p, w))
           /\ (s # Stuck /\ s.isWord) <=> p \in words
           /\ s = Stuck => Len(p) >= 2
<1>1. Sorted(dict.arena, words)
  BY DEF Built
<1>2. PICK d \in Nat : d = Len(p)
  OBVIOUS
<1>3. CASE d >= 2
  <2>1. Represents(s, dict.arena, edges, words, p)
    BY <1>2, <1>3 DEF Leads
  <2>2. Group(dict.arena, p) # {} <=> \E w \in words : IsPrefix(p, w)
    BY <1>1, GroupIs
  <2>3. p \in words => Group(dict.arena, p) # {}
    <3>1. IsPrefix(p, p)
      BY PrefixIs
    <3> QED
      BY <2>2, <3>1
  <2>4. s # Stuck <=> Group(dict.arena, p) # {}
    BY <2>1 DEF Represents
  <2>5. s # Stuck => (s.isWord <=> p \in words)
    BY <2>1, Zenon DEF Represents
  <2>6. (s # Stuck /\ s.isWord) <=> p \in words
    BY <2>3, <2>4, <2>5, Zenon
  <2> QED
    BY <1>2, <1>3, <2>2, <2>4, <2>6
<1>4. CASE d < 2
  <2>1. d = 0 \/ d = 1
    BY <1>4
  <2>2. PICK c : s = Stepped(c, FALSE)
    BY <1>2, <2>1 DEF Leads
  <2>3. s # Stuck /\ s.isWord = FALSE
    BY <2>2, SteppedIs, Zenon
  <2>4. ~(Len(p) >= 2)
    BY <1>2, <1>4
  <2>5. p \notin words
    BY <1>1, <2>4 DEF Sorted
  <2>6. ~(s # Stuck /\ s.isWord)
    BY <2>3, Zenon
  <2> QED
    BY <2>3, <2>4, <2>5, <2>6
<1> QED
  BY <1>3, <1>4

\* The letters that the cursor lets through are those that make a word.
LEMMA AllowedAreTried ==
    ASSUME NEW dict, NEW edges, NEW words, Built(dict, edges, words),
           NEW before \in Seq(Letters), NEW after \in Seq(Letters)
    PROVE  AllowedLetters(dict, before, after) = TriedLetters(words, before, after)
<1>1. PICK prefix : prefix = Walk(dict, before)
  OBVIOUS
<1>2. PICK b \in Seq(Chars) : b = Spelling(before) /\ Leads(prefix, dict, edges, words, b)
  BY <1>1, StartLeads
<1>3. ASSUME NEW l \in Letters
      PROVE  LET spelt == Spelling(before \o <<l>> \o after)
                 e == WalkFrom(dict, prefix, <<l>> \o after)
             IN  /\ \E x \in Seq(Chars) : spelt = b \o x /\ spelt \in Seq(Chars)
                 /\ (e # Stuck /\ e.isWord) <=> spelt \in words
  <2>1. PICK one \in Seq(Letters) : one = <<l>>
    <3>1. <<l>> \in Seq(Letters)
      OBVIOUS
    <3> QED
      BY <3>1
  <2>2. PICK rest \in Seq(Letters) : rest = one \o after
    <3>1. one \o after \in Seq(Letters)
      OBVIOUS
    <3> QED
      BY <3>1
  <2>3. (before \o one) \o after = before \o rest
    BY <2>2, ConcatAssociative
  <2>4. PICK x \in Seq(Chars) : x = Spelling(rest)
    BY SpellingIs
  <2>5. Spelling(before \o rest) = b \o x
    BY <1>2, <2>4, SpellingJoined
  <2>6. PICK spelt : spelt = Spelling(before \o <<l>> \o after)
    OBVIOUS
  <2>7. PICK e : e = WalkFrom(dict, prefix, <<l>> \o after)
    OBVIOUS
  <2>8. spelt = b \o x
    BY <2>1, <2>3, <2>5, <2>6
  <2>9. spelt \in Seq(Chars)
    BY <2>8
  <2>10. e = WalkFrom(dict, prefix, rest)
    BY <2>1, <2>2, <2>7
  <2>11. Leads(e, dict, edges, words, spelt)
    BY <1>2, <2>4, <2>8, <2>10, WalkLeads
  <2>12. (e # Stuck /\ e.isWord) <=> spelt \in words
    BY <2>9, <2>11, LeadsSay
  <2> QED
    BY <2>6, <2>7, <2>8, <2>9, <2>12
<1>4. CASE prefix = Stuck
  <2>1. AllowedLetters(dict, before, after) = {}
    BY <1>1, <1>4, Zenon DEF AllowedLetters, LettersFrom
  <2>2. Len(b) >= 2 /\ ~ \E w \in words : IsPrefix(b, w)
    BY <1>2, <1>4, LeadsSay
  <2>3. ASSUME NEW l \in Letters, Spelling(before \o <<l>> \o after) \in words PROVE FALSE
    <3>1. PICK spelt : spelt = Spelling(before \o <<l>> \o after)
      OBVIOUS
    <3>2. PICK x \in Seq(Chars) : spelt = b \o x /\ spelt \in Seq(Chars)
      BY <1>3, <3>1
    <3>3. /\ Len(b \o x) = Len(b) + Len(x)
          /\ \A i \in 1 .. Len(b) + Len(x) :
                (b \o x)[i] = IF i <= Len(b) THEN b[i] ELSE x[i - Len(b)]
      BY ConcatProperties
    <3>4. Len(b) <= Len(spelt) /\ \A i \in 1 .. Len(b) : b[i] = spelt[i]
      <4>1. PICK n \in Nat, m \in Nat : n = Len(b) /\ m = Len(x)
        OBVIOUS
      <4>2. \A i \in 1 .. n : i \in 1 .. n + m /\ i <= n
        BY <4>1
      <4> QED
        BY <3>2, <3>3, <4>1, <4>2
    <3>5. IsPrefix(b, spelt)
      BY <3>2, <3>4, PrefixIs
    <3> QED
      BY <2>2, <2>3, <3>1, <3>5
  <2> QED
    BY <2>1, <2>3 DEF TriedLetters
<1>5. CASE prefix # Stuck
  <2>1. AllowedLetters(dict, before, after)
          = {l \in Letters : AtWord(WalkFrom(dict, prefix, <<l>> \o after))}
    BY <1>1, <1>5, Zenon DEF AllowedLetters, LettersFrom
  <2>2. \A l \in Letters : AtWord(WalkFrom(dict, prefix, <<l>> \o after))
                             <=> Spelling(before \o <<l>> \o after) \in words
    BY <1>3, Zenon DEF AtWord
  <2> QED
    BY <2>1, <2>2, Zenon DEF TriedLetters
<1> QED
  BY <1>4, <1>5

\* The dictionary finds the words.
THEOREM DictionaryFinds ==
    ASSUME NEW words, NEW maxLeaf, NEW maxScan, Indexable(words, maxLeaf), NEW longest
    PROVE  FindsTheWords(Dictionary(words, maxLeaf, maxScan), words, longest)
<1>1. PICK dict : dict = Dictionary(words, maxLeaf, maxScan)
  OBVIOUS
<1>2. PICK edges : Built(dict, edges, words)
  BY <1>1, BuiltIs
<1>3. ASSUME NEW letters \in Spellings(longest), Len(Spelling(letters)) >= 2
      PROVE  /\ Walk(dict, letters) # Stuck <=> \E w \in words : IsPrefix(Spelling(letters), w)
             /\ HasWord(dict, letters) <=> Spelling(letters) \in words
  <2>1. letters \in Seq(Letters)
    BY SpellingsAre
  <2>2. PICK s : s = Walk(dict, letters)
    OBVIOUS
  <2>3. PICK p \in Seq(Chars) : p = Spelling(letters) /\ Leads(s, dict, edges, words, p)
    BY <1>2, <2>1, <2>2, StartLeads
  <2>4. /\ Len(p) >= 2 => (s # Stuck <=> \E w \in words : IsPrefix(p, w))
        /\ (s # Stuck /\ s.isWord) <=> p \in words
    BY <1>2, <2>3, LeadsSay
  <2>5. HasWord(dict, letters) <=> s # Stuck /\ s.isWord
    BY <1>3, <2>2, Zenon DEF HasWord, Spells, AtWord
  <2> QED
    BY <1>3, <2>2, <2>3, <2>4, <2>5, Zenon
<1>4. ASSUME NEW letters \in Spellings(longest), NEW k \in DOMAIN letters
      PROVE  LET before == SubSeq(letters, 1, k - 1)
                 after == SubSeq(letters, k + 1, Len(letters))
             IN  AllowedLetters(dict, before, after) = TriedLetters(words, before, after)
  <2>1. letters \in Seq(Letters)
    BY SpellingsAre
  <2>2. PICK n \in Nat : n = Len(letters) /\ k \in 1 .. n
    BY <2>1
  <2>3. /\ \A i \in 1 .. k - 1 : letters[i] \in Letters
        /\ \A i \in k + 1 .. n : letters[i] \in Letters
    BY <2>1, <2>2
  <2>4. SubSeq(letters, 1, k - 1) \in Seq(Letters) /\ SubSeq(letters, k + 1, n) \in Seq(Letters)
    <3>1. PICK a \in Int, b \in Int : a = k - 1 /\ b = k + 1
      BY <2>2
    <3>2. SubSeq(letters, 1, a) \in Seq(Letters)
      BY <2>3, <3>1, SubSeqProperties
    <3>3. SubSeq(letters, b, n) \in Seq(Letters)
      BY <2>3, <3>1, SubSeqProperties
    <3> QED
      BY <3>1, <3>2, <3>3
  <2>5. PICK before \in Seq(Letters), after \in Seq(Letters) :
           before = SubSeq(letters, 1, k - 1) /\ after = SubSeq(letters, k + 1, n)
    BY <2>4
  <2>6. AllowedLetters(dict, before, after) = TriedLetters(words, before, after)
    BY <1>2, AllowedAreTried
  <2> QED
    BY <2>2, <2>5, <2>6
<1>5. FindsTheWords(dict, words, longest)
  BY <1>3, <1>4, Zenon DEF FindsTheWords
<1> QED
  BY <1>1, <1>5

\* The steps of the reference's walk.
SortedSteps(g, dict, chars, n) ==
    g = [k \in 0 .. n |->
           IF k = 0 THEN Stepped(Within(1, Len(dict.arena), 0), FALSE)
           ELSE IF g[k - 1] = Stuck THEN Stuck
           ELSE NarrowTo(dict, g[k - 1].cursor,
                         Bisected(dict, g[k - 1].cursor, Place(chars[k])))]

LEMMA SortedStepsExist ==
    ASSUME NEW dict, NEW chars, NEW m \in Nat
    PROVE  \E g : SortedSteps(g, dict, chars, m)
<1> DEFINE start == Stepped(Within(1, Len(dict.arena), 0), FALSE)
           next(s, k) == IF s = Stuck THEN Stuck
                         ELSE NarrowTo(dict, s.cursor, Bisected(dict, s.cursor, Place(chars[k])))
           missing == {n \in Nat : ~ \E g : SortedSteps(g, dict, chars, n)}
<1>1. \A n : \A g : SortedSteps(g, dict, chars, n)
                      <=> g = [k \in 0 .. n |-> IF k = 0 THEN start ELSE next(g[k - 1], k)]
  BY DEF SortedSteps
<1>2. 0 \notin missing
  <2>1. PICK g : g = [k \in 0 .. 0 |-> start]
    OBVIOUS
  <2>2. \A k \in 0 .. 0 : k = 0
    OBVIOUS
  <2>3. g = [k \in 0 .. 0 |-> IF k = 0 THEN start ELSE next(g[k - 1], k)]
    <3> HIDE DEF next, start
    <3> QED
      BY <2>1, <2>2
  <2> QED
    BY <1>1, <2>3
<1>3. ASSUME NEW n \in Nat, n \notin missing PROVE n + 1 \notin missing
  <2>1. PICK g : SortedSteps(g, dict, chars, n)
    BY <1>3
  <2> HIDE DEF next, start
  <2>2. PICK h : h = [k \in 0 .. n + 1 |-> IF k = 0 THEN start ELSE next(g[k - 1], k)]
    OBVIOUS
  <2>3. \A k \in 0 .. n : g[k] = IF k = 0 THEN start ELSE next(g[k - 1], k)
    BY <1>1, <2>1
  <2>4. \A k \in 0 .. n : g[k] = h[k]
    BY <2>2, <2>3
  <2>5. \A k \in 0 .. n + 1 : k # 0 => g[k - 1] = h[k - 1]
    BY <2>4
  <2>6. h = [k \in 0 .. n + 1 |-> IF k = 0 THEN start ELSE next(h[k - 1], k)]
    BY <2>2, <2>5
  <2>7. SortedSteps(h, dict, chars, n + 1)
    BY <1>1, <2>6
  <2> QED
    BY <2>7
<1>4. missing = {}
  <2>1. missing \subseteq Nat
    OBVIOUS
  <2> HIDE DEF missing
  <2> QED
    BY <1>2, <1>3, <2>1, FromZeroOn
<1> QED
  BY <1>4

LEMMA SortedWalkIs ==
    ASSUME NEW dict, NEW letters, NEW chars, chars = Spelling(letters), NEW n \in Nat,
           n = Len(chars)
    PROVE  \E g : SortedSteps(g, dict, chars, n) /\ SortedWalk(dict, letters) = g[n]
<1>1. PICK g : g = CHOOSE f : SortedSteps(f, dict, chars, n)
  OBVIOUS
<1>2. SortedSteps(g, dict, chars, n)
  BY <1>1, SortedStepsExist
<1>3. SortedWalk(dict, letters) = g[n]
  BY <1>1, Zenon DEF SortedWalk, SortedOn, SortedSteps
<1> QED
  BY <1>2, <1>3

\* The characters up to a place and one more.
LEMMA FrontIs ==
    ASSUME NEW w \in Seq(Chars), NEW k \in 0 .. Len(w) - 1
    PROVE  /\ SubSeq(w, 1, k) \in Seq(Chars) /\ w[k + 1] \in Chars
           /\ SubSeq(w, 1, k + 1) = Append(SubSeq(w, 1, k), w[k + 1])
<1>1. PICK n \in Nat : n = Len(w)
  OBVIOUS
<1>2. k \in 0 .. n - 1 /\ \A i \in 1 .. n : w[i] \in Chars
  BY <1>1
<1>3. PICK p, q, c : p = SubSeq(w, 1, k) /\ q = SubSeq(w, 1, k + 1) /\ c = w[k + 1]
  OBVIOUS
<1>4. p \in Seq(Chars) /\ Len(p) = k /\ \A i \in 1 .. k : p[i] = w[i]
  <2>1. k \in Nat /\ \A i \in 1 .. k : w[i] \in Chars
    BY <1>1, <1>2
  <2> QED
    BY <1>3, <2>1
<1>5. q \in Seq(Chars) /\ Len(q) = k + 1 /\ \A i \in 1 .. k + 1 : q[i] = w[i]
  <2>1. k + 1 \in Nat /\ \A i \in 1 .. k + 1 : w[i] \in Chars
    BY <1>1, <1>2
  <2> QED
    BY <1>3, <2>1
<1>6. c \in Chars
  BY <1>2, <1>3
<1>7. PICK a : a = Append(p, c)
  OBVIOUS
<1>8. a \in Seq(Chars) /\ Len(a) = k + 1 /\ a[k + 1] = c /\ \A i \in 1 .. k : a[i] = p[i]
  BY <1>4, <1>6, <1>7
<1>9. \A i \in 1 .. k + 1 : q[i] = a[i]
  BY <1>3, <1>4, <1>5, <1>8
<1>10. q = a
  BY <1>5, <1>8, <1>9
<1> QED
  BY <1>3, <1>4, <1>6, <1>7, <1>10

\* So does the list that is bisected at every character.
THEOREM SortedListFinds ==
    ASSUME NEW dict, NEW words, Sorted(dict.arena, words), NEW longest
    PROVE  ReferenceFinds(dict, words, longest)
<1>1. SUFFICES ASSUME NEW letters \in Spellings(longest)
               PROVE  \A s \in {SortedWalk(dict, letters)} :
                          LET p == Spelling(letters)
                          IN  /\ s # Stuck <=> \E w \in words : IsPrefix(p, w)
                              /\ s # Stuck => (s.isWord <=> p \in words)
  BY Zenon DEF ReferenceFinds
<1>2. letters \in Seq(Letters) /\ Len(letters) >= 1
  <2>1. PICK m \in 1 .. longest : letters \in [1 .. m -> Letters]
    BY DEF Spellings
  <2>2. PICK k \in Nat : k = m /\ k >= 1
    BY <2>1
  <2> QED
    BY <2>1, <2>2
<1>3. PICK w \in Seq(Chars), n \in Nat \ {0} : w = Spelling(letters) /\ n = Len(w)
  <2>1. PICK w \in Seq(Chars) : w = Spelling(letters) /\ Len(w) >= Len(letters)
    BY <1>2, SpellingIs
  <2>2. Len(w) \in Nat \ {0}
    <3>1. Len(w) \in Nat /\ Len(letters) \in Nat
      BY <1>2
    <3> QED
      BY <1>2, <2>1, <3>1
  <2> QED
    BY <2>1, <2>2
<1>4. PICK g : SortedSteps(g, dict, w, n) /\ SortedWalk(dict, letters) = g[n]
  BY <1>3, SortedWalkIs
<1>5. \A k \in 0 .. n : g[k] =
         IF k = 0 THEN Stepped(Within(1, Len(dict.arena), 0), FALSE)
         ELSE IF g[k - 1] = Stuck THEN Stuck
         ELSE NarrowTo(dict, g[k - 1].cursor, Bisected(dict, g[k - 1].cursor, Place(w[k])))
  BY <1>4 DEF SortedSteps
<1> DEFINE front(k) == SubSeq(w, 1, k)
           Says(k) == IF g[k] = Stuck THEN Group(dict.arena, front(k)) = {}
                      ELSE Holds(g[k].cursor, dict.arena, front(k))
           bad == {k \in Nat : k <= n /\ ~Says(k)}
<1>6. 0 \notin bad
  <2>1. PICK m \in Nat : m = Len(dict.arena) /\ DOMAIN dict.arena = 1 .. m
    BY DEF Sorted
  <2>2. PICK c : c = Within(1, m, 0)
    OBVIOUS
  <2>3. g[0] = Stepped(c, FALSE)
    <3>1. 0 \in 0 .. n
      OBVIOUS
    <3> QED
      BY <1>5, <2>1, <2>2, <3>1
  <2>4. g[0] # Stuck /\ g[0].cursor = c
    <3>1. Stepped(c, FALSE) # Stuck /\ Stepped(c, FALSE).cursor = c
      BY SteppedIs
    <3> QED
      BY <2>3, <3>1, Zenon
  <2>5. c.at = "range" /\ c.from = 1 /\ c.len = m /\ c.depth = 0
    BY <2>2 DEF Within
  <2>6. PICK e \in Seq(Chars) : e = front(0) /\ Len(e) = 0
    <3>1. front(0) \in Seq(Chars) /\ Len(front(0)) = 0
      <4>1. PICK a \in Int, b \in Int : a = 1 /\ b = 0
        OBVIOUS
      <4>2. \A i \in a .. b : w[i] \in Chars
        BY <4>1
      <4>3. SubSeq(w, a, b) \in Seq(Chars)
            /\ Len(SubSeq(w, a, b)) = IF a <= b THEN b - a + 1 ELSE 0
        BY <4>2, SubSeqProperties
      <4> QED
        BY <4>1, <4>3
    <3> QED
      BY <3>1
  <2>7. Group(dict.arena, e) = 1 .. 1 + m - 1
    <3>1. \A i : i \in Group(dict.arena, e) <=>
             i \in 1 .. m /\ \A k \in 1 .. 0 : Key(e, k) = Key(dict.arena[i], k)
      <4>1. \A i : i \in Group(dict.arena, e) <=>
               i \in DOMAIN dict.arena /\ \A k \in 1 .. Len(e) : Key(e, k) = Key(dict.arena[i], k)
        BY GroupIs
      <4> QED
        BY <2>1, <2>6, <4>1
    <3>2. \A k \in 1 .. 0 : FALSE
      OBVIOUS
    <3>3. 1 + m - 1 = m
      OBVIOUS
    <3> QED
      BY <3>1, <3>2, <3>3
  <2>8. Holds(c, dict.arena, e)
    BY <2>1, <2>5, <2>6, <2>7 DEF Holds
  <2> HIDE DEF front
  <2> QED
    BY <2>4, <2>6, <2>8
<1>7. ASSUME NEW k \in Nat, k + 1 <= n, Says(k)
      PROVE  /\ Says(k + 1)
             /\ g[k + 1] = Stuck <=> Group(dict.arena, front(k + 1)) = {}
             /\ g[k + 1] # Stuck => (g[k + 1].isWord <=> front(k + 1) \in words)
  <2>1. k \in 0 .. Len(w) - 1
    BY <1>3, <1>7
  <2>2. front(k) \in Seq(Chars) /\ w[k + 1] \in Chars /\ front(k + 1) = Append(front(k), w[k + 1])
    BY <2>1, FrontIs
  <2>3. k + 1 \in 0 .. n /\ k + 1 # 0 /\ (k + 1) - 1 = k
    BY <1>7
  <2>4. g[k + 1] = IF g[k] = Stuck THEN Stuck
                   ELSE NarrowTo(dict, g[k].cursor,
                                 Bisected(dict, g[k].cursor, Place(w[k + 1])))
    BY <1>5, <2>3
  <2>5. PICK s, t : s = g[k] /\ t = g[k + 1]
    OBVIOUS
  <2>6. PICK p \in Seq(Chars), c \in Chars : p = front(k) /\ c = w[k + 1]
    BY <2>2
  <2>7. PICK q : q = front(k + 1) /\ q = Append(p, c)
    BY <2>2, <2>6
  <2>8. t = IF s = Stuck THEN Stuck
            ELSE NarrowTo(dict, s.cursor, Bisected(dict, s.cursor, Place(c)))
    BY <2>4, <2>5, <2>6
  <2>9. IF s = Stuck THEN Group(dict.arena, p) = {} ELSE Holds(s.cursor, dict.arena, p)
    BY <1>7, <2>5, <2>6
  <2> HIDE DEF front
  <2>10. InRange(t, dict.arena, words, q)
    <3>1. CASE s = Stuck
      <4>1. Group(dict.arena, Append(p, c))
              = {i \in Group(dict.arena, p) : Key(dict.arena[i], Len(p) + 1) = Place(c)}
        BY LongerGroup
      <4>2. Group(dict.arena, q) = {} /\ t = Stuck
        BY <2>7, <2>8, <2>9, <3>1, <4>1
      <4> QED
        BY <4>2 DEF InRange
    <3>2. CASE s # Stuck
      <4>1. PICK cursor : cursor = s.cursor /\ Holds(cursor, dict.arena, p)
        BY <2>9, <3>2
      <4>2. PICK found : found = Bisected(dict, cursor, Place(c))
        OBVIOUS
      <4>3. found = Group(dict.arena, Append(p, c))
        BY <4>1, <4>2, BisectedIs
      <4>4. InRange(NarrowTo(dict, cursor, found), dict.arena, words, Append(p, c))
        BY <4>1, <4>3, NarrowedIs
      <4> QED
        BY <2>7, <2>8, <3>2, <4>1, <4>2, <4>4
    <3> QED
      BY <3>1, <3>2
  <2>11. /\ t = Stuck <=> Group(dict.arena, q) = {}
         /\ t # Stuck => (t.isWord <=> q \in words) /\ Holds(t.cursor, dict.arena, q)
    BY <2>10, Zenon DEF InRange
  <2> QED
    BY <2>5, <2>7, <2>11, Zenon
<1>8. bad = {}
  <2>1. bad \subseteq Nat
    OBVIOUS
  <2>2. \A k \in Nat : k \notin bad => k + 1 \notin bad
    <3>1. SUFFICES ASSUME NEW k \in Nat, k \notin bad, k + 1 <= n PROVE Says(k + 1)
      OBVIOUS
    <3>2. k <= n
      BY <3>1
    <3>3. Says(k)
      <4> HIDE DEF Says
      <4> QED
        BY <3>1, <3>2
    <3> HIDE DEF Says
    <3> QED
      BY <1>7, <3>1, <3>3
  <2> HIDE DEF bad
  <2> QED
    BY <1>6, <2>1, <2>2, FromZeroOn
<1>9. n - 1 \in Nat /\ (n - 1) + 1 = n /\ n - 1 <= n
  BY <1>3
<1>10. Says(n - 1)
  <2> HIDE DEF Says
  <2> QED
    BY <1>8, <1>9
<1>11. /\ g[n] = Stuck <=> Group(dict.arena, front(n)) = {}
       /\ g[n] # Stuck => (g[n].isWord <=> front(n) \in words)
  <2> HIDE DEF Says, front
  <2>1. PICK k \in Nat : k = n - 1 /\ k + 1 = n
    BY <1>9
  <2>2. Says(k) /\ k + 1 <= n
    BY <1>10, <2>1
  <2>3. /\ g[k + 1] = Stuck <=> Group(dict.arena, front(k + 1)) = {}
        /\ g[k + 1] # Stuck => (g[k + 1].isWord <=> front(k + 1) \in words)
    BY <1>7, <2>2
  <2> QED
    BY <2>1, <2>3
<1>12. front(n) = w
  BY <1>3
<1>13. Group(dict.arena, w) # {} <=> \E v \in words : IsPrefix(w, v)
  BY GroupIs
<1>14. PICK s : s = g[n] /\ s = SortedWalk(dict, letters)
  BY <1>4
<1>15. /\ s # Stuck <=> \E v \in words : IsPrefix(w, v)
       /\ s # Stuck => (s.isWord <=> w \in words)
  <2> HIDE DEF front
  <2> QED
    BY <1>11, <1>12, <1>13, <1>14, Zenon
<1> QED
  BY <1>3, <1>14, <1>15, Zenon

-----------------------------------------------------------------------------
(* The dictionary: in the rules.                                            *)

\* The dictionary of the rules finds the words of its list, whatever is spelt.
LEMMA DictionaryIsRight == \A n \in Nat : FindsTheList(n)
<1>1. Indexable(Playable, MaxLeafWords)
  BY RulesAssumption, Zenon
<1>2. \A w \in Playable : Len(w) >= 2
  BY <1>1, Zenon DEF Indexable, Spellable
<1>3. \A n \in Nat : FindsTheWords(WordList, Playable, n)
  BY <1>1, DictionaryFinds, Zenon DEF WordList
<1> QED
  BY <1>2, <1>3, Zenon DEF FindsTheList

\* EveryListIsFound: whatever the list and the sizes, in the dictionary and in
\* the reference.
THEOREM ListsAreFound == Spec => []EveryListIsFound
<1>1. \A words : Spellable(words) => ReferenceFinds(Dictionary(words, 1, 0), words, Longest)
  <2>1. ASSUME NEW words, Spellable(words)
        PROVE  ReferenceFinds(Dictionary(words, 1, 0), words, Longest)
    <3>1. PICK dict : dict = Dictionary(words, 1, 0)
      OBVIOUS
    <3>2. dict.arena = Arena(words)
      BY <3>1 DEF Dictionary
    <3>3. Sorted(dict.arena, words)
      BY <2>1, <3>2, ArenaIs
    <3> QED
      BY <3>1, <3>3, SortedListFinds, Zenon
  <2> QED
    BY <2>1
<1>2. \A words, maxLeaf, maxScan : Indexable(words, maxLeaf) =>
         FindsTheWords(Dictionary(words, maxLeaf, maxScan), words, Longest)
  BY DictionaryFinds, Zenon
<1>3. FindsTheList(Longest)
  <2>1. Longest \in Nat
    BY RulesAssumption, Zenon
  <2> QED
    BY <2>1, DictionaryIsRight, Zenon
<1>4. EveryListIsFound
  BY <1>1, <1>2, <1>3, Zenon DEF EveryListIsFound
<1> QED
  BY <1>4, PTL

LEMMA BetweenIs ==
    ASSUME NEW B \in Seq(Letters), NEW A \in Seq(Letters), NEW l \in Letters
    PROVE  LET t == B \o <<l>> \o A
           IN  /\ t \in Seq(Letters) /\ Len(t) = Len(B) + 1 + Len(A)
               /\ \A i \in 1 .. Len(B) : t[i] = B[i]
               /\ t[Len(B) + 1] = l
               /\ \A i \in 1 .. Len(A) : t[Len(B) + 1 + i] = A[i]
<1>1. PICK n \in Nat, m \in Nat : n = Len(B) /\ m = Len(A)
  OBVIOUS
<1>2. PICK o : o = <<l>>
  OBVIOUS
<1>3. o \in Seq(Letters) /\ Len(o) = 1 /\ o[1] = l
  BY <1>2
<1>4. PICK u : u = B \o o
  OBVIOUS
<1>5. /\ u \in Seq(Letters) /\ Len(u) = n + 1
      /\ \A i \in 1 .. n + 1 : u[i] = IF i <= n THEN B[i] ELSE o[i - n]
  <2>1. /\ u \in Seq(Letters) /\ Len(u) = Len(B) + Len(o)
        /\ \A i \in 1 .. Len(B) + Len(o) : u[i] = IF i <= Len(B) THEN B[i] ELSE o[i - Len(B)]
    <3>1. o \in Seq(Letters)
      BY <1>3
    <3> QED
      BY <1>4, <3>1, ConcatProperties, Zenon
  <2> QED
    BY <1>1, <1>3, <2>1
<1>6. PICK t : t = u \o A
  OBVIOUS
<1>7. /\ t \in Seq(Letters) /\ Len(t) = (n + 1) + m
      /\ \A i \in 1 .. (n + 1) + m : t[i] = IF i <= n + 1 THEN u[i] ELSE A[i - (n + 1)]
  <2>1. /\ t \in Seq(Letters) /\ Len(t) = Len(u) + Len(A)
        /\ \A i \in 1 .. Len(u) + Len(A) : t[i] = IF i <= Len(u) THEN u[i] ELSE A[i - Len(u)]
    <3>1. u \in Seq(Letters)
      BY <1>5
    <3> QED
      BY <1>6, <3>1, ConcatProperties, Zenon
  <2> QED
    BY <1>1, <1>5, <2>1
<1>8. \A i \in 1 .. n : t[i] = B[i]
  <2>1. \A i \in 1 .. n : i \in 1 .. n + 1 /\ i \in 1 .. (n + 1) + m /\ i <= n /\ i <= n + 1
    OBVIOUS
  <2> QED
    BY <1>5, <1>7, <2>1
<1>9. t[n + 1] = l
  <2>1. n + 1 \in 1 .. n + 1 /\ n + 1 \in 1 .. (n + 1) + m /\ ~(n + 1 <= n) /\ (n + 1) - n = 1
        /\ n + 1 <= n + 1
    OBVIOUS
  <2> QED
    BY <1>3, <1>5, <1>7, <2>1
<1>10. \A i \in 1 .. m : t[n + 1 + i] = A[i]
  <2>1. \A i \in 1 .. m : /\ n + 1 + i \in 1 .. (n + 1) + m /\ ~(n + 1 + i <= n + 1)
                          /\ (n + 1 + i) - (n + 1) = i
    OBVIOUS
  <2> QED
    BY <1>7, <2>1
<1> QED
  BY <1>1, <1>2, <1>4, <1>6, <1>7, <1>8, <1>9, <1>10

\* The letters allowed between two runs are those that make a word with them.
LEMMA AllowedAre ==
    ASSUME NEW B \in Seq(Letters), NEW A \in Seq(Letters),
           Len(B) + Len(A) >= 1
    PROVE  AllowedLetters(WordList, B, A)
             = {l \in Letters : Spelling(B \o <<l>> \o A) \in Playable}
<1>1. PICK n \in Nat, m \in Nat : n = Len(B) /\ m = Len(A)
  OBVIOUS
<1>2. PICK l \in Letters : TRUE
  <2>1. CASE n >= 1
    <3>1. B[1] \in Letters
      BY <1>1, <2>1
    <3> QED
      BY <3>1
  <2>2. CASE m >= 1
    <3>1. A[1] \in Letters
      BY <1>1, <2>2
    <3> QED
      BY <3>1
  <2> QED
    BY <1>1, <2>1, <2>2
<1>3. PICK t : t = B \o <<l>> \o A
  OBVIOUS
<1>4. /\ t \in Seq(Letters) /\ Len(t) = n + 1 + m
      /\ \A i \in 1 .. n : t[i] = B[i]
      /\ \A i \in 1 .. m : t[n + 1 + i] = A[i]
  <2>1. /\ t \in Seq(Letters) /\ Len(t) = Len(B) + 1 + Len(A)
        /\ \A i \in 1 .. Len(B) : t[i] = B[i]
        /\ \A i \in 1 .. Len(A) : t[Len(B) + 1 + i] = A[i]
    BY <1>3, BetweenIs, ZenonT(40)
  <2> QED
    BY <1>1, <2>1
<1>5. t \in [1 .. n + 1 + m -> Letters] /\ t \in Spellings(n + 1 + m)
      /\ n + 1 \in DOMAIN t
  <2>1. t \in [1 .. n + 1 + m -> Letters] /\ DOMAIN t = 1 .. n + 1 + m
    BY <1>4
  <2>2. n + 1 + m \in 1 .. n + 1 + m /\ n + 1 \in 1 .. n + 1 + m
    OBVIOUS
  <2> QED
    BY <2>1, <2>2 DEF Spellings
<1>6. Len(Spelling(t)) >= 2
  <2>1. Len(Spelling(t)) >= Len(t) /\ Len(Spelling(t)) \in Nat
    BY <1>4, SpellingIs
  <2> QED
    BY <1>1, <1>4, <2>1
<1>7. SubSeq(t, 1, (n + 1) - 1) = B
  <2>1. SubSeq(t, 1, n) \in Seq(Letters) /\ Len(SubSeq(t, 1, n)) = n
        /\ \A i \in 1 .. n : SubSeq(t, 1, n)[i] = t[i]
    BY <1>4
  <2>2. (n + 1) - 1 = n
    OBVIOUS
  <2> QED
    BY <1>1, <1>4, <2>1, <2>2
<1>8. SubSeq(t, (n + 1) + 1, Len(t)) = A
  <2>1. PICK v : v = SubSeq(t, n + 2, n + 1 + m)
    OBVIOUS
  <2>2. v \in Seq(Letters) /\ Len(v) = m /\ \A i \in 1 .. m : v[i] = t[n + 1 + i]
    BY <1>4, <2>1
  <2>3. (n + 1) + 1 = n + 2
    OBVIOUS
  <2> QED
    BY <1>1, <1>4, <2>1, <2>2, <2>3
<1>9. AllowedLetters(WordList, B, A) = TriedLetters(Playable, B, A)
  <2>1. FindsTheWords(WordList, Playable, n + 1 + m)
    BY DictionaryIsRight DEF FindsTheList
  <2>2. \A k \in DOMAIN t :
           AllowedLetters(WordList, SubSeq(t, 1, k - 1), SubSeq(t, k + 1, Len(t)))
             = TriedLetters(Playable, SubSeq(t, 1, k - 1), SubSeq(t, k + 1, Len(t)))
    BY <1>5, <1>6, <2>1, Zenon DEF FindsTheWords
  <2> QED
    BY <1>5, <1>7, <1>8, <2>2
<1> QED
  BY <1>9 DEF TriedLetters

\* A word is found in the list if and only if it is there.
LEMMA FoundIsListed ==
    ASSUME NEW w \in Seq(Chars), Len(w) >= 1
    PROVE  HasWord(WordList, w) <=> w \in Playable
<1>1. Spelling(w) = w
  BY CharsSpell
<1>2. PICK n \in Nat : n = Len(w)
  OBVIOUS
<1>3. CASE n >= 2
  <2>1. w \in Spellings(n)
    <3>1. w \in [1 .. n -> Letters]
      BY <1>2 DEF Chars
    <3>2. n \in 1 .. n
      BY <1>3
    <3> QED
      BY <3>1, <3>2 DEF Spellings
  <2>2. FindsTheWords(WordList, Playable, n)
    BY DictionaryIsRight DEF FindsTheList
  <2> QED
    BY <1>1, <1>2, <1>3, <2>1, <2>2 DEF FindsTheWords
<1>4. CASE ~(n >= 2)
  <2>1. w \notin Playable
    BY <1>2, <1>4, DictionaryIsRight DEF FindsTheList
  <2> QED
    BY <1>1, <1>2, <1>4, <2>1 DEF HasWord
<1> QED
  BY <1>3, <1>4

-----------------------------------------------------------------------------
(* What the check of a square says of a move.                              *)

LEMMA TileIs ==
    ASSUME NEW tile \in AnyTile
    PROVE  tile.letter \in Letters /\ tile.blank \in BOOLEAN /\ tile # Free
           /\ Worth(tile) \in Nat /\ (tile.blank => Worth(tile) = 0)
           /\ (~tile.blank => Worth(tile) = Value[tile.letter])
<1>1. tile \in [letter : Letters, blank : BOOLEAN] /\ "none" \notin Letters
      /\ Value \in [Letters -> Nat]
  BY RulesAssumption DEF AnyTile
<1>2. tile.letter \in Letters /\ tile.blank \in BOOLEAN /\ tile # Free
  BY <1>1 DEF Free
<1> QED
  BY <1>1, <1>2 DEF Worth

LEMMA FilledTile ==
    ASSUME NEW b \in Boards, NEW q, Filled(b, q)
    PROVE  b[q] \in AnyTile
  BY DEF Boards, Filled

LEMMA PremiumsAre ==
    ASSUME NEW p \in Cells
    PROVE  LetterPremium[p] \in Nat /\ WordPremium[p] \in Nat
  BY DEF LetterPremium, WordPremium

\* The word across a tile is what the check was made of, with the tile's letter.
LEMMA AcrossWord ==
    ASSUME NEW s, NEW after, NEW c \in Moves, Put(s, after, c), NEW p \in Placed(c),
           s.board \in Boards
    PROVE  LET e == Perpendicular(c.direction)
               B == LettersBefore(s.board, p, e)
               A == LettersAfter(s.board, p, e)
           IN  /\ B \in Seq(Letters) /\ Len(B) = Before(s.board, p, e)
               /\ A \in Seq(Letters) /\ Len(A) = After(s.board, p, e)
               /\ WordAt(after, p, e) = Spelling(B \o <<Laid(c)[p].letter>> \o A)
<1>1. PICK e : e = Perpendicular(c.direction)
  OBVIOUS
<1>2. PICK b \in Boards : b = s.board
  OBVIOUS
<1>3. PICK n \in Nat, m \in Nat :
        /\ n = Before(b, p, e) /\ m = After(b, p, e)
        /\ Before(after, p, e) = n /\ After(after, p, e) = m
        /\ \A k \in -n .. m :
              k # 0 => /\ Filled(b, Step(p, e, k))
                       /\ after[Step(p, e, k)] = b[Step(p, e, k)]
  BY <1>1, <1>2, AcrossIs
<1>4. \A k \in -n .. m : k # 0 => b[Step(p, e, k)].letter \in Letters
  BY <1>3, FilledTile, TileIs
<1>5. PICK B : B = LettersBefore(b, p, e)
  OBVIOUS
<1>6. PICK A : A = LettersAfter(b, p, e)
  OBVIOUS
<1>7. /\ B \in Seq(Letters) /\ Len(B) = n
      /\ \A i \in 1 .. n : B[i] = b[Step(p, e, i - n - 1)].letter
  <2>1. B = [i \in 1 .. n |-> b[Step(p, e, i - n - 1)].letter]
    BY <1>3, <1>5 DEF LettersBefore
  <2>2. \A i \in 1 .. n : i - n - 1 \in -n .. m /\ i - n - 1 # 0
    OBVIOUS
  <2>3. \A i \in 1 .. n : b[Step(p, e, i - n - 1)].letter \in Letters
    BY <1>4, <2>2
  <2> QED
    BY <2>1, <2>3
<1>8. /\ A \in Seq(Letters) /\ Len(A) = m
      /\ \A i \in 1 .. m : A[i] = b[Step(p, e, i)].letter
  <2>1. A = [i \in 1 .. m |-> b[Step(p, e, i)].letter]
    BY <1>3, <1>6 DEF LettersAfter
  <2>2. \A i \in 1 .. m : i \in -n .. m /\ i # 0
    OBVIOUS
  <2>3. \A i \in 1 .. m : b[Step(p, e, i)].letter \in Letters
    BY <1>4, <2>2
  <2> QED
    BY <2>1, <2>3
<1>9. p \in Cells /\ after[p] = Laid(c)[p]
  BY FilledAfter DEF Put, OnBoard
<1>10. PICK l \in Letters : l = Laid(c)[p].letter /\ after[p].letter = l
  BY <1>9, TilesLaid, TileIs
<1>11. PICK t : t = B \o <<l>> \o A
  OBVIOUS
<1>12. /\ t \in Seq(Letters) /\ Len(t) = n + 1 + m
       /\ \A i \in 1 .. n : t[i] = B[i]
       /\ t[n + 1] = l
       /\ \A i \in 1 .. m : t[n + 1 + i] = A[i]
  <2>1. /\ t \in Seq(Letters) /\ Len(t) = Len(B) + 1 + Len(A)
        /\ \A i \in 1 .. Len(B) : t[i] = B[i]
        /\ t[Len(B) + 1] = l
        /\ \A i \in 1 .. Len(A) : t[Len(B) + 1 + i] = A[i]
    BY <1>7, <1>8, <1>11, BetweenIs, ZenonT(40)
  <2> QED
    BY <1>7, <1>8, <2>1
<1>13. ASSUME NEW i \in 1 .. n + 1 + m
       PROVE  t[i] = after[Step(p, e, i - n - 1)].letter
  <2>1. CASE i <= n
    <3>1. i \in 1 .. n /\ i - n - 1 \in -n .. m /\ i - n - 1 # 0
      BY <2>1
    <3> QED
      BY <1>3, <1>7, <1>12, <3>1
  <2>2. CASE i = n + 1
    <3>1. i - n - 1 = 0 /\ Step(p, e, 0) = p
      BY <1>9, <2>2, CellsAreSquares, Steps
    <3> QED
      BY <1>10, <1>12, <2>2, <3>1
  <2>3. CASE i > n + 1
    <3>1. PICK k \in 1 .. m : k = i - n - 1 /\ n + 1 + k = i
      <4>1. i - n - 1 \in 1 .. m /\ n + 1 + (i - n - 1) = i
        BY <2>3
      <4> QED
        BY <4>1
    <3>2. k \in -n .. m /\ k # 0
      OBVIOUS
    <3>3. t[i] = A[k]
      BY <1>12, <3>1
    <3>4. A[k] = after[Step(p, e, k)].letter
      BY <1>3, <1>8, <3>2
    <3> QED
      BY <3>1, <3>3, <3>4
  <2> QED
    BY <2>1, <2>2, <2>3
<1>14. t = Line(after, p, e, n, m)
  <2>1. t = [i \in 1 .. n + 1 + m |-> t[i]]
    BY <1>12
  <2> QED
    BY <1>13, <2>1 DEF Line
<1>15. WordAt(after, p, e) = Spelling(t)
  BY <1>3, <1>9, <1>14, WordIs
<1> QED
  BY <1>1, <1>2, <1>3, <1>5, <1>6, <1>7, <1>8, <1>10, <1>11, <1>15

\* What the tiles of a run beside p are worth.
Around(b, p, e) == Total([q \in Run(b, p, e) \ {p} |-> Worth(b[q])])

LEMMA CheckSays ==
    ASSUME NEW s, NEW after, NEW c \in Moves, Put(s, after, c),
           NEW p \in Placed(c), s.board \in Boards
    PROVE  LET e == Perpendicular(c.direction)
               check == CrossCheck(s.board, p, c.direction)
               tile == Laid(c)[p]
               crossed == Cardinality(Run(after, p, e)) >= 2
           IN  /\ Allows(check, tile.letter) <=> (crossed => WordAt(after, p, e) \in Playable)
               /\ ~crossed => CrossScore(check, tile) = 0
               /\ crossed /\ Allows(check, tile.letter) =>
                     CrossScore(check, tile)
                       = IF tile.blank THEN Around(s.board, p, e) * WordPremium[p]
                         ELSE (Around(s.board, p, e) + Value[tile.letter] * LetterPremium[p])
                                 * WordPremium[p]
<1>1. PICK e : e = Perpendicular(c.direction)
  OBVIOUS
<1>2. PICK b \in Boards : b = s.board
  OBVIOUS
<1>3. p \in Cells /\ p \in Squares /\ ~Filled(b, p)
  BY <1>2, CellsAreSquares DEF Put
<1>4. PICK tile \in AnyTile : tile = Laid(c)[p]
  BY TilesLaid
<1>5. tile.letter \in Letters /\ tile.blank \in BOOLEAN
  BY TileIs
<1>6. PICK n \in Nat, m \in Nat :
        /\ n = Before(b, p, e) /\ m = After(b, p, e)
        /\ Run(after, p, e) = Run(b, p, e)
  BY <1>1, <1>2, AcrossIs
<1>7. PICK B \in Seq(Letters), A \in Seq(Letters) :
        /\ B = LettersBefore(b, p, e) /\ A = LettersAfter(b, p, e)
        /\ Len(B) = n /\ Len(A) = m
        /\ WordAt(after, p, e) = Spelling(B \o <<tile.letter>> \o A)
  BY <1>1, <1>2, <1>4, <1>6, AcrossWord
<1>8. PICK others, allowed, around, crossed, check :
        /\ others = Run(b, p, e) \ {p} /\ allowed = AllowedLetters(WordList, B, A)
        /\ around = Around(b, p, e) /\ crossed = (Cardinality(Run(after, p, e)) >= 2)
        /\ check = CrossCheck(b, p, c.direction)
  OBVIOUS
<1>9. check = CheckOf(p, TRUE, others, allowed, around)
  <2>1. check = CheckOf(p, ~Filled(b, p), Run(b, p, e) \ {p},
                        AllowedLetters(WordList, LettersBefore(b, p, e), LettersAfter(b, p, e)),
                        Total([q \in Run(b, p, e) \ {p} |-> Worth(b[q])]))
    BY <1>1, <1>8, CrossCheckIs
  <2>2. ~Filled(b, p) = TRUE
    BY <1>3 DEF Filled
  <2> QED
    BY <1>7, <1>8, <2>1, <2>2, Zenon DEF Around
<1>10. /\ crossed <=> others # {}
       /\ others = {} <=> (n = 0 /\ m = 0)
  <2>1. Run(b, p, e) = Span(p, e, n, m)
    BY <1>3, <1>6, WordIs
  <2> QED
    <3>1. PICK R : R = Span(p, e, n, m)
      OBVIOUS
    <3>2. /\ Cardinality(R) >= 2 <=> R \ {p} # {}
          /\ R \ {p} = {} <=> (n = 0 /\ m = 0)
      BY <1>3, <3>1, SpanIs
    <3>3. others = R \ {p} /\ (crossed <=> Cardinality(R) >= 2)
      BY <1>6, <1>8, <2>1, <3>1, Zenon
    <3> QED
      BY <3>2, <3>3, Zenon
<1>11. CASE others = {}
  <2>1. check = Unconstrained
    BY <1>9, <1>11 DEF CheckOf
  <2>2. Allows(check, tile.letter) /\ CrossScore(check, tile) = 0
    BY <1>5, <2>1 DEF Unconstrained, Allows, CrossScore
  <2> QED
    BY <1>1, <1>2, <1>4, <1>8, <1>10, <1>11, <2>2
<1>12. CASE others # {}
  <2>1. allowed = {l \in Letters : Spelling(B \o <<l>> \o A) \in Playable}
    <3>1. Len(B) + Len(A) >= 1
      BY <1>7, <1>10, <1>12
    <3> QED
      BY <1>8, <3>1, AllowedAre
  <2>2. check = [constrained |-> TRUE,
                 allowed |-> allowed,
                 scores |-> [l \in Letters |->
                                IF l \in allowed
                                THEN (around + Value[l] * LetterPremium[p]) * WordPremium[p]
                                ELSE 0],
                 blankScore |-> around * WordPremium[p]]
    BY <1>9, <1>12 DEF CheckOf
  <2>3. Allows(check, tile.letter) <=> WordAt(after, p, e) \in Playable
    BY <1>5, <1>7, <2>1, <2>2 DEF Allows
  <2>4. Allows(check, tile.letter) =>
           CrossScore(check, tile)
             = IF tile.blank THEN around * WordPremium[p]
               ELSE (around + Value[tile.letter] * LetterPremium[p]) * WordPremium[p]
    BY <1>5, <2>2, Zenon DEF Allows, CrossScore
  <2> QED
    BY <1>1, <1>2, <1>4, <1>8, <1>10, <1>12, <2>3, <2>4
<1> QED
  BY <1>11, <1>12

-----------------------------------------------------------------------------
(* A move is valid if and only if it is legal.                             *)

LEMMA CountPlaced ==
    ASSUME NEW c \in Moves
    PROVE  IsFiniteSet(Placed(c)) /\ Cardinality(Placed(c)) = Cardinality(DOMAIN c.tiles)
<1>1. PICK D : D = DOMAIN c.tiles
  OBVIOUS
<1>0. PICK f, d, lo : f = FirstSquare(c) /\ d = c.direction /\ lo = Min(DOMAIN c.tiles)
  OBVIOUS
<1>2. /\ IsFiniteSet(D) /\ \A o \in D : o \in Nat
      /\ lo \in Nat /\ f \in Squares
      /\ \A o \in D : At(c, o) = Step(f, d, o - lo)
  <2>1. IsFiniteSet(D) /\ lo \in Nat /\ \A o \in D : o \in Nat
    BY <1>0, <1>1, CandidateIs
  <2>2. f \in Squares /\ \A o \in Int : At(c, o) = Step(f, d, o - lo)
    BY <1>0, PlacedIs
  <2> QED
    BY <2>1, <2>2
<1>3. PICK g : g = [o \in D |-> At(c, o)]
  OBVIOUS
<1>4. \A x, y \in D : g[x] = g[y] => x = y
  <2>1. SUFFICES ASSUME NEW x \in D, NEW y \in D, g[x] = g[y] PROVE x = y
    OBVIOUS
  <2>2. x \in Nat /\ y \in Nat /\ Step(f, d, x - lo) = Step(f, d, y - lo)
    BY <1>2, <1>3, <2>1
  <2>3. x - lo = y - lo
    BY <1>2, <2>2, StepsDiffer
  <2> QED
    BY <1>2, <2>2, <2>3
<1>5. PICK P : P = Placed(c)
  OBVIOUS
<1>6. g \in [D -> P] /\ \A p \in P : \E o \in D : g[o] = p
  BY <1>1, <1>3, <1>5 DEF Placed
<1>7. g \in Bijection(D, P)
  BY <1>4, <1>6 DEF Bijection, Injection, Surjection, IsInjective
<1>8. ExistsBijection(D, P)
  BY <1>7 DEF ExistsBijection
<1> QED
  BY <1>1, <1>2, <1>5, <1>8, FS_Bijection

LEMMA FreeIsPut ==
    ASSUME NEW s, s.board \in Boards, NEW c \in Moves, OnFreeSquares(s, c)
    PROVE  Put(s, Filling(s, c), c)
<1>1. ASSUME NEW p \in Placed(c)
      PROVE  p \in Cells /\ ~Filled(s.board, p) /\ Filled(Filling(s, c), p)
  <2>1. p \in Cells /\ ~Filled(s.board, p)
    BY DEF OnFreeSquares
  <2>2. Filling(s, c)[p] = Laid(c)[p]
    BY <2>1 DEF Filling, OnBoard
  <2>3. Laid(c)[p] # Free
    BY TilesLaid, TileIs
  <2> QED
    BY <2>1, <2>2, <2>3 DEF Filled
<1> QED
  BY <1>1 DEF Put

\* The main word is spelt with characters.
LEMMA MainIsSpelt ==
    ASSUME NEW s, NEW after \in Boards, NEW c \in Moves, Put(s, after, c), Solid(s, c)
    PROVE  MainWord(s, c) \in Seq(Chars) /\ Len(MainWord(s, c)) >= 1
<1>0. PICK f, d, n, m : /\ f = FirstSquare(c) /\ d = c.direction
                        /\ n = Before(after, f, d) /\ m = After(after, f, d)
  OBVIOUS
<1>1. /\ f \in Cells /\ n \in Nat /\ m \in Nat
      /\ MainWord(s, c) = WordAt(after, f, d)
      /\ \A k \in -n .. m : Filled(after, Step(f, d, k))
  BY <1>0, MainIs
<1>2. PICK t : t = Line(after, f, d, n, m)
  OBVIOUS
<1>3. \A i \in 1 .. n + 1 + m : after[Step(f, d, i - n - 1)].letter \in Letters
  <2>1. \A i \in 1 .. n + 1 + m : i - n - 1 \in -n .. m
    BY <1>1
  <2> QED
    BY <1>1, <2>1, FilledTile, TileIs
<1>4. t \in Seq(Letters) /\ Len(t) = n + 1 + m
  BY <1>1, <1>2, <1>3 DEF Line
<1>5. MainWord(s, c) = Spelling(t)
  BY <1>0, <1>1, <1>2, WordIs
<1>6. /\ Spelling(t) \in Seq(Chars) /\ Len(Spelling(t)) >= Len(t)
  BY <1>4, SpellingIs
<1>7. Len(Spelling(t)) \in Nat
  BY <1>6
<1> QED
  BY <1>1, <1>4, <1>5, <1>6, <1>7

\* Along the move, every tile is in the main word.
LEMMA AlongIsMain ==
    ASSUME NEW s, NEW after, NEW c \in Moves, Put(s, after, c), Straight(after, c),
           NEW p \in Placed(c)
    PROVE  WordAt(after, p, c.direction) = WordAt(after, FirstSquare(c), c.direction)
<1>0. PICK f, d, lo : f = FirstSquare(c) /\ d = c.direction /\ lo = Min(DOMAIN c.tiles)
  OBVIOUS
<1>1. /\ f = FirstSquare(c) /\ d = c.direction /\ lo \in Nat
      /\ f \in Placed(c) /\ f \in Squares
      /\ \A o \in DOMAIN c.tiles : o \in Nat /\ lo <= o
      /\ \A q \in Placed(c) : \E o \in DOMAIN c.tiles : q = Step(f, d, o - lo)
  <2>1. lo \in Nat /\ \A o \in DOMAIN c.tiles : o \in Nat /\ lo <= o
    BY <1>0, CandidateIs
  <2> QED
    BY <1>0, <2>1, PlacedIs
<1>2. f \in Cells /\ Filled(after, f)
  BY <1>1 DEF Put
<1>3. PICK n \in Nat, m \in Nat : n = Before(after, f, d) /\ m = After(after, f, d)
  BY <1>2, RunEndsThere
<1>4. PICK o \in DOMAIN c.tiles : p = Step(f, d, o - lo) /\ o \in Nat /\ lo <= o
  BY <1>1
<1>5. PICK k \in -n .. m : p = Step(f, d, k)
  BY <1>1, <1>3 DEF Straight, Run
<1>6. o - lo = k
  <2>1. o - lo \in Int /\ k \in Int
    BY <1>1, <1>3, <1>4
  <2> QED
    BY <1>1, <1>4, <1>5, <2>1, StepsDiffer
<1>7. k \in 0 .. m
  BY <1>1, <1>3, <1>4, <1>6
<1> QED
  BY <1>1, <1>2, <1>3, <1>5, <1>7, WordFromWithin

LEMMA ValidIsLegal ==
    ASSUME IInv, NEW c \in Moves
    PROVE  Valid(Here, c) <=> Legal(c)
<1>1. PICK after : after = Filling(Here, c)
  OBVIOUS
<1>2. Here.board = board /\ Here.cross = cross /\ Here.anchor = anchor
  BY DEF Here
<1>3. board \in Boards /\ after \in Boards
  BY <1>1, FillingIs DEF IInv
<1>4. OnFreeSquares(Here, c) <=> Placed(c) \subseteq Cells /\ \A p \in Placed(c) : board[p] = Free
  BY <1>2 DEF OnFreeSquares, Filled
<1>5. SUFFICES ASSUME OnFreeSquares(Here, c) PROVE Valid(Here, c) <=> Legal(c)
  BY <1>4 DEF Valid, Legal
<1>6. Put(Here, after, c)
  BY <1>1, <1>2, <1>3, <1>5, FreeIsPut
<1>7. PICK f, d, e : f = FirstSquare(c) /\ d = c.direction /\ e = Perpendicular(d)
  OBVIOUS
<1>8. Solid(Here, c) <=> Straight(after, c)
  BY <1>6, SolidIsStraight
<1>9. FitsRack(c) <=> Cardinality(Placed(c)) <= RackSize
  BY CountPlaced DEF FitsRack
<1>10. Connects(Here, c) /\ OpensLongEnough(Here, c)
         <=> IF HasTiles(board) THEN \E p \in Placed(c) : Touches(board, p)
             ELSE Center \in Placed(c) /\ Cardinality(Placed(c)) >= 2
  <2>1. \A p \in Placed(c) : anchor[p] <=> IF HasTiles(board) THEN Touches(board, p) ELSE p = Center
    <3>1. anchor = Anchors(board)
      BY DEF IInv
    <3>2. \A p \in Placed(c) : p \in Cells /\ ~Filled(board, p)
      BY <1>2, <1>5 DEF OnFreeSquares
    <3> QED
      BY <3>1, <3>2 DEF Anchors
  <2>2. Connects(Here, c) <=> \E p \in Placed(c) : anchor[p]
    BY <1>2 DEF Connects
  <2>3. OpensLongEnough(Here, c) <=> HasTiles(board) \/ Cardinality(Placed(c)) >= 2
    BY <1>2 DEF OpensLongEnough
  <2> QED
    BY <2>1, <2>2, <2>3
<1>11. ASSUME Solid(Here, c)
       PROVE  HasWord(WordList, MainWord(Here, c)) <=> WordAt(after, f, d) \in Playable
  <2>1. MainWord(Here, c) = WordAt(after, f, d)
    BY <1>6, <1>7, <1>11, MainIs
  <2>2. MainWord(Here, c) \in Seq(Chars) /\ Len(MainWord(Here, c)) >= 1
    BY <1>3, <1>6, <1>11, MainIsSpelt
  <2> QED
    BY <2>1, <2>2, FoundIsListed
<1>12. ASSUME NEW p \in Placed(c)
       PROVE  Allows(Here.cross[p][d], Laid(c)[p].letter)
                <=> (Cardinality(Run(after, p, e)) >= 2 => WordAt(after, p, e) \in Playable)
  <2>1. d \in Directions
    BY <1>7, CandidateIs
  <2>2. Here.cross[p][d] = CrossCheck(board, p, d)
    BY <1>2, <1>4, <1>5, <2>1 DEF IInv, CacheIsExact
  <2> QED
    BY <1>2, <1>3, <1>6, <1>7, <2>2, CheckSays
<1>13. Directions = {d, e}
  <2>1. d \in Directions
    BY <1>7, CandidateIs
  <2> QED
    BY <1>7, <2>1 DEF Directions, Perpendicular
<1>14. ASSUME Straight(after, c), WordAt(after, f, d) \in Playable
       PROVE  \A p \in Placed(c) : WordAt(after, p, d) \in Playable
  BY <1>6, <1>7, <1>14, AlongIsMain
<1>15. Legal(c) <=>
         /\ FitsRack(c) /\ Connects(Here, c) /\ OpensLongEnough(Here, c)
         /\ Straight(after, c) /\ WordAt(after, f, d) \in Playable
         /\ \A p \in Placed(c), g \in Directions :
               Cardinality(Run(after, p, g)) >= 2 => WordAt(after, p, g) \in Playable
  BY <1>1, <1>4, <1>5, <1>7, <1>9, <1>10, Zenon DEF Legal
<1>16. Valid(Here, c) <=>
         /\ FitsRack(c) /\ Connects(Here, c) /\ OpensLongEnough(Here, c)
         /\ Solid(Here, c) /\ HasWord(WordList, MainWord(Here, c))
         /\ \A p \in Placed(c) : Allows(Here.cross[p][d], Laid(c)[p].letter)
  BY <1>5, <1>7 DEF Valid
<1> QED
  BY <1>8, <1>11, <1>12, <1>13, <1>14, <1>15, <1>16

-----------------------------------------------------------------------------
(* The score.                                                              *)

\* What the squares of a run are worth, and what of them is.
Terms(after, c, R) ==
    [p \in R |-> Worth(after[p]) * IF p \in Placed(c) THEN LetterPremium[p] ELSE 1]
Worths(b, R) == [q \in R |-> Worth(b[q])]

LEMMA WordScoreIs ==
    ASSUME NEW after, NEW c, NEW R
    PROVE  WordScore(after, c, R)
             = Sum(Terms(after, c, R), R)
                 * Multiplied([p \in R \cap Placed(c) |-> WordPremium[p]])
<1>1. PICK t : t = Terms(after, c, R)
  OBVIOUS
<1>2. t = [p \in R |-> Worth(after[p]) * IF p \in Placed(c) THEN LetterPremium[p] ELSE 1]
      /\ t = [p \in R |-> t[p]]
  BY <1>1 DEF Terms
<1>3. Sum(t, R) = Total(t)
  BY <1>2 DEF Sum
<1> QED
  BY <1>1, <1>2, <1>3, Zenon DEF WordScore

LEMMA TermsAre ==
    ASSUME NEW after \in Boards, NEW c, NEW R, \A p \in R : Filled(after, p)
    PROVE  \A p \in R : /\ Terms(after, c, R)[p] \in Nat
                        /\ Terms(after, c, R)[p]
                             = Worth(after[p]) * IF p \in Placed(c) THEN LetterPremium[p] ELSE 1
                        /\ Worth(after[p]) \in Nat
<1> SUFFICES ASSUME NEW p \in R
             PROVE  /\ Terms(after, c, R)[p] \in Nat
                    /\ Terms(after, c, R)[p]
                         = Worth(after[p]) * IF p \in Placed(c) THEN LetterPremium[p] ELSE 1
                    /\ Worth(after[p]) \in Nat
  OBVIOUS
<1>1. PICK x, y \in Nat : x = Worth(after[p]) /\ y = IF p \in Placed(c) THEN LetterPremium[p] ELSE 1
  BY FilledTile, TileIs, PremiumsAre DEF Filled
<1>2. Terms(after, c, R)[p] = x * y
  BY <1>1 DEF Terms
<1>3. x * y \in Nat
  OBVIOUS
<1> QED
  BY <1>1, <1>2, <1>3

\* The word across a tile scores what its run is worth with the tile.
LEMMA AcrossScore ==
    ASSUME NEW s, NEW after \in Boards, NEW c \in Moves, Put(s, after, c),
           NEW p \in Placed(c), s.board \in Boards
    PROVE  LET e == Perpendicular(c.direction)
               tile == Laid(c)[p]
               score == WordScore(after, c, Run(after, p, e))
           IN  /\ score \in Nat
               /\ score = IF tile.blank THEN Around(s.board, p, e) * WordPremium[p]
                          ELSE (Around(s.board, p, e) + Value[tile.letter] * LetterPremium[p])
                                  * WordPremium[p]
<1>1. PICK e, b : e = Perpendicular(c.direction) /\ b = s.board
  OBVIOUS
<1>2. p \in Cells /\ p \in Squares /\ Filled(after, p)
  BY CellsAreSquares DEF Put
<1>3. PICK tile \in AnyTile : tile = Laid(c)[p] /\ after[p] = tile
  BY <1>2, TilesLaid, FilledAfter DEF OnBoard
<1>4. PICK n \in Nat, m \in Nat :
        /\ n = Before(b, p, e) /\ m = After(b, p, e)
        /\ Run(after, p, e) = Run(b, p, e)
        /\ \A k \in -n .. m :
              k # 0 => /\ Filled(b, Step(p, e, k))
                       /\ Step(p, e, k) \notin Placed(c)
                       /\ after[Step(p, e, k)] = b[Step(p, e, k)]
  BY <1>1, AcrossIs
<1>5. PICK R : R = Run(b, p, e) /\ R = Span(p, e, n, m)
  BY <1>2, <1>4, WordIs
<1>6. PICK Q : Q = R \ {p}
  OBVIOUS
<1>7. /\ IsFiniteSet(R) /\ IsFiniteSet(Q) /\ p \in R
      /\ \A q \in Q : \E k \in -n .. m : k # 0 /\ q = Step(p, e, k)
  BY <1>2, <1>5, <1>6, SpanIs
<1>8. \A q \in Q : Filled(b, q) /\ q \notin Placed(c) /\ after[q] = b[q]
  BY <1>4, <1>7
<1>9. \A q \in R : Filled(after, q)
  BY <1>1, <1>2, <1>6, <1>8, FilledAfter
<1>10. R \cap Placed(c) = {p}
  BY <1>6, <1>7, <1>8
<1>11. PICK t : t = Terms(after, c, R)
  OBVIOUS
<1>12. \A q \in R : /\ t[q] \in Nat /\ Worth(after[q]) \in Nat
                    /\ t[q] = Worth(after[q]) * IF q \in Placed(c) THEN LetterPremium[q] ELSE 1
  BY <1>9, <1>11, TermsAre
<1>13. Sum(t, R) = t[p] + Sum(t, Q)
  BY <1>6, <1>7, <1>12, SumTakes
<1>14. PICK w : w = Worths(b, Q)
  OBVIOUS
<1>15. \A q \in Q : w[q] \in Nat /\ t[q] = w[q]
  <2>1. SUFFICES ASSUME NEW q \in Q PROVE w[q] \in Nat /\ t[q] = w[q]
    OBVIOUS
  <2>2. PICK x \in Nat : x = Worth(after[q])
    BY <1>6, <1>12
  <2>3. w[q] = x
    BY <1>8, <1>14, <2>2 DEF Worths
  <2>4. t[q] = x * 1
    BY <1>6, <1>8, <1>12, <2>2
  <2> QED
    BY <2>3, <2>4
<1>16. PICK a \in Nat : a = Around(b, p, e) /\ Sum(t, Q) = a
  <2>1. Sum(w, Q) \in Nat
    BY <1>7, <1>15, SumIs
  <2>2. Sum(t, Q) = Sum(w, Q)
    BY <1>15, SumSame
  <2>3. Around(b, p, e) = Total(w)
    BY <1>5, <1>6, <1>14 DEF Around, Worths
  <2>4. Sum(w, Q) = Total(w)
    <3>1. w = [q \in Q |-> w[q]]
      BY <1>14 DEF Worths
    <3> QED
      BY <3>1, Zenon DEF Sum
  <2> QED
    BY <2>1, <2>2, <2>3, <2>4
<1>17. PICK l \in Nat, x \in Nat : l = LetterPremium[p] /\ x = WordPremium[p]
  BY <1>2, PremiumsAre
<1>18. Multiplied([q \in R \cap Placed(c) |-> WordPremium[q]]) = x
  BY <1>10, <1>17, ProductOfOne
<1>19. PICK v \in Nat : v = Worth(tile) /\ (tile.blank => v = 0)
                        /\ (~tile.blank => v = Value[tile.letter])
  BY TileIs
<1>20. t[p] = v * l
  BY <1>3, <1>7, <1>12, <1>17, <1>19
<1>21. WordScore(after, c, R) = ((v * l) + a) * x
  BY <1>11, <1>13, <1>16, <1>18, <1>20, WordScoreIs
<1>22. ((v * l) + a) * x \in Nat /\ ((v * l) + a) * x = (a + v * l) * x
  <2>1. PICK z \in Nat : z = v * l
    OBVIOUS
  <2>2. z + a = a + z /\ (z + a) * x \in Nat
    OBVIOUS
  <2> QED
    BY <2>1, <2>2
<1>23. tile.blank => (a + v * l) * x = a * x
  <2>1. 0 * l = 0 /\ a + 0 = a
    OBVIOUS
  <2> QED
    BY <1>19, <2>1
<1> QED
  BY <1>1, <1>3, <1>4, <1>5, <1>16, <1>17, <1>19, <1>21, <1>22, <1>23

\* The main word scores what its run is worth.
LEMMA MainScore ==
    ASSUME NEW s, NEW after \in Boards, NEW c \in Moves, Put(s, after, c), Solid(s, c),
           Straight(after, c)
    PROVE  WordScore(after, c, Run(after, FirstSquare(c), c.direction))
             = Total([i \in 1 .. MainLength(s, c) |->
                        Worth(OnBoard(s, c, MainCell(s, c, i)))
                          * IF MainCell(s, c, i) \in Placed(c)
                            THEN LetterPremium[MainCell(s, c, i)] ELSE 1])
                 * Multiplied([p \in Placed(c) |-> WordPremium[p]])
<1>0. PICK f, d, n, m : /\ f = FirstSquare(c) /\ d = c.direction
                        /\ n = Before(after, f, d) /\ m = After(after, f, d)
  OBVIOUS
<1>1. /\ f \in Cells /\ f \in Squares /\ n \in Nat /\ m \in Nat
      /\ MainLength(s, c) = n + 1 + m
      /\ \A i \in 1 .. n + 1 + m :
            /\ MainCell(s, c, i) = Step(f, d, i - n - 1)
            /\ OnBoard(s, c, MainCell(s, c, i)) = after[MainCell(s, c, i)]
      /\ \A k \in -n .. m : Filled(after, Step(f, d, k))
  BY <1>0, MainIs, CellsAreSquares
<1>2. PICK R : R = Run(after, f, d) /\ R = Span(f, d, n, m)
  BY <1>0, <1>1, WordIs
<1>3. PICK I : I = 1 .. n + 1 + m
  OBVIOUS
<1>4. PICK h : h = [i \in I |-> MainCell(s, c, i)]
  OBVIOUS
<1>5. \A i \in I : i \in Int /\ h[i] = Step(f, d, i - n - 1) /\ i - n - 1 \in -n .. m
  BY <1>1, <1>3, <1>4
<1>6. h \in [I -> R]
  <2>1. \A i \in I : h[i] \in R
    BY <1>2, <1>5 DEF Span
  <2> QED
    BY <1>4, <2>1
<1>7. \A x, y \in I : h[x] = h[y] => x = y
  <2>1. SUFFICES ASSUME NEW x \in I, NEW y \in I, h[x] = h[y] PROVE x = y
    OBVIOUS
  <2>2. x - n - 1 = y - n - 1
    BY <1>1, <1>5, <2>1, StepsDiffer
  <2> QED
    BY <1>1, <1>5, <2>2
<1>8. \A r \in R : \E x \in I : h[x] = r
  <2>1. SUFFICES ASSUME NEW r \in R PROVE \E x \in I : h[x] = r
    OBVIOUS
  <2>2. PICK k \in -n .. m : r = Step(f, d, k)
    BY <1>2 DEF Span
  <2>3. k + n + 1 \in I /\ (k + n + 1) - n - 1 = k
    BY <1>1, <1>3
  <2> QED
    BY <1>5, <2>2, <2>3
<1>9. IsFiniteSet(I)
  BY <1>1, <1>3, FS_Interval
<1>10. PICK t : t = Terms(after, c, R)
  OBVIOUS
<1>11. \A p \in R : /\ t[p] \in Nat
                    /\ t[p] = Worth(after[p]) * IF p \in Placed(c) THEN LetterPremium[p] ELSE 1
  <2>1. \A p \in R : Filled(after, p)
    BY <1>1, <1>2 DEF Span
  <2> QED
    BY <1>10, <2>1, TermsAre
<1>12. PICK u : u = [i \in I |-> Worth(OnBoard(s, c, MainCell(s, c, i)))
                                   * IF MainCell(s, c, i) \in Placed(c)
                                     THEN LetterPremium[MainCell(s, c, i)] ELSE 1]
  OBVIOUS
<1>13. \A i \in I : u[i] = t[h[i]] /\ u[i] \in Nat
  <2>1. SUFFICES ASSUME NEW i \in I PROVE u[i] = t[h[i]] /\ u[i] \in Nat
    OBVIOUS
  <2>2. PICK p \in R : p = h[i] /\ p = MainCell(s, c, i)
    BY <1>4, <1>6
  <2>3. OnBoard(s, c, p) = after[p]
    BY <1>1, <1>3, <2>2
  <2>4. u[i] = Worth(after[p]) * IF p \in Placed(c) THEN LetterPremium[p] ELSE 1
    BY <1>12, <2>2, <2>3
  <2> QED
    BY <1>11, <2>2, <2>4
<1>14. Sum(u, I) = Sum(t, R)
  BY <1>6, <1>7, <1>8, <1>9, <1>13, SumMapped, SMTT(60)
<1>15. Total(u) = Sum(u, I)
  <2>1. u = [i \in I |-> u[i]]
    BY <1>12
  <2> QED
    BY <2>1, Zenon DEF Sum
<1>16. R \cap Placed(c) = Placed(c)
  BY <1>0, <1>2 DEF Straight
<1>17. WordScore(after, c, R) = Total(u) * Multiplied([p \in Placed(c) |-> WordPremium[p]])
  BY <1>10, <1>14, <1>15, <1>16, WordScoreIs
<1> QED
  BY <1>0, <1>1, <1>2, <1>3, <1>12, <1>17

\* The crossing words are scored from the checks.
LEMMA CrossingScore ==
    ASSUME IInv, NEW c \in Moves, Valid(Here, c)
    PROVE  LET after == Filling(Here, c)
               crossing == {p \in Placed(c) :
                              Cardinality(Run(after, p, Perpendicular(c.direction))) >= 2}
           IN  Total([p \in Placed(c) |-> CrossScore(Here.cross[p][c.direction], Laid(c)[p])])
                 = Total([p \in crossing |->
                            WordScore(after, c, Run(after, p, Perpendicular(c.direction)))])
<1>1. PICK after, d, e : /\ after = Filling(Here, c) /\ d = c.direction
                         /\ e = Perpendicular(d)
  OBVIOUS
<1>2. /\ Here.board = board /\ Here.cross = cross
      /\ board \in Boards /\ after \in Boards /\ d \in Directions
  BY <1>1, FillingIs, CandidateIs DEF IInv, Here
<1>3. Put(Here, after, c)
  BY <1>1, <1>2, FreeIsPut DEF Valid
<1>4. PICK P : P = Placed(c)
  OBVIOUS
<1>5. PICK C : C = {p \in P : Cardinality(Run(after, p, e)) >= 2}
  OBVIOUS
<1>6. PICK u : u = [p \in P |-> CrossScore(Here.cross[p][d], Laid(c)[p])]
  OBVIOUS
<1>7. PICK v : v = [p \in C |-> WordScore(after, c, Run(after, p, e))]
  OBVIOUS
<1>8. ASSUME NEW p \in P
      PROVE  /\ p \in C => u[p] = v[p] /\ v[p] \in Nat
             /\ p \notin C => u[p] = 0
  <2>1. Here.cross[p][d] = CrossCheck(board, p, d)
    BY <1>2, <1>3, <1>4 DEF Put, IInv, CacheIsExact, Filled
  <2>2. Allows(Here.cross[p][d], Laid(c)[p].letter)
    BY <1>1, <1>4 DEF Valid
  <2>3. PICK check, score : /\ check = CrossCheck(board, p, d)
                            /\ score = CrossScore(check, Laid(c)[p])
    OBVIOUS
  <2>4. u[p] = score /\ Allows(check, Laid(c)[p].letter)
    BY <1>6, <2>1, <2>2, <2>3
  <2>5. /\ ~(Cardinality(Run(after, p, e)) >= 2) => score = 0
        /\ Cardinality(Run(after, p, e)) >= 2 =>
              score = IF Laid(c)[p].blank THEN Around(board, p, e) * WordPremium[p]
                      ELSE (Around(board, p, e) + Value[Laid(c)[p].letter] * LetterPremium[p])
                              * WordPremium[p]
    BY <1>1, <1>2, <1>3, <1>4, <2>3, <2>4, CheckSays
  <2>6. PICK across : across = WordScore(after, c, Run(after, p, e))
    OBVIOUS
  <2>7. /\ across \in Nat
        /\ across = IF Laid(c)[p].blank THEN Around(board, p, e) * WordPremium[p]
                    ELSE (Around(board, p, e) + Value[Laid(c)[p].letter] * LetterPremium[p])
                            * WordPremium[p]
    BY <1>1, <1>2, <1>3, <1>4, <2>6, AcrossScore
  <2>8. p \in C => v[p] = across
    BY <1>7, <2>6
  <2>9. p \in C <=> Cardinality(Run(after, p, e)) >= 2
    BY <1>5
  <2> QED
    BY <2>4, <2>5, <2>7, <2>8, <2>9
<1>9. IsFiniteSet(P) /\ C \subseteq P
  BY <1>4, <1>5, CountPlaced
<1>10. \A p \in P : u[p] \in Nat
  BY <1>8
<1>11. \A p \in P \ C : u[p] = 0
  BY <1>8
<1>12. Sum(u, P) = Sum(u, C)
  BY <1>9, <1>10, <1>11, SumWithout
<1>13. Sum(u, C) = Sum(v, C)
  BY <1>8, <1>9, SumSame
<1>14. Total(u) = Sum(u, P) /\ Total(v) = Sum(v, C)
  <2>1. u = [p \in P |-> u[p]] /\ v = [p \in C |-> v[p]]
    BY <1>6, <1>7
  <2> QED
    BY <2>1, Zenon DEF Sum
<1>15. Total(u) = Total(v)
  BY <1>12, <1>13, <1>14
<1> QED
  BY <1>1, <1>4, <1>5, <1>6, <1>7, <1>15, Zenon

LEMMA ScoreIsRight ==
    ASSUME IInv, NEW c \in Moves, Valid(Here, c)
    PROVE  Score(Here, c) = LegalScore(c)
<1>1. PICK after, f, d, e :
        /\ after = Filling(Here, c) /\ f = FirstSquare(c)
        /\ d = c.direction /\ e = Perpendicular(d)
  OBVIOUS
<1>2. Here.board = board /\ board \in Boards /\ after \in Boards
  BY <1>1, FillingIs DEF IInv, Here
<1>3. Put(Here, after, c) /\ Solid(Here, c)
  BY <1>1, <1>2, FreeIsPut DEF Valid
<1>4. Straight(after, c)
  BY <1>3, SolidIsStraight
<1>5. PICK main : main = Total([i \in 1 .. MainLength(Here, c) |->
                        Worth(OnBoard(Here, c, MainCell(Here, c, i)))
                          * IF MainCell(Here, c, i) \in Placed(c)
                            THEN LetterPremium[MainCell(Here, c, i)] ELSE 1])
                 * Multiplied([p \in Placed(c) |-> WordPremium[p]])
  OBVIOUS
<1>6. PICK crossing :
        crossing = Total([p \in Placed(c) |->
                            CrossScore(Here.cross[p][c.direction], Laid(c)[p])])
  OBVIOUS
<1>7. PICK bingo : bingo = IF Cardinality(Placed(c)) = RackSize THEN BingoBonus ELSE 0
  OBVIOUS
<1>8. Score(Here, c) = main + crossing + bingo
  BY <1>5, <1>6, <1>7, Zenon DEF Score
<1>9. WordScore(after, c, Run(after, f, d)) = main
  BY <1>1, <1>2, <1>3, <1>4, <1>5, MainScore, Zenon
<1>10. crossing = Total([p \in {q \in Placed(c) : Cardinality(Run(after, q, e)) >= 2} |->
                           WordScore(after, c, Run(after, p, e))])
  BY <1>1, <1>6, CrossingScore, Zenon
<1>11. LegalScore(c) = main + crossing + bingo
  BY <1>1, <1>7, <1>9, <1>10, Zenon DEF LegalScore
<1> QED
  BY <1>8, <1>11

\* validate_move accepts exactly the legal moves and scores them word by word as
\* the rules do, on every board a game can reach and for every candidate; so does
\* the client's preview.
THEOREM JudgesRightly == Spec => []JudgesByTheRules
<1>1. IInv => JudgesByTheRules
  <2>1. SUFFICES ASSUME IInv, NEW c \in Candidates
                 PROVE  LET verdict == IF Legal(c) THEN LegalScore(c) ELSE Illegal
                        IN  /\ Verdict(Here, c) = verdict
                            /\ Preview(ClientPosition(BoardDto(board)), CandidateDto(c)) = verdict
    BY Zenon DEF JudgesByTheRules
  <2> c \in Moves
    BY CandidatesAreMoves
  <2>2. Valid(Here, c) <=> Legal(c)
    BY <2>1, ValidIsLegal
  <2>3. Verdict(Here, c) = IF Legal(c) THEN LegalScore(c) ELSE Illegal
    BY <2>1, <2>2, ScoreIsRight DEF Verdict
  <2>4. Preview(ClientPosition(BoardDto(board)), CandidateDto(c)) = Verdict(Here, c)
    BY <2>1, PreviewIsVerdict DEF PreviewsAgree
  <2> QED
    BY <2>3, <2>4
<1> QED
  BY <1>1, Consistent, PTL


-----------------------------------------------------------------------------
(* Sequences, and what is in them.                                         *)

\* Whatever its elements are.
IsSeq(q) == q \in Seq(Range(q))

\* The empty sequence, a sequence of one, and any sequence over a set.
LEMMA SeqsAre ==
    /\ IsSeq(<<>>) /\ Range(<<>>) = {}
    /\ \A x : IsSeq(<<x>>) /\ Range(<<x>>) = {x}
    /\ \A X : \A q \in Seq(X) : IsSeq(q) /\ Range(q) \subseteq X
<1>1. IsSeq(<<>>) /\ Range(<<>>) = {}
  BY DEF IsSeq, Range
<1>2. ASSUME NEW x PROVE IsSeq(<<x>>) /\ Range(<<x>>) = {x}
  <2>1. DOMAIN <<x>> = {1} /\ <<x>>[1] = x /\ <<x>> \in Seq({x})
    OBVIOUS
  <2>2. Range(<<x>>) = {x}
    BY <2>1 DEF Range
  <2> QED
    BY <2>1, <2>2 DEF IsSeq
<1>3. ASSUME NEW X, NEW q \in Seq(X) PROVE IsSeq(q) /\ Range(q) \subseteq X
  <2>1. PICK n \in Nat : q \in [1 .. n -> X] /\ DOMAIN q = 1 .. n
    <3>1. q \in [1 .. Len(q) -> X] /\ Len(q) \in Nat
      OBVIOUS
    <3> QED
      BY <3>1
  <2>2. Range(q) \subseteq X /\ \A i \in 1 .. n : q[i] \in Range(q)
    BY <2>1 DEF Range
  <2>3. PICK R : R = Range(q)
    OBVIOUS
  <2>4. q \in [1 .. n -> R]
    BY <2>1, <2>2, <2>3
  <2>5. q \in Seq(R)
    BY <2>4
  <2> QED
    BY <2>2, <2>3, <2>5 DEF IsSeq
<1> QED
  BY <1>1, <1>2, <1>3

\* What is in either is in both joined, and nothing else.
LEMMA ConcatHas ==
    ASSUME NEW a, IsSeq(a), NEW b, IsSeq(b)
    PROVE  IsSeq(a \o b) /\ Range(a \o b) = Range(a) \cup Range(b)
<1> PICK X : X = Range(a) \cup Range(b)
  OBVIOUS
<1>1. a \in Seq(X) /\ b \in Seq(X)
  <2>1. \A S : S \subseteq X => Seq(S) \subseteq Seq(X)
    OBVIOUS
  <2>2. Range(a) \subseteq X /\ Range(b) \subseteq X
    OBVIOUS
  <2> QED
    BY <2>1, <2>2 DEF IsSeq
<1>2. PICK n \in Nat, m \in Nat : n = Len(a) /\ m = Len(b) /\ DOMAIN a = 1 .. n /\ DOMAIN b = 1 .. m
  BY <1>1
<1>3. PICK c : c = a \o b
  OBVIOUS
<1>4. c \in Seq(X) /\ Len(c) = n + m /\ DOMAIN c = 1 .. n + m
  BY <1>1, <1>2, <1>3
<1>5. /\ \A i \in 1 .. n : c[i] = a[i]
      /\ \A i \in 1 .. m : c[n + i] = b[i]
      /\ \A i \in n + 1 .. n + m : c[i] = b[i - n]
  BY <1>1, <1>2, <1>3
<1>6. ASSUME NEW x \in Range(a) PROVE x \in Range(c)
  <2>1. PICK i \in 1 .. n : a[i] = x
    BY <1>2, <1>6 DEF Range
  <2>2. c[i] = x /\ i \in DOMAIN c
    BY <1>4, <1>5, <2>1
  <2> QED
    BY <2>2 DEF Range
<1>7. ASSUME NEW x \in Range(b) PROVE x \in Range(c)
  <2>1. PICK i \in 1 .. m : b[i] = x
    BY <1>2, <1>7 DEF Range
  <2>2. c[n + i] = x /\ n + i \in DOMAIN c
    BY <1>4, <1>5, <2>1
  <2> QED
    BY <2>2 DEF Range
<1>8. ASSUME NEW x \in Range(c) PROVE x \in X
  BY <1>4, <1>8, SeqsAre
<1> QED
  BY <1>3, <1>4, <1>6, <1>7, <1>8, SeqsAre

\* So with any number of sequences.
LEMMA JoinedHas ==
    ASSUME NEW n \in Nat, NEW f, DOMAIN f = 1 .. n, f = [i \in 1 .. n |-> f[i]],
           \A i \in 1 .. n : IsSeq(f[i])
    PROVE  /\ IsSeq(FlattenSeq(f))
           /\ \A x : x \in Range(FlattenSeq(f)) <=> \E i \in 1 .. n : x \in Range(f[i])
<1> PICK X : X = UNION {Range(f[i]) : i \in 1 .. n}
  OBVIOUS
<1>1. ASSUME NEW i \in 1 .. n PROVE f[i] \in Seq(X)
  <2>1. Range(f[i]) \subseteq X
    OBVIOUS
  <2>2. PICK R : R = Range(f[i])
    OBVIOUS
  <2>3. f[i] \in Seq(R) /\ R \subseteq X
    BY <2>1, <2>2 DEF IsSeq
  <2> QED
    BY <2>3
<1>2. f \in [1 .. n -> Seq(X)]
  BY <1>1
<1>3. PICK q : q = FlattenSeq(f)
  OBVIOUS
<1>4. q \in Seq(X) /\ \E o \in [1 .. n -> Nat] : Follow(q, f, n, o)
  BY <1>2, <1>3, FlattenHas
<1>5. PICK o \in [1 .. n -> Nat] : Follow(q, f, n, o)
  BY <1>4
<1>6. ASSUME NEW x \in Range(q) PROVE \E i \in 1 .. n : x \in Range(f[i])
  <2>0. PICK p \in DOMAIN q : q[p] = x
    BY <1>6 DEF Range
  <2>1. p \in 1 .. Len(q) /\ q[p] = x
    BY <1>4, <2>0
  <2>2. PICK i \in 1 .. n : \E k \in 1 .. Len(f[i]) : p = o[i] + k
    BY <1>5, <2>1 DEF Follow
  <2>3. PICK k \in 1 .. Len(f[i]) : p = o[i] + k
    BY <2>2
  <2>4. q[p] = f[i][k]
    BY <1>5, <2>3 DEF Follow
  <2>5. k \in DOMAIN f[i]
    BY <1>1, <2>3
  <2> QED
    BY <2>1, <2>4, <2>5 DEF Range
<1>7. ASSUME NEW i \in 1 .. n, NEW x \in Range(f[i]) PROVE x \in Range(q)
  <2>1. PICK k \in 1 .. Len(f[i]) : f[i][k] = x
    BY <1>1, <1>7 DEF Range
  <2>2. o[i] + k \in 1 .. Len(q) /\ q[o[i] + k] = x
    BY <1>5, <2>1 DEF Follow
  <2>3. o[i] + k \in DOMAIN q
    BY <1>4, <2>2
  <2> QED
    BY <2>2, <2>3 DEF Range
<1> QED
  BY <1>3, <1>4, <1>6, <1>7, SeqsAre

\* Joining what a sequence of things gives, one by one.
LEMMA EachGives ==
    ASSUME NEW q, IsSeq(q), NEW f, f = [i \in DOMAIN q |-> f[i]], \A i \in DOMAIN q : IsSeq(f[i])
    PROVE  /\ IsSeq(FlattenSeq(f))
           /\ \A x : x \in Range(FlattenSeq(f)) <=> \E i \in DOMAIN q : x \in Range(f[i])
<1>1. PICK n \in Nat : DOMAIN q = 1 .. n
  BY DEF IsSeq
<1>2. DOMAIN f = 1 .. n /\ f = [i \in 1 .. n |-> f[i]]
  BY <1>1
<1> QED
  BY <1>1, <1>2, JoinedHas

-----------------------------------------------------------------------------
(* The tiles a rack has for a square, and the lanes.                       *)

\* The tiles of the rack that the check allows, as letters or as blanks,
LEMMA AvailableAsHas ==
    ASSUME NEW blank \in BOOLEAN, NEW rack, NEW check
    PROVE  LET q == AvailableAs(blank, rack, check)
           IN  /\ IsSeq(q)
               /\ \A t : t \in Range(q) <=>
                    /\ t \in [letter : Letters, blank : {blank}]
                    /\ Allows(check, t.letter) /\ Has(rack, t)
<1> DEFINE tile(i) == [letter |-> Alphabet[i], blank |-> blank]
           one(i) == IF Allows(check, tile(i).letter) /\ Has(rack, tile(i)) THEN <<tile(i)>> ELSE <<>>
<1>1. PICK f : f = [i \in DOMAIN Alphabet |-> one(i)]
  OBVIOUS
<1>2. AvailableAs(blank, rack, check) = FlattenSeq(f)
  BY <1>1 DEF AvailableAs
<1>3. IsSeq(Alphabet)
  BY LexiconAssumption, SeqsAre
<1>4. \A i \in DOMAIN Alphabet : f[i] = one(i) /\ IsSeq(one(i))
  BY <1>1, SeqsAre
<1>5. /\ IsSeq(FlattenSeq(f))
      /\ \A x : x \in Range(FlattenSeq(f)) <=> \E i \in DOMAIN Alphabet : x \in Range(f[i])
  <2>1. f = [i \in DOMAIN Alphabet |-> f[i]]
    BY <1>1
  <2>2. \A i \in DOMAIN Alphabet : IsSeq(f[i])
    BY <1>4
  <2> HIDE DEF one
  <2> QED
    BY <1>3, <2>1, <2>2, EachGives
<1>6. ASSUME NEW i \in DOMAIN Alphabet, NEW x
      PROVE  x \in Range(f[i]) <=> x = tile(i) /\ Allows(check, x.letter) /\ Has(rack, x)
  <2>1. PICK t : t = tile(i)
    OBVIOUS
  <2>2. CASE Allows(check, t.letter) /\ Has(rack, t)
    <3>1. f[i] = <<t>> /\ Range(<<t>>) = {t}
      BY <1>4, <2>1, <2>2, SeqsAre
    <3> QED
      BY <2>1, <2>2, <3>1
  <2>3. CASE ~(Allows(check, t.letter) /\ Has(rack, t))
    <3>1. f[i] = <<>> /\ Range(<<>>) = {}
      BY <1>4, <2>1, <2>3, SeqsAre
    <3> QED
      BY <2>1, <2>3, <3>1
  <2> QED
    BY <2>2, <2>3
<1>7. ASSUME NEW t
      PROVE  (\E i \in DOMAIN Alphabet : t = tile(i)) <=> t \in [letter : Letters, blank : {blank}]
  <2>1. ASSUME NEW i \in DOMAIN Alphabet, t = tile(i)
        PROVE  t \in [letter : Letters, blank : {blank}]
    BY <2>1 DEF Letters, Range
  <2>2. ASSUME t \in [letter : Letters, blank : {blank}]
        PROVE  \E i \in DOMAIN Alphabet : t = tile(i)
    <3>1. PICK i \in DOMAIN Alphabet : Alphabet[i] = t.letter
      BY <2>2 DEF Letters, Range
    <3>2. t = [letter |-> t.letter, blank |-> blank]
      BY <2>2
    <3> QED
      BY <3>1, <3>2
  <2> QED
    BY <2>1, <2>2
<1> HIDE DEF tile, one
<1> QED
  BY <1>2, <1>5, <1>6, <1>7

\* and both.
LEMMA AvailableHas ==
    ASSUME NEW rack, NEW check
    PROVE  /\ IsSeq(Available(rack, check))
           /\ \A t : t \in Range(Available(rack, check)) <=>
                t \in AnyTile /\ Allows(check, t.letter) /\ Has(rack, t)
<1>1. PICK a, b : a = AvailableAs(FALSE, rack, check) /\ b = AvailableAs(TRUE, rack, check)
  OBVIOUS
<1>2. /\ IsSeq(a)
      /\ \A t : t \in Range(a) <=>
           /\ t \in [letter : Letters, blank : {FALSE}]
           /\ Allows(check, t.letter) /\ Has(rack, t)
  BY <1>1, AvailableAsHas
<1>3. /\ IsSeq(b)
      /\ \A t : t \in Range(b) <=>
           /\ t \in [letter : Letters, blank : {TRUE}]
           /\ Allows(check, t.letter) /\ Has(rack, t)
  BY <1>1, AvailableAsHas
<1>4. IsSeq(a \o b) /\ Range(a \o b) = Range(a) \cup Range(b)
  BY <1>2, <1>3, ConcatHas
<1>5. \A t : t \in AnyTile <=> \/ t \in [letter : Letters, blank : {FALSE}]
                               \/ t \in [letter : Letters, blank : {TRUE}]
  BY DEF AnyTile
<1> QED
  BY <1>1, <1>2, <1>3, <1>4, <1>5 DEF Available

\* The lane from a square.
Lane(p, d) == [start |-> p, direction |-> d, tiles |-> <<>>]

\* A lane from every free anchor, in both directions.
LEMMA LanesAre ==
    ASSUME NEW s
    PROVE  /\ IsSeq(Lanes(s))
           /\ \A lane : lane \in Range(Lanes(s)) <=>
                \E p \in Cells, d \in Directions :
                   ~Filled(s.board, p) /\ s.anchor[p] /\ lane = Lane(p, d)
<1> DEFINE cell(i) == <<(i - 1) % Width, (i - 1) \div Width>>
           both(p) == IF Filled(s.board, p) \/ ~s.anchor[p] THEN <<>>
                      ELSE <<Lane(p, "horizontal"), Lane(p, "vertical")>>
<1>0. PICK w \in Nat \ {0}, h \in Nat \ {0} : w = Width /\ h = Height
  BY RulesAssumption
<1>n. PICK n \in Nat : n = Width * Height
  BY <1>0
<1>1. PICK f : f = [i \in 1 .. n |-> both(cell(i))]
  OBVIOUS
<1>2. Lanes(s) = FlattenSeq(f)
  BY <1>1, <1>n DEF Lanes, Lane
<1>3. ASSUME NEW p
      PROVE  /\ IsSeq(both(p))
             /\ \A x : x \in Range(both(p)) <=>
                  \E d \in Directions : ~Filled(s.board, p) /\ s.anchor[p] /\ x = Lane(p, d)
  <2>1. CASE Filled(s.board, p) \/ ~s.anchor[p]
    BY <2>1, SeqsAre
  <2>2. CASE ~Filled(s.board, p) /\ s.anchor[p]
    <3>1. PICK x, y : x = Lane(p, "horizontal") /\ y = Lane(p, "vertical")
      OBVIOUS
    <3>2. both(p) = <<x, y>>
      BY <2>2, <3>1
    <3>3. <<x, y>> \in Seq({x, y}) /\ DOMAIN <<x, y>> = {1, 2} /\ <<x, y>>[1] = x /\ <<x, y>>[2] = y
      OBVIOUS
    <3>4. Range(<<x, y>>) = {x, y}
      BY <3>3 DEF Range
    <3> QED
      BY <2>2, <3>1, <3>2, <3>3, <3>4, SeqsAre DEF Directions
  <2> QED
    BY <2>1, <2>2
<1>4. ASSUME NEW i \in 1 .. n PROVE cell(i) \in Cells
  <2>1. PICK j \in Nat : j = i - 1 /\ j < w * h
    BY <1>0, <1>n
  <2>2. j % w \in 0 .. w - 1 /\ j \div w \in Nat /\ j = w * (j \div w) + (j % w)
    BY <2>1
  <2>3. PICK x \in 0 .. w - 1, y \in Nat : x = j % w /\ y = j \div w /\ j = w * y + x
    BY <2>2
  <2>4. y < h
    <3>1. SUFFICES ASSUME y >= h PROVE FALSE
      BY <1>0
    <3>2. w * y >= w * h
      BY <3>1
    <3> QED
      BY <2>1, <2>3, <3>2
  <2> QED
    BY <1>0, <2>1, <2>3, <2>4 DEF Cells
<1>5. ASSUME NEW p \in Cells PROVE \E i \in 1 .. n : cell(i) = p
  <2>1. PICK x \in 0 .. w - 1, y \in 0 .. h - 1 : p = <<x, y>>
    <3>1. \E x \in 0 .. w - 1, y \in 0 .. h - 1 : p = <<x, y>>
      BY <1>0 DEF Cells
    <3> QED
      BY <3>1
  <2>2. PICK i \in 1 .. n : i = y * w + x + 1
    <3>1. y * w \in Nat /\ y * w <= (h - 1) * w
      OBVIOUS
    <3>2. (h - 1) * w = w * h - w
      OBVIOUS
    <3> QED
      BY <1>0, <1>n, <3>1, <3>2
  <2>3. (i - 1) % w = x /\ (i - 1) \div w = y
    <3>1. i - 1 = y * w + x /\ y \in Nat
      BY <2>2
    <3> QED
      BY <3>1, QuotientIs
  <2> QED
    BY <1>0, <2>1, <2>3
<1>6. /\ IsSeq(FlattenSeq(f))
      /\ \A x : x \in Range(FlattenSeq(f)) <=> \E i \in 1 .. n : x \in Range(f[i])
  <2>1. DOMAIN f = 1 .. n /\ f = [i \in 1 .. n |-> f[i]]
    BY <1>1
  <2>2. \A i \in 1 .. n : IsSeq(f[i])
    BY <1>1, <1>3
  <2> HIDE DEF both, cell
  <2> QED
    BY <2>1, <2>2, JoinedHas
<1>7. \A i \in 1 .. n : f[i] = both(cell(i))
  BY <1>1
<1> HIDE DEF both, cell
<1> QED
  BY <1>2, <1>3, <1>4, <1>5, <1>6, <1>7

-----------------------------------------------------------------------------
(* Filling a lane, square by square.                                       *)

\* The calls for each square, and the moves found before it.
Through(g, s, rack, lane, seed, m) ==
    g = [k \in 0 .. m |-> Across(s, rack, lane, k,
                                 IF k = 0 THEN <<Call(<<>>, rack, seed)>> ELSE g[k - 1])]

\* There are such calls, for any number of squares,
LEMMA ThroughExists ==
    ASSUME NEW s, NEW rack, NEW lane, NEW seed, NEW m \in Nat
    PROVE  \E g : Through(g, s, rack, lane, seed, m)
<1> DEFINE start == <<Call(<<>>, rack, seed)>>
           next(q, k) == Across(s, rack, lane, k, q)
           missing == {n \in Nat : ~ \E g : Through(g, s, rack, lane, seed, n)}
<1>1. \A n : \A g : Through(g, s, rack, lane, seed, n)
                      <=> g = [k \in 0 .. n |-> next(IF k = 0 THEN start ELSE g[k - 1], k)]
  BY DEF Through
<1> HIDE DEF next, start
<1>2. 0 \notin missing
  <2>1. PICK g : g = [k \in 0 .. 0 |-> next(start, k)]
    OBVIOUS
  <2>2. \A k \in 0 .. 0 : k = 0
    OBVIOUS
  <2>3. g = [k \in 0 .. 0 |-> next(IF k = 0 THEN start ELSE g[k - 1], k)]
    BY <2>1, <2>2
  <2> QED
    BY <1>1, <2>3
<1>3. ASSUME NEW n \in Nat, n \notin missing PROVE n + 1 \notin missing
  <2>1. PICK g : Through(g, s, rack, lane, seed, n)
    BY <1>3
  <2>2. PICK h : h = [k \in 0 .. n + 1 |-> next(IF k = 0 THEN start ELSE g[k - 1], k)]
    OBVIOUS
  <2>3. \A k \in 0 .. n : g[k] = next(IF k = 0 THEN start ELSE g[k - 1], k)
    BY <1>1, <2>1
  <2>4. \A k \in 0 .. n : g[k] = h[k]
    BY <2>2, <2>3
  <2>5. \A k \in 0 .. n + 1 : k # 0 => g[k - 1] = h[k - 1]
    BY <2>4
  <2>6. h = [k \in 0 .. n + 1 |-> next(IF k = 0 THEN start ELSE h[k - 1], k)]
    BY <2>2, <2>5
  <2>7. Through(h, s, rack, lane, seed, n + 1)
    BY <1>1, <2>6
  <2> QED
    BY <2>7
<1>4. missing = {}
  <2>1. missing \subseteq Nat
    OBVIOUS
  <2> HIDE DEF missing
  <2> QED
    BY <1>2, <1>3, <2>1, FromZeroOn
<1> QED
  BY <1>4

\* and the moves of the last square are what expand_lane gives.
LEMMA ExpandIs ==
    ASSUME NEW s, NEW rack, NEW lane, NEW seed
    PROVE  \E m \in Nat : \E g :
             /\ Offsets = 0 .. m /\ Through(g, s, rack, lane, seed, m)
             /\ ExpandLane(s, rack, lane, seed) = MovesAlong(lane, g[m])
<1>1. PICK m \in Nat : Offsets = 0 .. m
  BY OffsetsAre
<1>2. Max(Offsets) = m
  <2>1. PICK T : T = 0 .. m
    OBVIOUS
  <2>2. Max(T) \in T /\ \A j \in T : Max(T) >= j
    BY <2>1, GreatestIs
  <2>3. Max(T) >= m /\ Max(T) \in 0 .. m
    BY <2>1, <2>2
  <2>4. Max(T) = m
    BY <2>3
  <2> QED
    BY <1>1, <2>1, <2>4
<1> DEFINE calls(q, k) ==
        Across(s, rack, lane, k, IF k = 0 THEN <<Call(<<>>, rack, seed)>> ELSE q[k - 1])
<1>3. PICK g : g = CHOOSE q : q = [k \in Offsets |-> calls(q, k)]
  OBVIOUS
<1>4. ExpandLane(s, rack, lane, seed)
        = MovesAlong(lane, g[Max(Offsets)])
  BY <1>3, Zenon DEF ExpandLane
<1>5. \A q : Through(q, s, rack, lane, seed, m) <=> q = [k \in Offsets |-> calls(q, k)]
  BY <1>1 DEF Through
<1>6. Through(g, s, rack, lane, seed, m)
  <2> HIDE DEF calls
  <2>1. \E q : q = [k \in Offsets |-> calls(q, k)]
    BY <1>5, ThroughExists
  <2>2. g = [k \in Offsets |-> calls(g, k)]
    BY <1>3, <2>1, Zenon
  <2> QED
    BY <1>5, <2>2
<1> QED
  BY <1>1, <1>2, <1>4, <1>6

\* What comes of a call for the square k on.
LEMMA CallOnIs ==
    ASSUME NEW lane, NEW k, NEW tiles, NEW rack, NEW step
    PROVE  /\ IsSeq(CallOn(lane, k, tiles, rack, step))
           /\ \A x : x \in Range(CallOn(lane, k, tiles, rack, step)) <=>
                step # Stuck /\ At(lane, k + 1) \in Cells /\ x = Call(tiles, rack, step)
<1>1. CASE step = Stuck \/ At(lane, k + 1) \notin Cells
  BY <1>1, SeqsAre DEF CallOn
<1>2. CASE step # Stuck /\ At(lane, k + 1) \in Cells
  <2>1. PICK c : c = Call(tiles, rack, step)
    OBVIOUS
  <2>2. CallOn(lane, k, tiles, rack, step) = <<c>> /\ IsSeq(<<c>>) /\ Range(<<c>>) = {c}
    BY <1>2, <2>1, SeqsAre DEF CallOn
  <2> QED
    BY <1>2, <2>1, <2>2
<1> QED
  BY <1>1, <1>2

\* The calls on one free square: one of every tile that may be put there.
LEMMA PlacingHas ==
    ASSUME NEW lane, NEW k, NEW call, NEW choices, IsSeq(choices)
    PROVE  /\ IsSeq(Placing(lane, k, call, choices))
           /\ \A x : x \in Range(Placing(lane, k, call, choices)) <=>
                \E t \in Range(choices) :
                   x \in Range(CallOn(lane, k, WithTile(call.tiles, k, t), Consume(call.rack, t),
                                      Advance(WordList, call.step, t.letter)))
<1> DEFINE on(t) == CallOn(lane, k, WithTile(call.tiles, k, t), Consume(call.rack, t),
                           Advance(WordList, call.step, t.letter))
<1>1. PICK f : f = [i \in DOMAIN choices |-> on(choices[i])]
  OBVIOUS
<1>2. Placing(lane, k, call, choices) = FlattenSeq(f)
  BY <1>1 DEF Placing
<1>3. \A t : IsSeq(on(t))
  BY CallOnIs
<1> HIDE DEF on
<1>4. /\ IsSeq(FlattenSeq(f))
      /\ \A x : x \in Range(FlattenSeq(f)) <=> \E i \in DOMAIN choices : x \in Range(f[i])
  <2>1. f = [i \in DOMAIN choices |-> f[i]] /\ \A i \in DOMAIN choices : IsSeq(f[i])
    BY <1>1, <1>3
  <2> QED
    BY <2>1, EachGives
<1>5. \A x : (\E i \in DOMAIN choices : x \in Range(f[i])) <=> \E t \in Range(choices) : x \in Range(on(t))
  BY <1>1 DEF Range
<1>6. \A x : x \in Range(FlattenSeq(f)) <=> \E t \in Range(choices) : x \in Range(on(t))
  BY <1>4, <1>5
<1> QED
  BY <1>2, <1>4, <1>6 DEF on

\* The tile that may be put on a free square, and what becomes of the call.
Fits(s, lane, k, call, t) ==
    t \in AnyTile /\ Allows(s.cross[At(lane, k)][lane.direction], t.letter) /\ Has(call.rack, t)

\* The calls for the next square.
LEMMA CallsAre ==
    ASSUME NEW s, NEW lane, NEW k, NEW call
    PROVE  LET p == At(lane, k)
           IN  /\ IsSeq(CallsFrom(s, lane, k, call))
               /\ \A x : x \in Range(CallsFrom(s, lane, k, call)) <=>
                    /\ ~(Cardinality(DOMAIN call.tiles) >= RackSize)
                    /\ IF Filled(s.board, p)
                       THEN x \in Range(CallOn(lane, k, call.tiles, call.rack,
                                               Advance(WordList, call.step, s.board[p].letter)))
                       ELSE \E t : /\ Fits(s, lane, k, call, t)
                                   /\ x \in Range(CallOn(lane, k, WithTile(call.tiles, k, t),
                                                         Consume(call.rack, t),
                                                         Advance(WordList, call.step, t.letter)))
<1>1. PICK p : p = At(lane, k)
  OBVIOUS
<1>2. CASE Cardinality(DOMAIN call.tiles) >= RackSize
  <2>1. CallsFrom(s, lane, k, call) = <<>>
    BY <1>2 DEF CallsFrom
  <2> QED
    BY <1>2, <2>1, SeqsAre
<1>3. CASE ~(Cardinality(DOMAIN call.tiles) >= RackSize) /\ Filled(s.board, p)
  <2>1. CallsFrom(s, lane, k, call)
          = CallOn(lane, k, call.tiles, call.rack, Advance(WordList, call.step, s.board[p].letter))
    BY <1>1, <1>3 DEF CallsFrom
  <2> QED
    BY <1>1, <1>3, <2>1, CallOnIs
<1>4. CASE ~(Cardinality(DOMAIN call.tiles) >= RackSize) /\ ~Filled(s.board, p)
  <2>1. PICK choices : choices = Available(call.rack, s.cross[p][lane.direction])
    OBVIOUS
  <2>2. CallsFrom(s, lane, k, call) = Placing(lane, k, call, choices)
    BY <1>1, <1>4, <2>1 DEF CallsFrom
  <2>3. IsSeq(choices) /\ \A t : t \in Range(choices) <=> Fits(s, lane, k, call, t)
    BY <1>1, <2>1, AvailableHas DEF Fits
  <2>4. /\ IsSeq(Placing(lane, k, call, choices))
        /\ \A x : x \in Range(Placing(lane, k, call, choices)) <=>
             \E t \in Range(choices) :
                x \in Range(CallOn(lane, k, WithTile(call.tiles, k, t), Consume(call.rack, t),
                                   Advance(WordList, call.step, t.letter)))
    BY <2>3, PlacingHas
  <2> QED
    BY <1>1, <1>4, <2>2, <2>3, <2>4
<1> QED
  BY <1>1, <1>2, <1>3, <1>4

\* In the place of a call stand what it finds and what it calls.
Found(s, rack, lane, call) ==
    call.tiles # <<>> /\ Uses(rack, MoveOf(lane, call)) /\ Valid(s, MoveOf(lane, call))

LEMMA ExpandedHas ==
    ASSUME NEW s, NEW rack, NEW lane, NEW k, NEW call
    PROVE  LET q == Expanded(s, rack, lane, k, call)
           IN  /\ IsSeq(q)
               /\ call.found => \A x : x \in Range(q) <=> x = call
               /\ ~call.found =>
                    \A x : x \in Range(q) <=>
                      \/ Found(s, rack, lane, call) /\ x = [call EXCEPT !.found = TRUE]
                      \/ x \in Range(CallsFrom(s, lane, k, call))
<1>1. PICK q : q = Expanded(s, rack, lane, k, call)
  OBVIOUS
<1>2. CASE call.found
  <2>1. q = <<call>> /\ IsSeq(<<call>>) /\ Range(<<call>>) = {call}
    BY <1>1, <1>2, SeqsAre DEF Expanded
  <2> QED
    BY <1>1, <1>2, <2>1
<1>3. CASE ~call.found
  <2>1. PICK a, b, y : /\ a = FoundAt(s, rack, lane, call) /\ b = CallsFrom(s, lane, k, call)
                       /\ y = [call EXCEPT !.found = TRUE]
    OBVIOUS
  <2>2. q = a \o b
    BY <1>1, <1>3, <2>1 DEF Expanded
  <2>3. IsSeq(b)
    BY <2>1, CallsAre
  <2>4. IsSeq(a) /\ \A x : x \in Range(a) <=> Found(s, rack, lane, call) /\ x = y
    <3>1. CASE Found(s, rack, lane, call)
      <4>1. a = <<y>> /\ IsSeq(<<y>>) /\ Range(<<y>>) = {y}
        BY <2>1, <3>1, SeqsAre DEF FoundAt, Found
      <4> QED
        BY <3>1, <4>1
    <3>2. CASE ~Found(s, rack, lane, call)
      <4>1. a = <<>> /\ IsSeq(<<>>) /\ Range(<<>>) = {}
        BY <2>1, <3>2, SeqsAre DEF FoundAt, Found
      <4> QED
        BY <3>2, <4>1
    <3> QED
      BY <3>1, <3>2
  <2>5. IsSeq(q) /\ Range(q) = Range(a) \cup Range(b)
    BY <2>2, <2>3, <2>4, ConcatHas
  <2> QED
    BY <1>1, <1>3, <2>1, <2>4, <2>5
<1> QED
  BY <1>2, <1>3

\* One square of a lane.
LEMMA AcrossHas ==
    ASSUME NEW s, NEW rack, NEW lane, NEW k, NEW calls, IsSeq(calls)
    PROVE  /\ IsSeq(Across(s, rack, lane, k, calls))
           /\ \A x : x \in Range(Across(s, rack, lane, k, calls)) <=>
                \E call \in Range(calls) : x \in Range(Expanded(s, rack, lane, k, call))
<1> DEFINE e(call) == Expanded(s, rack, lane, k, call)
<1>1. PICK f : f = [i \in DOMAIN calls |-> e(calls[i])]
  OBVIOUS
<1>2. Across(s, rack, lane, k, calls) = FlattenSeq(f)
  BY <1>1 DEF Across
<1>3. \A call : IsSeq(e(call))
  BY ExpandedHas
<1> HIDE DEF e
<1>4. /\ IsSeq(FlattenSeq(f))
      /\ \A x : x \in Range(FlattenSeq(f)) <=> \E i \in DOMAIN calls : x \in Range(f[i])
  <2>1. f = [i \in DOMAIN calls |-> f[i]] /\ \A i \in DOMAIN calls : IsSeq(f[i])
    BY <1>1, <1>3
  <2> QED
    BY <2>1, EachGives
<1>5. \A x : (\E i \in DOMAIN calls : x \in Range(f[i])) <=> \E call \in Range(calls) : x \in Range(e(call))
  BY <1>1 DEF Range
<1>6. \A x : x \in Range(FlattenSeq(f)) <=> \E call \in Range(calls) : x \in Range(e(call))
  BY <1>4, <1>5
<1> QED
  BY <1>2, <1>4, <1>6 DEF e

-----------------------------------------------------------------------------
(* The moves in a lane.                                                    *)

\* The squares between two of the board are on it.
LEMMA CellsBetween ==
    ASSUME NEW p \in Cells, NEW d, NEW n \in Nat, Step(p, d, n) \in Cells, NEW k \in 0 .. n
    PROVE  Step(p, d, k) \in Cells /\ k \in Offsets
<1>1. PICK w \in Nat, h \in Nat : w = Width /\ h = Height
  BY RulesAssumption
<1>2. PICK x \in 0 .. w - 1, y \in 0 .. h - 1 : p = <<x, y>>
  <2>1. \E x \in 0 .. w - 1, y \in 0 .. h - 1 : p = <<x, y>>
    BY <1>1 DEF Cells
  <2> QED
    BY <2>1
<1>3. Step(p, d, k) \in Cells
  <2>1. CASE d = "horizontal"
    <3>1. Step(p, d, n) = <<x + n, y>> /\ Step(p, d, k) = <<x + k, y>>
      BY <1>2, <2>1 DEF Step
    <3>2. x + n \in 0 .. w - 1
      BY <1>1, <3>1 DEF Cells
    <3>3. x + k \in 0 .. w - 1
      BY <3>2
    <3> QED
      BY <1>1, <3>1, <3>3 DEF Cells
  <2>2. CASE d # "horizontal"
    <3>1. Step(p, d, n) = <<x, y + n>> /\ Step(p, d, k) = <<x, y + k>>
      BY <1>2, <2>2 DEF Step
    <3>2. y + n \in 0 .. h - 1
      BY <1>1, <3>1 DEF Cells
    <3>3. y + k \in 0 .. h - 1
      BY <3>2
    <3> QED
      BY <1>1, <3>1, <3>3 DEF Cells
  <2> QED
    BY <2>1, <2>2
<1> QED
  BY <1>3, FarIsOff

\* The tiles t on the squares O from the anchor p on.
InLane(s, rack, p, d, O, t) ==
    /\ O \subseteq Offsets /\ 0 \in O /\ Cardinality(O) <= RackSize
    /\ \A k \in 0 .. Max(O) : k \in O <=> ~Filled(s.board, Step(p, d, k))
    /\ Step(p, d, Max(O) + 1) \in Cells
    /\ t \in [O -> AnyTile] /\ \A o \in O : Has(rack, t[o])

\* The moves of a rack in its lanes.
LEMMA InLanesAre ==
    ASSUME NEW s, NEW rack, NEW c
    PROVE  c \in InLanes(s, rack) <=>
             /\ Uses(rack, c)
             /\ \E p \in Cells, d \in Directions :
                  s.anchor[p] /\ \E O, t : /\ InLane(s, rack, p, d, O, t)
                                           /\ c = [start |-> p, direction |-> d, tiles |-> t]
<1> DEFINE tiles == {t \in [letter : Letters, blank : BOOLEAN] : Has(rack, t)}
           lanes == [start : {p \in Cells : s.anchor[p]}, direction : Directions]
           offsets == {O \in SUBSET Offsets : 0 \in O /\ Cardinality(O) <= RackSize}
           fitting(l) == {O \in offsets :
               /\ \A k \in 0 .. Max(O) : k \in O <=> ~Filled(s.board, At(l, k))
               /\ At(l, Max(O) + 1) \in Cells}
           moves(l) == UNION {{[start |-> l.start, direction |-> l.direction, tiles |-> t] :
                                t \in [O -> tiles]} : O \in fitting(l)}
<1>1. InLanes(s, rack) = {x \in UNION {moves(l) : l \in lanes} : Uses(rack, x)}
  BY DEF InLanes
<1>2. \A O : \A t : t \in [O -> tiles] <=> t \in [O -> AnyTile] /\ \A o \in O : Has(rack, t[o])
  BY DEF AnyTile
<1>3. \A l : l \in lanes <=> \E p \in Cells, d \in Directions :
                                s.anchor[p] /\ l = [start |-> p, direction |-> d]
  OBVIOUS
<1>4. ASSUME NEW p, NEW d, NEW l, l = [start |-> p, direction |-> d], NEW O, NEW t
      PROVE  O \in fitting(l) /\ t \in [O -> tiles] <=> InLane(s, rack, p, d, O, t)
  <2>1. \A k : At(l, k) = Step(p, d, k)
    BY <1>4 DEF At
  <2>2. O \in fitting(l) <=>
          /\ O \subseteq Offsets /\ 0 \in O /\ Cardinality(O) <= RackSize
          /\ \A k \in 0 .. Max(O) : k \in O <=> ~Filled(s.board, Step(p, d, k))
          /\ Step(p, d, Max(O) + 1) \in Cells
    BY <2>1
  <2> HIDE DEF fitting, tiles
  <2> QED
    BY <1>2, <2>2 DEF InLane
<1>5. \A l : \A x : x \in moves(l) <=>
         \E O, t : /\ O \in fitting(l) /\ t \in [O -> tiles]
                   /\ x = [start |-> l.start, direction |-> l.direction, tiles |-> t]
  <2> HIDE DEF fitting, tiles
  <2> QED
    OBVIOUS
<1>6. c \in InLanes(s, rack) <=> Uses(rack, c) /\ \E l \in lanes : c \in moves(l)
  <2> HIDE DEF moves, lanes
  <2> QED
    BY <1>1
<1> HIDE DEF tiles, lanes, offsets, fitting, moves
<1>7. (\E l \in lanes : c \in moves(l)) <=>
        \E p \in Cells, d \in Directions :
           s.anchor[p] /\ \E O, t : /\ InLane(s, rack, p, d, O, t)
                                    /\ c = [start |-> p, direction |-> d, tiles |-> t]
  <2>1. ASSUME NEW l \in lanes, c \in moves(l)
        PROVE  \E p \in Cells, d \in Directions :
                 s.anchor[p] /\ \E O, t : /\ InLane(s, rack, p, d, O, t)
                                          /\ c = [start |-> p, direction |-> d, tiles |-> t]
    <3>1. PICK p \in Cells, d \in Directions : s.anchor[p] /\ l = [start |-> p, direction |-> d]
      BY <1>3, <2>1
    <3>2. PICK O, t : /\ O \in fitting(l) /\ t \in [O -> tiles]
                      /\ c = [start |-> l.start, direction |-> l.direction, tiles |-> t]
      BY <1>5, <2>1
    <3>3. InLane(s, rack, p, d, O, t)
      BY <1>4, <3>1, <3>2
    <3> QED
      BY <3>1, <3>2, <3>3
  <2>2. ASSUME NEW p \in Cells, NEW d \in Directions, s.anchor[p], NEW O, NEW t,
               InLane(s, rack, p, d, O, t), c = [start |-> p, direction |-> d, tiles |-> t]
        PROVE  \E l \in lanes : c \in moves(l)
    <3>1. PICK l : l = [start |-> p, direction |-> d]
      OBVIOUS
    <3>2. l \in lanes
      BY <1>3, <2>2, <3>1
    <3>3. O \in fitting(l) /\ t \in [O -> tiles]
      BY <1>4, <2>2, <3>1
    <3>4. c = [start |-> l.start, direction |-> l.direction, tiles |-> t]
      BY <2>2, <3>1
    <3> QED
      BY <1>5, <3>2, <3>3, <3>4
  <2> QED
    BY <2>1, <2>2
<1> QED
  BY <1>6, <1>7

-----------------------------------------------------------------------------
(* The rack.                                                               *)

LEMMA SomeCounted ==
    ASSUME NEW S, IsFiniteSet(S), NEW x \in S
    PROVE  Cardinality(S) \in Nat /\ Cardinality(S) >= 1
<1>1. Cardinality(S) \in Nat /\ Cardinality(S \ {x}) \in Nat
      /\ Cardinality(S \ {x}) < Cardinality(S)
  BY LessOne, FS_CardinalityType
<1> QED
  BY <1>1

\* How many of a set of offsets have a tile with letter l, or a blank.
Lettered(t, O, l) == {o \in O : t[o] = [letter |-> l, blank |-> FALSE]}
Blanks(t, O) == {o \in O : t[o].blank}

\* A rack that can pay for a move has each of its tiles.
LEMMA UsesHas ==
    ASSUME NEW rack \in Rack, NEW c, IsFiniteSet(DOMAIN c.tiles), Uses(rack, c),
           NEW o \in DOMAIN c.tiles, c.tiles[o] \in AnyTile
    PROVE  Has(rack, c.tiles[o])
<1>1. PICK O, t : O = DOMAIN c.tiles /\ t = c.tiles
  OBVIOUS
<1>2. \A S : S \subseteq O => IsFiniteSet(S)
  BY <1>1, FS_Subset
<1>3. PICK tile \in AnyTile : tile = t[o]
  BY <1>1
<1>4. rack.blanks \in Nat /\ \A l \in Letters : rack.counts[l] \in Nat
  BY DEF Rack
<1>5. CASE tile.blank
  <2>1. PICK S : S = {j \in O : t[j].blank}
    OBVIOUS
  <2>2. o \in S /\ IsFiniteSet(S)
    BY <1>1, <1>2, <1>3, <1>5, <2>1
  <2>3. Cardinality(S) \in Nat /\ Cardinality(S) >= 1
    BY <2>2, SomeCounted
  <2>4. Cardinality(S) <= rack.blanks
    BY <1>1, <2>1 DEF Uses
  <2> QED
    BY <1>1, <1>3, <1>4, <1>5, <2>3, <2>4 DEF Has
<1>6. CASE ~tile.blank
  <2>0. PICK l \in Letters : tile = [letter |-> l, blank |-> FALSE] /\ tile.letter = l
    <3>1. tile.letter \in Letters /\ tile = [letter |-> tile.letter, blank |-> FALSE]
      BY <1>6 DEF AnyTile
    <3> QED
      BY <3>1
  <2>1. PICK S : S = {j \in O : t[j] = [letter |-> l, blank |-> FALSE]}
    OBVIOUS
  <2>2. o \in S /\ IsFiniteSet(S)
    BY <1>1, <1>2, <1>3, <2>0, <2>1
  <2>3. Cardinality(S) \in Nat /\ Cardinality(S) >= 1
    BY <2>2, SomeCounted
  <2>4. Cardinality(S) <= rack.counts[l]
    BY <1>1, <2>1 DEF Uses
  <2> QED
    BY <1>1, <1>3, <1>4, <1>6, <2>0, <2>3, <2>4 DEF Has
<1> QED
  BY <1>5, <1>6

-----------------------------------------------------------------------------
(* Only moves in the lane are found.                                       *)

IsCall(call) ==
    /\ call = [found |-> call.found, tiles |-> call.tiles, rack |-> call.rack, step |-> call.step]
    /\ call.found \in BOOLEAN

\* The tiles fill every free square before the k-th.
Fills(s, lane, k, tiles) ==
    /\ tiles = [o \in DOMAIN tiles |-> tiles[o]]
    /\ DOMAIN tiles = {o \in Nat : o < k /\ ~Filled(s.board, At(lane, o))}
    /\ \A o \in DOMAIN tiles : tiles[o] \in AnyTile

\* A call before the k-th square: what is found is a valid move in its lane, and what
\* goes on has filled the lane so far.
Sound(s, rack, lane, k, call) ==
    /\ IsCall(call)
    /\ call.found => MoveOf(lane, call) \in InLanes(s, rack) /\ Valid(s, MoveOf(lane, call))
    /\ ~call.found => At(lane, k) \in Cells /\ Fills(s, lane, k, call.tiles)

\* A move that is found is in its lane.
LEMMA FoundInLane ==
    ASSUME NEW s, NEW rack \in Rack, NEW p \in Cells, NEW d \in Directions, s.anchor[p],
           ~Filled(s.board, p), NEW k \in Nat, NEW lane, lane = Lane(p, d), At(lane, k) \in Cells,
           NEW call, Fills(s, lane, k, call.tiles), Found(s, rack, lane, call)
    PROVE  MoveOf(lane, call) \in InLanes(s, rack)
<1>1. PICK c, t, O : c = MoveOf(lane, call) /\ t = call.tiles /\ O = DOMAIN t
  OBVIOUS
<1>2. c = [start |-> p, direction |-> d, tiles |-> t]
  BY <1>1 DEF MoveOf, Lane
<1>3. \A j : At(lane, j) = Step(p, d, j)
  BY DEF At, Lane
<1>4. /\ t = [o \in O |-> t[o]] /\ O = {o \in Nat : o < k /\ ~Filled(s.board, Step(p, d, o))}
      /\ \A o \in O : t[o] \in AnyTile
  BY <1>1, <1>3 DEF Fills
<1>5. O # {}
  <2>1. SUFFICES ASSUME O = {} PROVE FALSE
    OBVIOUS
  <2>2. t = <<>>
    BY <1>4, <2>1
  <2> QED
    BY <1>1, <2>2 DEF Found
<1>6. k >= 1 /\ Step(p, d, 0) = p /\ 0 \in O
  <2>1. k >= 1
    BY <1>4, <1>5
  <2>2. Step(p, d, 0) = p
    BY Steps, CellsAreSquares
  <2> QED
    BY <1>4, <2>1, <2>2
<1>7. \A j \in 0 .. k : Step(p, d, j) \in Cells /\ j \in Offsets
  BY <1>3, CellsBetween
<1>8. O \subseteq Offsets /\ O \subseteq 0 .. k
  BY <1>4, <1>7
<1>9. PICK m \in Nat : m = Max(O) /\ m \in O /\ m + 1 \in 0 .. k
  <2>1. Max(O) \in O
    BY <1>5, <1>8, GreatestIs
  <2> QED
    BY <1>4, <2>1
<1>10. Uses(rack, c) /\ FitsRack(c)
  BY <1>1 DEF Found, Valid
<1>11. Cardinality(O) <= RackSize
  BY <1>1, <1>2, <1>10 DEF FitsRack
<1>12. \A j \in 0 .. m : j \in O <=> ~Filled(s.board, Step(p, d, j))
  BY <1>4, <1>9
<1>13. Step(p, d, m + 1) \in Cells
  BY <1>7, <1>9
<1>14. t \in [O -> AnyTile]
  BY <1>4
<1>15. \A o \in O : Has(rack, t[o])
  <2>1. IsFiniteSet(O)
    <3>1. IsFiniteSet(0 .. k)
      BY FS_Interval
    <3> QED
      BY <1>8, <3>1, FS_Subset
  <2>2. DOMAIN c.tiles = O /\ c.tiles = t
    BY <1>1, <1>2
  <2> QED
    BY <1>4, <1>10, <2>1, <2>2, UsesHas
<1>16. InLane(s, rack, p, d, O, t)
  BY <1>6, <1>8, <1>9, <1>11, <1>12, <1>13, <1>14, <1>15 DEF InLane
<1> QED
  BY <1>1, <1>2, <1>10, <1>16, InLanesAre

\* One square keeps the calls sound,
LEMMA SoundStep ==
    ASSUME NEW s, NEW rack \in Rack, NEW p \in Cells, NEW d \in Directions, s.anchor[p],
           ~Filled(s.board, p), NEW k \in Nat, NEW lane, lane = Lane(p, d),
           NEW call, Sound(s, rack, lane, k, call),
           NEW x \in Range(Expanded(s, rack, lane, k, call))
    PROVE  Sound(s, rack, lane, k + 1, x)
<1>1. CASE call.found
  <2>1. x = call
    BY <1>1, ExpandedHas
  <2> QED
    BY <1>1, <2>1 DEF Sound
<1>2. CASE ~call.found /\ Found(s, rack, lane, call) /\ x = [call EXCEPT !.found = TRUE]
  <2>1. x = [found |-> TRUE, tiles |-> call.tiles, rack |-> call.rack, step |-> call.step]
    BY <1>2 DEF Sound, IsCall
  <2>2. IsCall(x) /\ x.found /\ x.tiles = call.tiles
    BY <2>1 DEF IsCall
  <2>3. MoveOf(lane, x) = MoveOf(lane, call)
    BY <2>2 DEF MoveOf
  <2>4. MoveOf(lane, call) \in InLanes(s, rack)
    BY <1>2, FoundInLane DEF Sound
  <2>5. Valid(s, MoveOf(lane, call))
    BY <1>2 DEF Found
  <2> QED
    BY <2>2, <2>3, <2>4, <2>5 DEF Sound
<1>3. CASE ~call.found /\ x \in Range(CallsFrom(s, lane, k, call))
  <2>1. PICK t : t = call.tiles
    OBVIOUS
  <2>2. Fills(s, lane, k, t) /\ At(lane, k) \in Cells
    BY <1>3, <2>1 DEF Sound
  <2>3. CASE Filled(s.board, At(lane, k))
    <3>1. PICK step : x \in Range(CallOn(lane, k, t, call.rack, step))
      BY <1>3, <2>1, <2>3, CallsAre
    <3>2. At(lane, k + 1) \in Cells /\ x = Call(t, call.rack, step)
      BY <3>1, CallOnIs
    <3>3. {o \in Nat : o < k /\ ~Filled(s.board, At(lane, o))}
            = {o \in Nat : o < k + 1 /\ ~Filled(s.board, At(lane, o))}
      <4>1. \A o \in Nat : o < k + 1 <=> o < k \/ o = k
        OBVIOUS
      <4> QED
        BY <2>3, <4>1
    <3>4. Fills(s, lane, k + 1, t)
      BY <2>2, <3>3 DEF Fills
    <3>5. IsCall(x) /\ ~x.found /\ x.tiles = t
      BY <3>2 DEF Call, IsCall
    <3> QED
      BY <3>2, <3>4, <3>5 DEF Sound
  <2>4. CASE ~Filled(s.board, At(lane, k))
    <3>1. PICK tile \in AnyTile : \E r, step :
             x \in Range(CallOn(lane, k, WithTile(t, k, tile), r, step))
      BY <1>3, <2>1, <2>4, CallsAre DEF Fits
    <3>2. PICK r, step : x \in Range(CallOn(lane, k, WithTile(t, k, tile), r, step))
      BY <3>1
    <3>3. PICK u : u = WithTile(t, k, tile)
      OBVIOUS
    <3>4. At(lane, k + 1) \in Cells /\ x = Call(u, r, step)
      BY <3>2, <3>3, CallOnIs
    <3>5. DOMAIN u = DOMAIN t \cup {k} /\ u = [o \in DOMAIN u |-> u[o]]
          /\ \A o \in DOMAIN u : u[o] = IF o = k THEN tile ELSE t[o]
      BY <3>3 DEF WithTile
    <3>6. DOMAIN u = {o \in Nat : o < k + 1 /\ ~Filled(s.board, At(lane, o))}
      <4>1. \A o \in Nat : o < k + 1 <=> o < k \/ o = k
        OBVIOUS
      <4> QED
        BY <2>2, <2>4, <3>5, <4>1 DEF Fills
    <3>7. \A o \in DOMAIN u : u[o] \in AnyTile
      BY <2>2, <3>5 DEF Fills
    <3>8. Fills(s, lane, k + 1, u)
      BY <3>5, <3>6, <3>7 DEF Fills
    <3>9. IsCall(x) /\ ~x.found /\ x.tiles = u
      BY <3>4 DEF Call, IsCall
    <3> QED
      BY <3>4, <3>8, <3>9 DEF Sound
  <2> QED
    BY <2>3, <2>4
<1> QED
  BY <1>1, <1>2, <1>3, ExpandedHas

\* so expand_lane gives only valid moves of the lane.
LEMMA LaneIsSound ==
    ASSUME NEW s, NEW rack \in Rack, NEW p \in Cells, NEW d \in Directions, s.anchor[p],
           ~Filled(s.board, p), NEW seed
    PROVE  /\ IsSeq(ExpandLane(s, rack, Lane(p, d), seed))
           /\ \A c \in Range(ExpandLane(s, rack, Lane(p, d), seed)) :
                c \in InLanes(s, rack) /\ Valid(s, c)
<1>1. PICK lane : lane = Lane(p, d)
  OBVIOUS
<1>a. PICK m \in Nat : \E g : /\ Offsets = 0 .. m /\ Through(g, s, rack, lane, seed, m)
                              /\ ExpandLane(s, rack, lane, seed) = MovesAlong(lane, g[m])
  BY ExpandIs
<1>2. PICK g : /\ Offsets = 0 .. m /\ Through(g, s, rack, lane, seed, m)
               /\ ExpandLane(s, rack, lane, seed) = MovesAlong(lane, g[m])
  BY <1>a
<1>3. PICK first : first = Call(<<>>, rack, seed)
  OBVIOUS
<1>4. \A k \in 0 .. m : g[k] = Across(s, rack, lane, k, IF k = 0 THEN <<first>> ELSE g[k - 1])
  BY <1>2, <1>3 DEF Through
<1> DEFINE good(q, k) == IsSeq(q) /\ \A x \in Range(q) : Sound(s, rack, lane, k, x)
<1>5. ASSUME NEW k \in Nat, NEW q, good(q, k)
      PROVE  good(Across(s, rack, lane, k, q), k + 1)
  <2>1. IsSeq(Across(s, rack, lane, k, q))
    BY <1>5, AcrossHas
  <2>2. ASSUME NEW x \in Range(Across(s, rack, lane, k, q)) PROVE Sound(s, rack, lane, k + 1, x)
    <3>1. PICK call \in Range(q) : x \in Range(Expanded(s, rack, lane, k, call))
      BY <1>5, <2>2, AcrossHas
    <3>2. Sound(s, rack, lane, k, call)
      BY <1>5
    <3> QED
      BY <1>1, <3>1, <3>2, SoundStep
  <2> QED
    BY <2>1, <2>2
<1>6. good(<<first>>, 0)
  <2>1. IsSeq(<<first>>) /\ Range(<<first>>) = {first}
    BY SeqsAre
  <2>2. At(lane, 0) = p
    BY <1>1, Steps, CellsAreSquares DEF At, Lane
  <2>3. Fills(s, lane, 0, <<>>)
    <3>1. {o \in Nat : o < 0 /\ ~Filled(s.board, At(lane, o))} = {}
      OBVIOUS
    <3>2. DOMAIN <<>> = {} /\ <<>> = [o \in {} |-> <<>>[o]]
      OBVIOUS
    <3> QED
      BY <3>1, <3>2 DEF Fills
  <2>4. IsCall(first) /\ ~first.found /\ first.tiles = <<>>
    BY <1>3 DEF Call, IsCall
  <2>5. Sound(s, rack, lane, 0, first)
    BY <2>2, <2>3, <2>4 DEF Sound
  <2> QED
    BY <2>1, <2>5
<1> DEFINE bad == {k \in Nat : k <= m /\ ~good(g[k], k + 1)}
<1>7. 0 \notin bad
  <2>1. g[0] = Across(s, rack, lane, 0, <<first>>)
    BY <1>4
  <2>2. good(g[0], 0 + 1)
    <3> HIDE DEF good
    <3> QED
      BY <1>5, <1>6, <2>1
  <2> QED
    BY <2>2
<1>8. ASSUME NEW n \in Nat, n \notin bad PROVE n + 1 \notin bad
  <2>1. SUFFICES ASSUME n + 1 <= m PROVE good(g[n + 1], (n + 1) + 1)
    OBVIOUS
  <2>2. good(g[n], n + 1)
    BY <1>8, <2>1
  <2>3. g[n + 1] = Across(s, rack, lane, n + 1, g[n])
    <3>1. n + 1 \in 0 .. m /\ n + 1 # 0 /\ (n + 1) - 1 = n
      BY <2>1
    <3> QED
      BY <1>4, <3>1
  <2> HIDE DEF good
  <2> QED
    BY <1>5, <2>2, <2>3
<1>9. good(g[m], m + 1)
  <2>1. bad = {}
    <3>1. bad \subseteq Nat
      OBVIOUS
    <3> HIDE DEF bad
    <3> QED
      BY <1>7, <1>8, <3>1, FromZeroOn
  <2> HIDE DEF good
  <2> QED
    BY <2>1
<1>10. PICK q : q = g[m]
  OBVIOUS
<1>11. IsSeq(q) /\ \A x \in Range(q) : Sound(s, rack, lane, m + 1, x)
  BY <1>9, <1>10
<1>12. At(lane, m + 1) \notin Cells
  <2>1. m + 1 \notin Offsets /\ m + 1 \in Nat
    BY <1>2
  <2>2. At(lane, m + 1) = Step(p, d, m + 1)
    BY <1>1 DEF At, Lane
  <2> QED
    BY <2>1, <2>2, FarIsOff
<1>13. \A x \in Range(q) : MoveOf(lane, x) \in InLanes(s, rack) /\ Valid(s, MoveOf(lane, x))
  BY <1>11, <1>12 DEF Sound
<1>14. PICK n \in Nat : DOMAIN q = 1 .. n
  BY <1>11 DEF IsSeq
<1>15. PICK r : r = MovesAlong(lane, q)
  OBVIOUS
<1>16. r = [i \in 1 .. n |-> MoveOf(lane, q[i])]
  BY <1>14, <1>15 DEF MovesAlong
<1>17. IsSeq(r)
  <2>1. PICK R : R = Range(r)
    OBVIOUS
  <2>2. r \in [1 .. n -> R]
    BY <1>16, <2>1 DEF Range
  <2> QED
    BY <2>1, <2>2 DEF IsSeq
<1>18. ASSUME NEW c \in Range(r) PROVE c \in InLanes(s, rack) /\ Valid(s, c)
  <2>1. PICK i \in 1 .. n : c = MoveOf(lane, q[i])
    BY <1>16, <1>18 DEF Range
  <2>2. q[i] \in Range(q)
    BY <1>14, <2>1 DEF Range
  <2> QED
    BY <1>13, <2>1, <2>2
<1> QED
  BY <1>1, <1>2, <1>10, <1>15, <1>17, <1>18

-----------------------------------------------------------------------------
(* Every move in the lane is found.                                        *)

\* What a rack has left when the tiles on U have been taken from it.
Left(r, rack, t, U) ==
    /\ r \in [counts : [Letters -> Int], blanks : Int]
    /\ \A l \in Letters : r.counts[l] = rack.counts[l] - Cardinality(Lettered(t, U, l))
    /\ r.blanks = rack.blanks - Cardinality(Blanks(t, U))

\* A rack that can pay for the move has its next tile, after those before it.
LEMMA LeftHas ==
    ASSUME NEW rack \in Rack, NEW c, NEW t, NEW O, t = c.tiles, O = DOMAIN t, IsFiniteSet(O),
           t \in [O -> AnyTile], Uses(rack, c), NEW U, U \subseteq O, NEW k \in O \ U,
           NEW r, Left(r, rack, t, U)
    PROVE  Has(r, t[k]) /\ Left(Consume(r, t[k]), rack, t, U \cup {k})
<1>1. PICK V : V = U \cup {k}
  OBVIOUS
<1>2. \A S : S \subseteq O => IsFiniteSet(S) /\ Cardinality(S) \in Nat
  BY FS_Subset, FS_CardinalityType
<1>3. PICK tile \in AnyTile : tile = t[k]
  OBVIOUS
<1>4. /\ rack.blanks \in Nat /\ \A l \in Letters : rack.counts[l] \in Nat
      /\ r.blanks \in Int /\ \A l \in Letters : r.counts[l] \in Int
      /\ r = [counts |-> r.counts, blanks |-> r.blanks] /\ r.counts \in [Letters -> Int]
  BY DEF Rack, Left
<1>5. ASSUME NEW S, NEW T, S \subseteq U, T \subseteq O, S \cup {k} \subseteq T
      PROVE  /\ Cardinality(S) \in Nat /\ Cardinality(S \cup {k}) = Cardinality(S) + 1
             /\ Cardinality(S) + 1 <= Cardinality(T)
  <2>1. IsFiniteSet(S) /\ Cardinality(S) \in Nat /\ k \notin S /\ IsFiniteSet(T)
    BY <1>2, <1>5
  <2>2. Cardinality(S \cup {k}) = Cardinality(S) + 1
    BY <2>1, FS_AddElement
  <2>3. Cardinality(S \cup {k}) <= Cardinality(T)
    BY <1>5, <2>1, FS_Subset
  <2> QED
    BY <2>1, <2>2, <2>3
<1>6. CASE tile.blank
  <2>1. PICK B, C, D : B = Blanks(t, U) /\ C = Blanks(t, V) /\ D = {o \in O : t[o].blank}
    OBVIOUS
  <2>2. C = B \cup {k} /\ B \subseteq U /\ D \subseteq O /\ B \cup {k} \subseteq D
    BY <1>1, <1>3, <1>6, <2>1 DEF Blanks
  <2>3. Cardinality(B) \in Nat /\ Cardinality(C) = Cardinality(B) + 1
        /\ Cardinality(B) + 1 <= Cardinality(D)
    BY <1>5, <2>2
  <2>4. Cardinality(D) <= rack.blanks /\ Cardinality(D) \in Nat
    BY <1>2, <2>1, <2>2 DEF Uses
  <2>5. r.blanks = rack.blanks - Cardinality(B)
    BY <2>1 DEF Left
  <2>6. r.blanks > 0 /\ r.blanks - 1 = rack.blanks - Cardinality(C)
    BY <1>4, <2>3, <2>4, <2>5
  <2>7. Has(r, tile)
    BY <1>6, <2>6 DEF Has
  <2>8. Consume(r, tile) = [counts |-> r.counts, blanks |-> r.blanks - 1]
    BY <1>4, <1>6 DEF Consume
  <2>9. \A l \in Letters : Lettered(t, V, l) = Lettered(t, U, l)
    <3>1. \A l : t[k] # [letter |-> l, blank |-> FALSE]
      BY <1>3, <1>6
    <3> QED
      BY <1>1, <3>1 DEF Lettered
  <2>10. Left(Consume(r, tile), rack, t, V)
    <3>1. PICK x : x = Consume(r, tile)
      OBVIOUS
    <3>2. x.counts = r.counts /\ x.blanks = r.blanks - 1
          /\ x \in [counts : [Letters -> Int], blanks : Int]
      BY <1>4, <2>8, <3>1
    <3>3. \A l \in Letters : r.counts[l] = rack.counts[l] - Cardinality(Lettered(t, U, l))
      BY DEF Left
    <3>4. x.blanks = rack.blanks - Cardinality(Blanks(t, V))
      BY <2>1, <2>6, <3>2
    <3> QED
      BY <2>9, <3>1, <3>2, <3>3, <3>4 DEF Left
  <2> QED
    BY <1>1, <1>3, <2>7, <2>10
<1>7. CASE ~tile.blank
  <2>0. PICK l \in Letters : tile = [letter |-> l, blank |-> FALSE] /\ tile.letter = l
    <3>1. tile.letter \in Letters /\ tile = [letter |-> tile.letter, blank |-> FALSE]
      BY <1>7 DEF AnyTile
    <3> QED
      BY <3>1
  <2>1. PICK B, C, D : /\ B = Lettered(t, U, l) /\ C = Lettered(t, V, l)
                       /\ D = {o \in O : t[o] = [letter |-> l, blank |-> FALSE]}
    OBVIOUS
  <2>2. C = B \cup {k} /\ B \subseteq U /\ D \subseteq O /\ B \cup {k} \subseteq D
    BY <1>1, <1>3, <2>0, <2>1 DEF Lettered
  <2>3. Cardinality(B) \in Nat /\ Cardinality(C) = Cardinality(B) + 1
        /\ Cardinality(B) + 1 <= Cardinality(D)
    BY <1>5, <2>2
  <2>4. Cardinality(D) <= rack.counts[l] /\ Cardinality(D) \in Nat
    BY <1>2, <2>1, <2>2 DEF Uses
  <2>5. r.counts[l] = rack.counts[l] - Cardinality(B)
    BY <2>1 DEF Left
  <2>6. r.counts[l] > 0 /\ r.counts[l] - 1 = rack.counts[l] - Cardinality(C)
    BY <1>4, <2>3, <2>4, <2>5
  <2>7. Has(r, tile)
    BY <1>7, <2>0, <2>6 DEF Has
  <2>8. Consume(r, tile) = [counts |-> [r.counts EXCEPT ![l] = @ - 1], blanks |-> r.blanks]
    BY <1>4, <1>7, <2>0 DEF Consume
  <2>9. Blanks(t, V) = Blanks(t, U) /\ \A j \in Letters : j # l => Lettered(t, V, j) = Lettered(t, U, j)
    <3>1. ~t[k].blank /\ \A j : j # l => t[k] # [letter |-> j, blank |-> FALSE]
      BY <1>3, <1>7, <2>0
    <3> QED
      BY <1>1, <3>1 DEF Lettered, Blanks
  <2>10. Left(Consume(r, tile), rack, t, V)
    <3>1. PICK x : x = Consume(r, tile)
      OBVIOUS
    <3>2. x.counts = [r.counts EXCEPT ![l] = @ - 1] /\ x.blanks = r.blanks
          /\ x = [counts |-> x.counts, blanks |-> x.blanks]
      BY <2>8, <3>1
    <3>3. /\ x.counts \in [Letters -> Int] /\ x.counts[l] = r.counts[l] - 1
          /\ \A j \in Letters : j # l => x.counts[j] = r.counts[j]
      BY <1>4, <3>2
    <3>4. /\ \A j \in Letters : r.counts[j] = rack.counts[j] - Cardinality(Lettered(t, U, j))
          /\ r.blanks = rack.blanks - Cardinality(Blanks(t, U))
      BY DEF Left
    <3>5. \A j \in Letters : x.counts[j] = rack.counts[j] - Cardinality(Lettered(t, V, j))
      BY <2>1, <2>6, <2>9, <3>3, <3>4
    <3>6. x.blanks = rack.blanks - Cardinality(Blanks(t, V))
      BY <2>9, <3>2, <3>4
    <3>7. x \in [counts : [Letters -> Int], blanks : Int]
      BY <1>4, <3>2, <3>3
    <3> QED
      BY <3>1, <3>5, <3>6, <3>7 DEF Left
  <2> QED
    BY <1>1, <1>3, <2>7, <2>10
<1> QED
  BY <1>6, <1>7

\* The tile a move lays at an offset.
LEMMA LaidIs ==
    ASSUME NEW c \in Moves, NEW o \in DOMAIN c.tiles
    PROVE  At(c, o) \in Placed(c) /\ Laid(c)[At(c, o)] = c.tiles[o]
<1>1. PICK p, d : p \in Squares /\ p = c.start /\ d = c.direction
  BY CandidateIs
<1>2. \A j \in DOMAIN c.tiles : j \in Nat
  BY CandidateIs
<1>3. \A j \in DOMAIN c.tiles : At(c, j) = At(c, o) => j = o
  BY <1>1, <1>2, StepsDiffer DEF At
<1>4. (CHOOSE j \in DOMAIN c.tiles : At(c, j) = At(c, o)) = o
  BY <1>3
<1> QED
  BY <1>4 DEF Placed, Laid

LEMMA ListIs ==
    ASSUME NEW X, NEW n \in Nat, NEW f, f = [i \in 1 .. n |-> f[i]], \A i \in 1 .. n : f[i] \in X
    PROVE  f \in Seq(X) /\ Len(f) = n /\ DOMAIN f = 1 .. n
<1>1. f \in [1 .. n -> X]
  OBVIOUS
<1> QED
  BY <1>1

LEMMA SameList ==
    ASSUME NEW X, NEW v \in Seq(X), NEW w \in Seq(X), NEW n, Len(v) = n, Len(w) = n,
           \A i \in 1 .. n : v[i] = w[i]
    PROVE  v = w
  OBVIOUS

LEMMA ConcatIs ==
    ASSUME NEW X, NEW a \in Seq(X), NEW b \in Seq(X), NEW n \in Nat, NEW m \in Nat,
           n = Len(a), m = Len(b)
    PROVE  /\ a \o b \in Seq(X) /\ Len(a \o b) = n + m
           /\ \A i \in 1 .. n : (a \o b)[i] = a[i]
           /\ \A i \in n + 1 .. n + m : (a \o b)[i] = b[i - n]
<1>1. DOMAIN a = 1 .. n /\ DOMAIN b = 1 .. m
  OBVIOUS
<1>2. PICK c : c = a \o b
  OBVIOUS
<1>3. c \in Seq(X) /\ Len(c) = n + m /\ DOMAIN c = 1 .. n + m
  BY <1>1, <1>2
<1>4. /\ \A i \in 1 .. n : c[i] = a[i]
      /\ \A i \in n + 1 .. n + m : c[i] = b[i - n]
  BY <1>1, <1>2
<1> QED
  BY <1>2, <1>3, <1>4

\* The spelling of one letter.
LEMMA SpellingOne ==
    ASSUME NEW l \in Letters
    PROVE  Spelling(<<l>>) = Grapheme[l]
<1>1. PICK q \in Seq(Letters) : q = <<l>> /\ Len(q) = 1 /\ q[1] = l
  <2>1. <<l>> \in Seq(Letters) /\ Len(<<l>>) = 1 /\ <<l>>[1] = l
    OBVIOUS
  <2> QED
    BY <2>1
<1>2. PICK g : Spelt(g, q, 1) /\ g[1] = Spelling(q)
  BY <1>1, SpeltIs
<1>3. g[0] = << >> /\ g[1] = g[0] \o Grapheme[l]
  <2>1. g[0] = << >> /\ \A i \in 1 .. 1 : g[i] = g[i - 1] \o Grapheme[q[i]]
    BY <1>2 DEF Spelt
  <2>2. 1 \in 1 .. 1 /\ 1 - 1 = 0
    OBVIOUS
  <2>3. g[1] = g[1 - 1] \o Grapheme[q[1]]
    BY <2>1, <2>2
  <2> QED
    BY <1>1, <2>1, <2>2, <2>3
<1>4. Grapheme[l] \in Seq(Chars)
  BY GraphemesAre
<1>5. << >> \o Grapheme[l] = Grapheme[l]
  BY <1>4, ConcatEmptySeq
<1> QED
  BY <1>1, <1>2, <1>3, <1>5

LEMMA FrontIsPrefix ==
    ASSUME NEW X, NEW a \in Seq(X), NEW b \in Seq(X)
    PROVE  IsPrefix(a, a \o b)
<1>1. PICK w : w = a \o b
  OBVIOUS
<1>2. w \in Seq(X) /\ Len(a) <= Len(w) /\ \A i \in 1 .. Len(a) : a[i] = w[i]
  BY <1>1
<1> QED
  BY <1>1, <1>2, PrefixIs

\* The letter on the k-th square of a lane, once the move has been made.
LetterAt(c, k) ==
    IF k \in DOMAIN c.tiles THEN c.tiles[k].letter ELSE board[At(c, k)].letter

\* What has been spelt before each square begins a word.
Led(P, c) ==
    /\ \A k \in 0 .. Max(DOMAIN c.tiles) + 1 :
          P[k] \in Seq(Chars) /\ \E w \in Playable : IsPrefix(P[k], w)
    /\ \A k \in 0 .. Max(DOMAIN c.tiles) :
          LetterAt(c, k) \in Letters /\ P[k + 1] = P[k] \o Grapheme[LetterAt(c, k)]

\* A valid move spells its way along the dictionary: from the letters before the
\* anchor, which the seed has walked, to the end of the main word.
LEMMA LaneLeads ==
    ASSUME IInv, NEW c \in Moves, Valid(Here, c), 0 \in DOMAIN c.tiles,
           NEW edges, Built(WordList, edges, Playable)
    PROVE  \E P : /\ Led(P, c)
                  /\ Leads(Seed(Here, c.start, c.direction), WordList, edges, Playable, P[0])
<1>1. PICK after, p, d, O : /\ after = Filling(Here, c) /\ p = c.start /\ d = c.direction
                            /\ O = DOMAIN c.tiles
  OBVIOUS
<1>2. Here.board = board
  BY DEF Here
<1>3. board \in Boards /\ after \in Boards
  BY <1>1, FillingIs DEF IInv
<1>4. OnFreeSquares(Here, c) /\ Solid(Here, c)
  BY DEF Valid
<1>5. Put(Here, after, c)
  BY <1>1, <1>2, <1>3, <1>4, FreeIsPut
<1>6. PICK hi \in Nat : hi = Max(O) /\ hi \in O /\ \A o \in O : o \in Nat /\ o <= hi
  BY <1>1, CandidateIs
<1>7. Min(O) = 0
  <2>1. Min(O) \in O /\ \A o \in O : Min(O) <= o
    <3>1. O \subseteq Nat /\ O # {}
      BY <1>6
    <3> QED
      BY <3>1, LeastIs
  <2>2. Min(O) \in Nat /\ Min(O) <= 0
    BY <1>1, <1>6, <2>1
  <2> QED
    BY <2>2
<1>8. p \in Squares /\ FirstSquare(c) = p
  <2>1. p \in Squares
    BY <1>1, CandidateIs
  <2>2. FirstSquare(c) = Step(p, d, 0)
    BY <1>1, <1>7 DEF FirstSquare, At
  <2> QED
    BY <2>1, <2>2, Steps
<1>9. PICK n \in Nat, m \in Nat :
        /\ n = Before(after, p, d) /\ m = After(after, p, d) /\ p \in Cells
        /\ MainWord(Here, c) = WordAt(after, p, d)
        /\ \A k \in -n .. m : Filled(after, Step(p, d, k))
  BY <1>1, <1>4, <1>5, <1>8, MainIs
<1>10. hi <= m /\ n = Before(board, p, d)
  <2>1. m = (hi - 0) + After(board, LastSquare(c), d) /\ n = Before(board, p, d)
    BY <1>1, <1>2, <1>4, <1>5, <1>6, <1>7, <1>8, <1>9, SolidRun
  <2>2. LastSquare(c) \in Cells
    <3>1. LastSquare(c) \in Placed(c)
      BY <1>1, <1>6 DEF LastSquare, Placed
    <3> QED
      BY <1>5, <3>1 DEF Put
  <2>3. After(board, LastSquare(c), d) \in Nat
    BY <2>2, RunEndsThere
  <2> QED
    BY <2>1, <2>3
<1>11. PICK len \in Nat : len = n + 1 + m
  OBVIOUS
<1>12. PICK line : line = Line(after, p, d, n, m)
  OBVIOUS
<1>13. /\ line \in Seq(Letters) /\ Len(line) = len
       /\ \A i \in 1 .. len : line[i] = after[Step(p, d, i - n - 1)].letter
  <2>1. \A i \in 1 .. len : i - n - 1 \in -n .. m
    BY <1>11
  <2>2. \A i \in 1 .. len : after[Step(p, d, i - n - 1)].letter \in Letters
    <3>1. SUFFICES ASSUME NEW i \in 1 .. len PROVE after[Step(p, d, i - n - 1)].letter \in Letters
      OBVIOUS
    <3>2. PICK q : q = Step(p, d, i - n - 1)
      OBVIOUS
    <3>3. Filled(after, q)
      BY <1>9, <2>1, <3>2
    <3> QED
      BY <1>3, <3>2, <3>3, FilledTile, TileIs
  <2>3. line = [i \in 1 .. len |-> after[Step(p, d, i - n - 1)].letter]
    BY <1>11, <1>12 DEF Line
  <2> QED
    BY <2>2, <2>3
<1>14. PICK W : W = Spelling(line)
  OBVIOUS
<1>15. W \in Playable /\ W \in Seq(Chars)
  <2>1. MainWord(Here, c) = W
    BY <1>9, <1>12, <1>14, WordIs
  <2>2. W \in Seq(Chars) /\ Len(W) >= 1
    BY <1>3, <1>4, <1>5, <2>1, MainIsSpelt
  <2>3. HasWord(WordList, W)
    BY <2>1 DEF Valid
  <2> QED
    BY <2>2, <2>3, FoundIsListed
<1> DEFINE front(k) == [i \in 1 .. n + k |-> line[i]]
           rest(k) == [i \in 1 .. len - (n + k) |-> line[n + k + i]]
<1>16. ASSUME NEW k \in 0 .. hi + 1
       PROVE  /\ front(k) \in Seq(Letters) /\ Len(front(k)) = n + k
              /\ rest(k) \in Seq(Letters) /\ line = front(k) \o rest(k)
  <2>1. n + k \in Nat /\ n + k <= len /\ len - (n + k) \in Nat
    BY <1>10, <1>11
  <2>2. PICK a, b : a = front(k) /\ b = rest(k)
    OBVIOUS
  <2>3. PICK x \in Nat, y \in Nat : x = n + k /\ y = len - (n + k) /\ len = x + y
    BY <2>1
  <2>4. /\ a = [i \in 1 .. x |-> a[i]] /\ \A i \in 1 .. x : a[i] = line[i]
        /\ b = [i \in 1 .. y |-> b[i]] /\ \A i \in 1 .. y : b[i] = line[x + i]
    BY <2>2, <2>3
  <2>5. \A i \in 1 .. x + y : line[i] \in Letters
    BY <1>13, <2>3
  <2>6. a \in Seq(Letters) /\ Len(a) = x /\ b \in Seq(Letters) /\ Len(b) = y
    <3>1. \A i \in 1 .. x : a[i] \in Letters
      BY <2>4, <2>5
    <3>2. \A i \in 1 .. y : x + i \in 1 .. x + y
      OBVIOUS
    <3>3. \A i \in 1 .. y : b[i] \in Letters
      BY <2>4, <2>5, <3>2
    <3>4. a = [i \in 1 .. x |-> a[i]] /\ b = [i \in 1 .. y |-> b[i]]
      BY <2>4
    <3>5. a \in Seq(Letters) /\ Len(a) = x
      BY <3>1, <3>4, ListIs
    <3>6. b \in Seq(Letters) /\ Len(b) = y
      BY <3>3, <3>4, ListIs
    <3> QED
      BY <3>5, <3>6
  <2>7. PICK e : e = a \o b
    OBVIOUS
  <2>8. /\ e \in Seq(Letters) /\ Len(e) = x + y
        /\ \A i \in 1 .. x : e[i] = a[i]
        /\ \A i \in x + 1 .. x + y : e[i] = b[i - x]
    <3>1. /\ a \o b \in Seq(Letters) /\ Len(a \o b) = x + y
          /\ \A i \in 1 .. x : (a \o b)[i] = a[i]
          /\ \A i \in x + 1 .. x + y : (a \o b)[i] = b[i - x]
      <4>1. PICK u \in Seq(Letters), v \in Seq(Letters) :
              u = a /\ v = b /\ x = Len(u) /\ y = Len(v)
        BY <2>6
      <4>2. /\ u \o v \in Seq(Letters) /\ Len(u \o v) = x + y
            /\ \A i \in 1 .. x : (u \o v)[i] = u[i]
            /\ \A i \in x + 1 .. x + y : (u \o v)[i] = v[i - x]
        BY <4>1, ConcatIs
      <4> QED
        BY <4>1, <4>2
    <3> QED
      BY <2>7, <3>1, Zenon
  <2>9. \A i \in 1 .. x + y : e[i] = line[i]
    <3>1. SUFFICES ASSUME NEW i \in 1 .. x + y PROVE e[i] = line[i]
      OBVIOUS
    <3>2. CASE i <= x
      BY <2>4, <2>8, <3>2
    <3>3. CASE i > x
      <4>1. i - x \in 1 .. y /\ i \in x + 1 .. x + y /\ x + (i - x) = i
        BY <3>3
      <4>2. e[i] = b[i - x] /\ b[i - x] = line[x + (i - x)]
        BY <2>4, <2>8, <4>1
      <4> QED
        BY <4>1, <4>2
    <3> QED
      BY <3>2, <3>3
  <2>10. line = e
    <3>1. line \in Seq(Letters) /\ Len(line) = x + y
      BY <1>13, <2>3
    <3> QED
      BY <2>8, <2>9, <3>1, SameList
  <2> QED
    BY <2>2, <2>3, <2>6, <2>7, <2>10
<1>17. PICK P : P = [k \in 0 .. hi + 1 |-> Spelling(front(k))]
  OBVIOUS
<1>18. ASSUME NEW k \in 0 .. hi + 1 PROVE P[k] \in Seq(Chars) /\ IsPrefix(P[k], W)
  <2>1. PICK a \in Seq(Letters), b \in Seq(Letters) : a = front(k) /\ line = a \o b
    BY <1>16
  <2>2. Spelling(a) \in Seq(Chars) /\ Spelling(b) \in Seq(Chars)
    BY SpellingIs
  <2>3. W = Spelling(a) \o Spelling(b)
    BY <1>14, <2>1, SpellingJoined
  <2>4. P[k] = Spelling(a)
    BY <1>17, <2>1
  <2> QED
    BY <2>2, <2>3, <2>4, FrontIsPrefix
<1>19. ASSUME NEW k \in 0 .. hi
       PROVE  LetterAt(c, k) \in Letters /\ P[k + 1] = P[k] \o Grapheme[LetterAt(c, k)]
  <2>1. PICK l \in Letters : l = line[n + k + 1] /\ l = after[Step(p, d, k)].letter
    <3>1. n + k + 1 \in 1 .. len /\ (n + k + 1) - n - 1 = k
      BY <1>10, <1>11
    <3>2. line[n + k + 1] = after[Step(p, d, k)].letter
      BY <1>13, <3>1
    <3>3. line[n + k + 1] \in Letters
      BY <1>13, <3>1
    <3> QED
      BY <3>2, <3>3
  <2>2. k \in 0 .. hi + 1 /\ k + 1 \in 0 .. hi + 1 /\ k \in -n .. m
    BY <1>10
  <2>3. Filled(after, Step(p, d, k)) /\ At(c, k) = Step(p, d, k)
    BY <1>1, <1>9, <2>2 DEF At
  <2>4. LetterAt(c, k) = l
    <3>1. CASE k \in O
      <4>1. At(c, k) \in Placed(c) /\ Laid(c)[At(c, k)] = c.tiles[k]
        BY <1>1, <3>1, LaidIs
      <4>2. At(c, k) \in Cells /\ after[At(c, k)] = c.tiles[k]
        BY <1>5, <2>3, <4>1, FilledAfter DEF Filled, OnBoard
      <4> QED
        BY <1>1, <2>1, <2>3, <3>1, <4>2 DEF LetterAt
    <3>2. CASE k \notin O
      <4>1. At(c, k) \notin Placed(c)
        <5>1. Step(p, d, k) \in Placed(c) <=> k + 0 \in O
          BY <1>1, <1>7, <1>8, PlacedIs
        <5> QED
          BY <2>3, <3>2, <5>1
      <4>2. At(c, k) \in Cells /\ after[At(c, k)] = board[At(c, k)]
        BY <1>2, <1>5, <2>3, <4>1, FilledAfter DEF Filled
      <4> QED
        BY <1>1, <2>1, <2>3, <3>2, <4>2 DEF LetterAt
    <3> QED
      BY <3>1, <3>2
  <2>5. PICK a \in Seq(Letters), b \in Seq(Letters) :
          a = front(k) /\ b = front(k + 1) /\ Len(a) = n + k /\ Len(b) = n + (k + 1)
    BY <1>16, <2>2
  <2>6. b = a \o <<l>>
    <3>0. PICK x \in Nat : x = n + k /\ x + 1 = n + (k + 1)
      OBVIOUS
    <3>1. PICK e : e = a \o <<l>>
      OBVIOUS
    <3>2. e \in Seq(Letters) /\ Len(e) = x + 1 /\ e[x + 1] = l /\ \A i \in 1 .. x : e[i] = a[i]
      BY <2>5, <3>0, <3>1
    <3>3. /\ a = [i \in 1 .. x |-> line[i]] /\ b = [i \in 1 .. x + 1 |-> line[i]]
          /\ line[x + 1] = l
      BY <2>1, <2>5, <3>0
    <3>4. \A i \in 1 .. x + 1 : b[i] = e[i]
      BY <3>2, <3>3
    <3> QED
      <4>1. b \in Seq(Letters) /\ Len(b) = x + 1
        BY <2>5, <3>0
      <4>2. b = e
        BY <3>2, <3>4, <4>1, SameList
      <4> QED
        BY <3>1, <4>2
  <2>7. Spelling(b) = Spelling(a) \o Grapheme[l]
    <3>1. <<l>> \in Seq(Letters)
      OBVIOUS
    <3> QED
      BY <2>6, <3>1, SpellingJoined, SpellingOne
  <2>8. P[k] = Spelling(a) /\ P[k + 1] = Spelling(b)
    BY <1>17, <2>2, <2>5
  <2> QED
    BY <2>4, <2>7, <2>8
<1>20. Leads(Seed(Here, p, d), WordList, edges, Playable, P[0])
  <2>1. PICK a \in Seq(Letters) : a = front(0) /\ Len(a) = n
    <3>1. 0 \in 0 .. hi + 1 /\ n + 0 = n
      OBVIOUS
    <3>2. front(0) \in Seq(Letters) /\ Len(front(0)) = n + 0
      BY <1>16, <3>1
    <3> QED
      BY <3>1, <3>2
  <2>2. LettersBefore(board, p, d) = a
    <3>1. ASSUME NEW i \in 1 .. n PROVE board[Step(p, d, i - n - 1)].letter = line[i]
      <4>1. i - n - 1 \in -n .. m /\ i - n - 1 \in Int /\ i - n - 1 < 0 /\ i \in 1 .. len
        BY <1>11
      <4>2. Step(p, d, i - n - 1) \notin Placed(c)
        <5>1. Step(p, d, i - n - 1) \in Placed(c) <=> (i - n - 1) + 0 \in O
          BY <1>1, <1>7, <1>8, <4>1, PlacedIs
        <5>2. (i - n - 1) + 0 \notin O
          BY <1>6, <4>1
        <5> QED
          BY <5>1, <5>2
      <4>3. Filled(after, Step(p, d, i - n - 1))
        BY <1>9, <4>1
      <4>4. after[Step(p, d, i - n - 1)] = board[Step(p, d, i - n - 1)]
        BY <1>2, <1>5, <4>2, <4>3, FilledAfter DEF Filled
      <4> QED
        BY <1>13, <4>1, <4>4
    <3>2. LettersBefore(board, p, d) = [i \in 1 .. n |-> board[Step(p, d, i - n - 1)].letter]
      BY <1>10 DEF LettersBefore
    <3>3. a = [i \in 1 .. n |-> line[i]]
      BY <2>1
    <3> QED
      BY <3>1, <3>2, <3>3
  <2>3. Seed(Here, p, d) = Walk(WordList, a)
    BY <1>2, <2>2 DEF Seed
  <2>4. P[0] = Spelling(a)
    BY <1>17, <2>1
  <2> QED
    BY <2>3, <2>4, StartLeads
<1>21. Led(P, c)
  BY <1>1, <1>6, <1>15, <1>18, <1>19 DEF Led
<1> QED
  BY <1>1, <1>20, <1>21

\* The tiles of a move before a square.
TilesTo(c, k) == {o \in DOMAIN c.tiles : o < k}

\* A call that is on its way to a move: before the k-th square.
Kept(call, rack, c, edges, P, k) ==
    /\ IsCall(call) /\ ~call.found
    /\ call.tiles = [o \in TilesTo(c, k) |-> c.tiles[o]]
    /\ Left(call.rack, rack, c.tiles, TilesTo(c, k))
    /\ Leads(call.step, WordList, edges, Playable, P[k])

\* A move that the rules allow, with the rack, in its lane.
Fine(rack, c) ==
    /\ c \in Moves /\ Uses(rack, c) /\ Valid(Here, c) /\ Here.anchor[c.start]
    /\ InLane(Here, rack, c.start, c.direction, DOMAIN c.tiles, c.tiles)

\* No cut loses the move: of the calls a call on its way makes, one is on its way
\* past the next square.  The cross-check allows the tile, the rack has it and the
\* dictionary goes on.
LEMMA KeptOn ==
    ASSUME NEW rack \in Rack, NEW c, Fine(rack, c),
           NEW edges, Built(WordList, edges, Playable), NEW P, Led(P, c),
           NEW lane, lane = Lane(c.start, c.direction), NEW k \in 0 .. Max(DOMAIN c.tiles),
           NEW call, Kept(call, rack, c, edges, P, k)
    PROVE  \E x \in Range(Expanded(Here, rack, lane, k, call)) :
              Kept(x, rack, c, edges, P, k + 1)
<1>0. c \in Moves /\ Uses(rack, c) /\ Valid(Here, c)
      /\ InLane(Here, rack, c.start, c.direction, DOMAIN c.tiles, c.tiles)
  BY DEF Fine
<1>1. PICK p, d, t, O : p = c.start /\ d = c.direction /\ t = c.tiles /\ O = DOMAIN t
  OBVIOUS
<1>2. PICK hi \in Nat : hi = Max(O) /\ hi \in O /\ \A o \in O : o \in Nat /\ o <= hi
  BY <1>0, <1>1, CandidateIs
<1>3. /\ IsFiniteSet(O) /\ Cardinality(O) \in Nat /\ Cardinality(O) <= RackSize
      /\ \A j \in 0 .. hi : j \in O <=> ~Filled(board, Step(p, d, j))
      /\ Step(p, d, hi + 1) \in Cells /\ t \in [O -> AnyTile]
      /\ p \in Cells
  <2>1. IsFiniteSet(O)
    BY <1>0, <1>1, CandidateIs
  <2>2. p \in Cells
    BY <1>0, <1>1 DEF Moves
  <2> QED
    BY <1>0, <1>1, <1>2, <2>1, <2>2, FS_CardinalityType DEF InLane, Here
<1>4. k \in 0 .. hi /\ k \in Nat
  BY <1>1, <1>2
<1>5. PICK l \in Letters : l = LetterAt(c, k) /\ P[k + 1] = P[k] \o Grapheme[l]
  BY DEF Led
<1>6. /\ P[k] \in Seq(Chars) /\ P[k + 1] \in Seq(Chars)
      /\ \E w \in Playable : IsPrefix(P[k + 1], w)
  <2>1. k \in 0 .. hi + 1 /\ k + 1 \in 0 .. hi + 1
    BY <1>4
  <2> QED
    BY <1>1, <1>2, <2>1 DEF Led
<1>7. PICK step : step = Advance(WordList, call.step, l)
  OBVIOUS
<1>8. step # Stuck /\ Leads(step, WordList, edges, Playable, P[k + 1])
  <2>1. Leads(step, WordList, edges, Playable, P[k + 1])
    BY <1>5, <1>6, <1>7, LetterLeads DEF Kept
  <2>2. PICK q \in Seq(Chars) : q = P[k + 1]
    BY <1>6
  <2>3. /\ Len(q) >= 2 => (step # Stuck <=> \E w \in Playable : IsPrefix(q, w))
        /\ step = Stuck => Len(q) >= 2
    BY <2>1, <2>2, LeadsSay
  <2> QED
    BY <1>6, <2>1, <2>2, <2>3
<1>9. PICK U : U = TilesTo(c, k)
  OBVIOUS
<1>10. /\ call.tiles = [o \in U |-> t[o]] /\ Left(call.rack, rack, t, U)
       /\ ~call.found /\ U = {o \in O : o < k} /\ U \subseteq O /\ k \notin U /\ hi \notin U
  BY <1>1, <1>2, <1>4, <1>9 DEF Kept, TilesTo
<1>11. ~(Cardinality(DOMAIN call.tiles) >= RackSize)
  <2>1. DOMAIN call.tiles = U
    BY <1>10
  <2>2. IsFiniteSet(U) /\ Cardinality(U) \in Nat /\ Cardinality(U) <= Cardinality(O)
    BY <1>3, <1>10, FS_Subset, FS_CardinalityType
  <2>3. Cardinality(U) # Cardinality(O)
    BY <1>2, <1>3, <1>10, FS_Subset
  <2>4. RackSize \in Nat
    BY RulesAssumption
  <2> QED
    BY <1>3, <2>1, <2>2, <2>3, <2>4
<1>12. /\ \A j : At(lane, j) = Step(p, d, j) /\ At(c, j) = Step(p, d, j)
       /\ lane.direction = d
  BY <1>1 DEF At, Lane
<1>13. At(lane, k + 1) \in Cells
  <2>1. k + 1 \in 0 .. hi + 1 /\ hi + 1 \in Nat
    BY <1>4
  <2> QED
    BY <1>3, <1>12, <2>1, CellsBetween
<1>14. ASSUME NEW x, x \in Range(CallsFrom(Here, lane, k, call))
       PROVE  x \in Range(Expanded(Here, rack, lane, k, call))
  BY <1>10, <1>14, ExpandedHas
<1>15. Here.board = board
  BY DEF Here
<1>16. CASE k \in O
  <2>1. ~Filled(board, At(lane, k))
    BY <1>3, <1>4, <1>12, <1>16
  <2>2. PICK tile \in AnyTile : tile = t[k] /\ tile.letter = l
    BY <1>1, <1>3, <1>5, <1>16 DEF LetterAt
  <2>3. Has(call.rack, tile) /\ Left(Consume(call.rack, tile), rack, t, U \cup {k})
    <3>1. k \in O \ U
      BY <1>10, <1>16
    <3> QED
      BY <1>0, <1>1, <1>3, <1>10, <2>2, <3>1, LeftHas
  <2>4. Allows(Here.cross[At(lane, k)][lane.direction], tile.letter)
    <3>1. At(c, k) \in Placed(c) /\ Laid(c)[At(c, k)] = tile
      BY <1>0, <1>1, <1>16, <2>2, LaidIs
    <3>2. Allows(Here.cross[At(c, k)][c.direction], Laid(c)[At(c, k)].letter)
      BY <1>0, <3>1 DEF Valid
    <3> QED
      BY <1>1, <1>12, <3>1, <3>2
  <2>5. Fits(Here, lane, k, call, tile)
    BY <2>2, <2>3, <2>4 DEF Fits
  <2>6. PICK u, x : u = WithTile(call.tiles, k, tile) /\ x = Call(u, Consume(call.rack, tile), step)
    OBVIOUS
  <2>7. x \in Range(CallOn(lane, k, WithTile(call.tiles, k, tile), Consume(call.rack, tile),
                           Advance(WordList, call.step, tile.letter)))
    BY <1>7, <1>8, <1>13, <2>2, <2>6, CallOnIs
  <2>8. x \in Range(CallsFrom(Here, lane, k, call))
    BY <1>11, <1>15, <2>1, <2>5, <2>7, CallsAre
  <2>9. TilesTo(c, k + 1) = U \cup {k}
    <3>1. \A o \in O : o < k + 1 <=> o < k \/ o = k
      BY <1>2, <1>4
    <3> QED
      BY <1>1, <1>10, <1>16, <3>1 DEF TilesTo
  <2>10. u = [o \in TilesTo(c, k + 1) |-> c.tiles[o]]
    <3>1. u = [o \in U \cup {k} |-> IF o = k THEN tile ELSE call.tiles[o]]
      BY <1>10, <2>6 DEF WithTile
    <3>2. \A o \in U \cup {k} : (IF o = k THEN tile ELSE call.tiles[o]) = t[o]
      BY <1>10, <2>2
    <3> QED
      BY <1>1, <2>9, <3>1, <3>2
  <2>11. Kept(x, rack, c, edges, P, k + 1)
    <3>1. IsCall(x) /\ ~x.found /\ x.tiles = u /\ x.rack = Consume(call.rack, tile) /\ x.step = step
      BY <2>6 DEF Call, IsCall
    <3> QED
      BY <1>1, <1>8, <2>3, <2>9, <2>10, <3>1 DEF Kept
  <2> QED
    BY <1>14, <2>8, <2>11
<1>17. CASE k \notin O
  <2>1. Filled(board, At(lane, k))
    BY <1>3, <1>4, <1>12, <1>17
  <2>2. board[At(lane, k)].letter = l
    BY <1>1, <1>5, <1>12, <1>17 DEF LetterAt
  <2>3. PICK x : x = Call(call.tiles, call.rack, step)
    OBVIOUS
  <2>4. x \in Range(CallOn(lane, k, call.tiles, call.rack,
                           Advance(WordList, call.step, board[At(lane, k)].letter)))
    BY <1>7, <1>8, <1>13, <2>2, <2>3, CallOnIs
  <2>5. x \in Range(CallsFrom(Here, lane, k, call))
    BY <1>11, <1>15, <2>1, <2>4, CallsAre
  <2>6. TilesTo(c, k + 1) = U
    <3>1. \A o \in O : o < k + 1 <=> o < k
      BY <1>2, <1>4, <1>17
    <3> QED
      BY <1>1, <1>10, <3>1 DEF TilesTo
  <2>7. Kept(x, rack, c, edges, P, k + 1)
    <3>1. /\ IsCall(x) /\ ~x.found /\ x.tiles = call.tiles /\ x.rack = call.rack
          /\ x.step = step
      BY <2>3 DEF Call, IsCall
    <3> QED
      BY <1>1, <1>8, <1>10, <2>6, <3>1 DEF Kept
  <2> QED
    BY <1>14, <2>5, <2>7
<1> QED
  BY <1>16, <1>17

\* So expand_lane finds it.
LEMMA LaneFinds ==
    ASSUME IInv, NEW rack \in Rack, NEW c, Fine(rack, c),
           NEW edges, Built(WordList, edges, Playable), NEW P, Led(P, c),
           NEW lane, lane = Lane(c.start, c.direction),
           NEW seed, Leads(seed, WordList, edges, Playable, P[0])
    PROVE  seed # Stuck /\ c \in Range(ExpandLane(Here, rack, lane, seed))
<1>0. c \in Moves /\ Uses(rack, c) /\ Valid(Here, c) /\ Here.anchor[c.start]
      /\ InLane(Here, rack, c.start, c.direction, DOMAIN c.tiles, c.tiles)
  BY DEF Fine
<1>1. PICK p, d, t, O : p = c.start /\ d = c.direction /\ t = c.tiles /\ O = DOMAIN t
  OBVIOUS
<1>2. PICK hi \in Nat : hi = Max(O) /\ hi \in O /\ \A o \in O : o \in Nat /\ o <= hi
  BY <1>0, <1>1, CandidateIs
<1>3. p \in Cells /\ d \in Directions /\ c = [start |-> p, direction |-> d, tiles |-> t]
      /\ Step(p, d, hi + 1) \in Cells /\ t \in [O -> AnyTile] /\ 0 \in O
  BY <1>0, <1>1, <1>2 DEF Moves, InLane
<1>4. seed # Stuck
  <2>1. 0 \in 0 .. Max(O) + 1
    BY <1>2
  <2>2. PICK q \in Seq(Chars) : q = P[0] /\ \E w \in Playable : IsPrefix(q, w)
    BY <1>1, <2>1 DEF Led
  <2>3. /\ Len(q) >= 2 => (seed # Stuck <=> \E w \in Playable : IsPrefix(q, w))
        /\ seed = Stuck => Len(q) >= 2
    BY <2>2, LeadsSay
  <2> QED
    BY <2>2, <2>3
<1>a. PICK m \in Nat : \E g : /\ Offsets = 0 .. m /\ Through(g, Here, rack, lane, seed, m)
                              /\ ExpandLane(Here, rack, lane, seed) = MovesAlong(lane, g[m])
  BY ExpandIs
<1>5. PICK g : /\ Offsets = 0 .. m /\ Through(g, Here, rack, lane, seed, m)
               /\ ExpandLane(Here, rack, lane, seed) = MovesAlong(lane, g[m])
  BY <1>a
<1>6. PICK first : first = Call(<<>>, rack, seed)
  OBVIOUS
<1>7. \A k \in 0 .. m : g[k] = Across(Here, rack, lane, k, IF k = 0 THEN <<first>> ELSE g[k - 1])
  BY <1>5, <1>6 DEF Through
<1>8. hi + 1 <= m
  <2>1. hi + 1 \in Offsets
    BY <1>3, CellsBetween
  <2> QED
    BY <1>5, <2>1
<1> DEFINE on(x, k) == IF k <= hi + 1 THEN Kept(x, rack, c, edges, P, k)
                       ELSE x.found /\ x.tiles = t
           has(q, k) == IsSeq(q) /\ \E x \in Range(q) : on(x, k)
<1>9. ASSUME NEW k \in Nat, NEW q, has(q, k)
      PROVE  has(Across(Here, rack, lane, k, q), k + 1)
  <2>1. IsSeq(Across(Here, rack, lane, k, q))
    BY <1>9, AcrossHas
  <2>2. PICK call \in Range(q) : on(call, k)
    BY <1>9
  <2>3. \A x : x \in Range(Expanded(Here, rack, lane, k, call))
                 => x \in Range(Across(Here, rack, lane, k, q))
    BY <1>9, <2>2, AcrossHas
  <2>4. \E x \in Range(Expanded(Here, rack, lane, k, call)) : on(x, k + 1)
    <3>1. CASE k <= hi
      <4>1. k \in 0 .. Max(DOMAIN c.tiles) /\ Kept(call, rack, c, edges, P, k)
        BY <1>1, <1>2, <2>2, <3>1
      <4>2. \E x \in Range(Expanded(Here, rack, lane, k, call)) : Kept(x, rack, c, edges, P, k + 1)
        BY <4>1, KeptOn
      <4> QED
        BY <3>1, <4>2
    <3>2. CASE k = hi + 1
      <4>1. Kept(call, rack, c, edges, P, k)
        BY <2>2, <3>2
      <4>2. call.tiles = t /\ ~call.found /\ IsCall(call)
        <5>1. TilesTo(c, k) = O
          BY <1>1, <1>2, <3>2 DEF TilesTo
        <5> QED
          BY <1>1, <1>3, <4>1, <5>1 DEF Kept
      <4>3. MoveOf(lane, call) = c
        BY <1>1, <1>3, <4>2 DEF MoveOf, Lane
      <4>4. t # <<>>
        BY <1>2, <1>1
      <4>5. Found(Here, rack, lane, call)
        BY <1>0, <4>2, <4>3, <4>4 DEF Found
      <4>6. PICK x : x = [call EXCEPT !.found = TRUE]
        OBVIOUS
      <4>7. x \in Range(Expanded(Here, rack, lane, k, call))
        BY <4>2, <4>5, <4>6, ExpandedHas
      <4>8. x.found /\ x.tiles = t
        <5>1. x = [found |-> TRUE, tiles |-> call.tiles, rack |-> call.rack, step |-> call.step]
          BY <4>2, <4>6 DEF IsCall
        <5> QED
          BY <4>2, <5>1
      <4> QED
        BY <3>2, <4>7, <4>8
    <3>3. CASE k > hi + 1
      <4>1. call.found /\ call.tiles = t
        BY <2>2, <3>3
      <4>2. call \in Range(Expanded(Here, rack, lane, k, call))
        BY <4>1, ExpandedHas
      <4> QED
        BY <3>3, <4>1, <4>2
    <3> QED
      BY <1>2, <3>1, <3>2, <3>3
  <2> HIDE DEF on
  <2> QED
    BY <2>1, <2>3, <2>4
<1>10. has(<<first>>, 0)
  <2>1. IsSeq(<<first>>) /\ Range(<<first>>) = {first}
    BY SeqsAre
  <2>2. TilesTo(c, 0) = {}
    BY <1>1, <1>2 DEF TilesTo
  <2>3. IsCall(first) /\ ~first.found /\ first.tiles = <<>> /\ first.rack = rack /\ first.step = seed
    BY <1>6 DEF Call, IsCall
  <2>4. <<>> = [o \in {} |-> c.tiles[o]]
    OBVIOUS
  <2>5. Left(rack, rack, c.tiles, {})
    <3>1. Cardinality({}) = 0
      BY FS_EmptySet
    <3>2. Blanks(c.tiles, {}) = {} /\ \A l \in Letters : Lettered(c.tiles, {}, l) = {}
      BY DEF Blanks, Lettered
    <3>3. /\ rack.blanks \in Nat /\ rack.counts \in [Letters -> Nat]
          /\ rack = [counts |-> rack.counts, blanks |-> rack.blanks]
      BY DEF Rack
    <3>4. rack \in [counts : [Letters -> Int], blanks : Int]
      BY <3>3
    <3>5. \A l \in Letters : rack.counts[l] = rack.counts[l] - 0
      BY <3>3
    <3>6. rack.blanks = rack.blanks - 0
      BY <3>3
    <3> QED
      BY <3>1, <3>2, <3>4, <3>5, <3>6 DEF Left
  <2>6. Kept(first, rack, c, edges, P, 0)
    BY <2>2, <2>3, <2>4, <2>5 DEF Kept
  <2>7. 0 <= hi + 1
    BY <1>2
  <2> QED
    BY <2>1, <2>6, <2>7
<1> DEFINE bad == {k \in Nat : k <= m /\ ~has(g[k], k + 1)}
<1>11. 0 \notin bad
  <2>1. g[0] = Across(Here, rack, lane, 0, <<first>>)
    BY <1>7
  <2>2. has(g[0], 0 + 1)
    <3> HIDE DEF has
    <3> QED
      BY <1>9, <1>10, <2>1
  <2> QED
    BY <2>2
<1>12. ASSUME NEW n \in Nat, n \notin bad PROVE n + 1 \notin bad
  <2>1. SUFFICES ASSUME n + 1 <= m PROVE has(g[n + 1], (n + 1) + 1)
    OBVIOUS
  <2>2. has(g[n], n + 1)
    BY <1>12, <2>1
  <2>3. g[n + 1] = Across(Here, rack, lane, n + 1, g[n])
    <3>1. n + 1 \in 0 .. m /\ n + 1 # 0 /\ (n + 1) - 1 = n
      BY <2>1
    <3> QED
      BY <1>7, <3>1
  <2> HIDE DEF has
  <2> QED
    BY <1>9, <2>2, <2>3
<1>13. has(g[m], m + 1)
  <2>1. bad = {}
    <3>1. bad \subseteq Nat
      OBVIOUS
    <3> HIDE DEF bad
    <3> QED
      BY <1>11, <1>12, <3>1, FromZeroOn
  <2> HIDE DEF has
  <2> QED
    BY <2>1
<1>14. PICK q : q = g[m]
  OBVIOUS
<1>15. PICK x \in Range(q) : x.found /\ x.tiles = t
  <2>1. ~(m + 1 <= hi + 1)
    BY <1>8
  <2> QED
    BY <1>13, <1>14, <2>1
<1>16. MoveOf(lane, x) = c
  BY <1>1, <1>3, <1>15 DEF MoveOf, Lane
<1>17. PICK i \in DOMAIN q : q[i] = x
  BY <1>15 DEF Range
<1>18. c \in Range(MovesAlong(lane, q))
  <2>1. PICK r : r = MovesAlong(lane, q)
    OBVIOUS
  <2>2. i \in DOMAIN r /\ r[i] = c
    BY <1>16, <1>17, <2>1 DEF MovesAlong
  <2> QED
    BY <2>1, <2>2 DEF Range
<1> QED
  BY <1>4, <1>5, <1>14, <1>18

-----------------------------------------------------------------------------
(* The moves of all lanes.                                                 *)

\* The dictionary of the rules is one of those proved about.
LEMMA WordListIsBuilt == \E edges : Built(WordList, edges, Playable)
<1>1. Indexable(Playable, MaxLeafWords)
  BY RulesAssumption, Zenon
<1> QED
  BY <1>1, BuiltIs, Zenon DEF WordList

\* What is in a lane, and valid, is found there.
LEMMA InLanesAreFine ==
    ASSUME IInv, NEW rack, NEW c \in InLanes(Here, rack)
    PROVE  /\ c \in Moves /\ Uses(rack, c) /\ 0 \in DOMAIN c.tiles
           /\ c.start \in Cells /\ c.direction \in Directions
           /\ Here.anchor[c.start] /\ ~Filled(Here.board, c.start)
           /\ InLane(Here, rack, c.start, c.direction, DOMAIN c.tiles, c.tiles)
<1>0. Uses(rack, c) /\ \E p \in Cells, d \in Directions :
         Here.anchor[p] /\ \E O, t : /\ InLane(Here, rack, p, d, O, t)
                                     /\ c = [start |-> p, direction |-> d, tiles |-> t]
  BY InLanesAre
<1>1. PICK p \in Cells, d \in Directions :
         Here.anchor[p] /\ \E O, t : /\ InLane(Here, rack, p, d, O, t)
                                     /\ c = [start |-> p, direction |-> d, tiles |-> t]
  BY <1>0
<1>2. PICK O, t : InLane(Here, rack, p, d, O, t) /\ c = [start |-> p, direction |-> d, tiles |-> t]
  BY <1>1
<1>3. O \subseteq Offsets /\ 0 \in O /\ t \in [O -> AnyTile]
  BY <1>2 DEF InLane
<1>4. c.start = p /\ c.direction = d /\ c.tiles = t /\ DOMAIN t = O
  BY <1>2, <1>3
<1>5. O \in (SUBSET Offsets) \ {{}}
  BY <1>3
<1>6. c \in Moves
  BY <1>2, <1>3, <1>5 DEF Moves
<1>7. ~Filled(Here.board, p)
  <2>1. Here.anchor = Anchors(board) /\ Here.board = board
    BY DEF Here, IInv
  <2> QED
    BY <1>1, <2>1 DEF Anchors
<1> QED
  BY <1>0, <1>1, <1>2, <1>3, <1>4, <1>6, <1>7

LEMMA MovesInAre ==
    ASSUME NEW s, NEW rack \in Rack, NEW lane \in Range(Lanes(s)), NEW seed
    PROVE  /\ IsSeq(MovesIn(s, rack, lane, seed))
           /\ \A c \in Range(MovesIn(s, rack, lane, seed)) : c \in InLanes(s, rack) /\ Valid(s, c)
<1>1. PICK p \in Cells, d \in Directions : ~Filled(s.board, p) /\ s.anchor[p] /\ lane = Lane(p, d)
  BY LanesAre
<1>2. CASE seed = Stuck
  BY <1>2, SeqsAre DEF MovesIn
<1>3. CASE seed # Stuck
  BY <1>1, <1>3, LaneIsSound DEF MovesIn
<1> QED
  BY <1>2, <1>3

\* Leaving out repetitions leaves out no move.
LEMMA FirstOfHas ==
    ASSUME NEW moves, IsSeq(moves)
    PROVE  IsSeq(FirstOf(moves)) /\ Range(FirstOf(moves)) = Range(moves)
<1> DEFINE early(i) == \E j \in 1 .. i - 1 : moves[j] = moves[i]
           one(i) == IF early(i) THEN <<>> ELSE <<moves[i]>>
<1>1. PICK f : f = [i \in DOMAIN moves |-> one(i)]
  OBVIOUS
<1>2. FirstOf(moves) = FlattenSeq(f)
  BY <1>1 DEF FirstOf
<1>3. PICK n \in Nat : DOMAIN moves = 1 .. n
  BY DEF IsSeq
<1>4. ASSUME NEW i \in DOMAIN moves
      PROVE  /\ IsSeq(f[i])
             /\ \A x : x \in Range(f[i]) <=> ~early(i) /\ x = moves[i]
  <2>1. f[i] = one(i)
    BY <1>1
  <2>2. CASE early(i)
    <3>1. f[i] = <<>>
      BY <2>1, <2>2
    <3> QED
      BY <2>2, <3>1, SeqsAre
  <2>3. CASE ~early(i)
    <3>1. PICK m : m = moves[i]
      OBVIOUS
    <3>2. f[i] = <<m>>
      BY <2>1, <2>3, <3>1
    <3> QED
      BY <2>3, <3>1, <3>2, SeqsAre
  <2> QED
    BY <2>2, <2>3
<1> HIDE DEF one
<1>5. /\ IsSeq(FlattenSeq(f))
      /\ \A x : x \in Range(FlattenSeq(f)) <=> \E i \in DOMAIN moves : x \in Range(f[i])
  <2>1. f = [i \in DOMAIN moves |-> f[i]]
    BY <1>1
  <2>2. \A i \in DOMAIN moves : IsSeq(f[i])
    BY <1>4
  <2> QED
    BY <2>1, <2>2, EachGives
<1>6. ASSUME NEW x \in Range(moves) PROVE \E i \in DOMAIN moves : x \in Range(f[i])
  <2>1. PICK T : T = {i \in DOMAIN moves : moves[i] = x}
    OBVIOUS
  <2>2. T \subseteq Nat /\ T # {}
    BY <1>3, <2>1 DEF Range
  <2>3. PICK i \in T : \A j \in T : i <= j
    BY <2>2, LeastExists
  <2>4. i \in 1 .. n /\ moves[i] = x
    BY <1>3, <2>1, <2>3
  <2>5. ~early(i)
    <3>1. SUFFICES ASSUME NEW j \in 1 .. i - 1, moves[j] = moves[i] PROVE FALSE
      OBVIOUS
    <3>2. j \in 1 .. n /\ j < i
      BY <2>4
    <3>3. j \in T
      BY <1>3, <2>1, <2>4, <3>1, <3>2
    <3> QED
      BY <2>3, <2>4, <3>2, <3>3
  <2> HIDE DEF early
  <2> QED
    BY <1>3, <1>4, <2>4, <2>5
<1>7. ASSUME NEW i \in DOMAIN moves, NEW x \in Range(f[i]) PROVE x \in Range(moves)
  <2>1. x = moves[i]
    BY <1>4, <1>7
  <2> QED
    BY <2>1 DEF Range
<1>8. \A x : x \in Range(FirstOf(moves)) <=> x \in Range(moves)
  BY <1>2, <1>5, <1>6, <1>7
<1> QED
  BY <1>2, <1>5, <1>8

\* enumerate_legal_moves gives the legal moves of the lanes, all of them and no
\* others.
LEMMA LegalMovesAre ==
    ASSUME IInv, NEW rack \in Rack
    PROVE  /\ IsSeq(LegalMoves(Here, rack))
           /\ Range(LegalMoves(Here, rack)) = {c \in InLanes(Here, rack) : Legal(c)}
<1>1. PICK lanes : lanes = Lanes(Here)
  OBVIOUS
<1> DEFINE moves(i) == MovesIn(Here, rack, lanes[i], Seed(Here, lanes[i].start, lanes[i].direction))
<1>2. PICK f : f = [i \in DOMAIN lanes |-> moves(i)]
  OBVIOUS
<1>3. LegalMoves(Here, rack) = FirstOf(FlattenSeq(f))
  BY <1>1, <1>2, Zenon DEF LegalMoves
<1>4. ASSUME NEW i \in DOMAIN lanes
      PROVE  /\ IsSeq(f[i])
             /\ \A c \in Range(f[i]) : c \in InLanes(Here, rack) /\ Valid(Here, c)
  <2>1. f[i] = moves(i)
    BY <1>2
  <2>2. lanes[i] \in Range(Lanes(Here))
    BY <1>1 DEF Range
  <2> QED
    BY <2>1, <2>2, MovesInAre
<1>5. /\ IsSeq(FlattenSeq(f))
      /\ \A x : x \in Range(FlattenSeq(f)) <=> \E i \in DOMAIN lanes : x \in Range(f[i])
  <2>1. f = [i \in DOMAIN lanes |-> f[i]]
    BY <1>2
  <2>2. \A i \in DOMAIN lanes : IsSeq(f[i])
    BY <1>4
  <2>3. IsSeq(lanes)
    BY <1>1, LanesAre
  <2> HIDE DEF moves
  <2> QED
    BY <2>1, <2>2, <2>3, EachGives
<1>6. IsSeq(LegalMoves(Here, rack)) /\ Range(LegalMoves(Here, rack)) = Range(FlattenSeq(f))
  BY <1>3, <1>5, FirstOfHas
<1>7. ASSUME NEW c \in InLanes(Here, rack), Valid(Here, c)
      PROVE  \E i \in DOMAIN lanes : c \in Range(f[i])
  <2>1. /\ c \in Moves /\ Uses(rack, c) /\ 0 \in DOMAIN c.tiles
        /\ c.start \in Cells /\ c.direction \in Directions
        /\ Here.anchor[c.start] /\ ~Filled(Here.board, c.start)
        /\ InLane(Here, rack, c.start, c.direction, DOMAIN c.tiles, c.tiles)
    BY InLanesAreFine
  <2>2. Fine(rack, c)
    BY <1>7, <2>1 DEF Fine
  <2>3. PICK lane : lane = Lane(c.start, c.direction)
    OBVIOUS
  <2>4. lane \in Range(lanes)
    BY <1>1, <2>1, <2>3, LanesAre
  <2>5. PICK i \in DOMAIN lanes : lanes[i] = lane
    BY <2>4 DEF Range
  <2>6. PICK edges : Built(WordList, edges, Playable)
    BY WordListIsBuilt
  <2>7. PICK seed : seed = Seed(Here, c.start, c.direction)
    OBVIOUS
  <2>8. PICK P : Led(P, c) /\ Leads(seed, WordList, edges, Playable, P[0])
    BY <1>7, <2>1, <2>6, <2>7, LaneLeads
  <2>9. seed # Stuck /\ c \in Range(ExpandLane(Here, rack, lane, seed))
    BY <2>2, <2>3, <2>6, <2>8, LaneFinds
  <2>10. f[i] = MovesIn(Here, rack, lane, seed)
    <3>1. lane.start = c.start /\ lane.direction = c.direction
      BY <2>3 DEF Lane
    <3> QED
      BY <1>2, <2>5, <2>7, <3>1
  <2> QED
    BY <2>9, <2>10 DEF MovesIn
<1>8. \A c \in InLanes(Here, rack) : Valid(Here, c) <=> Legal(c)
  BY InLanesAreFine, ValidIsLegal
<1> HIDE DEF moves
<1>9. \A c : c \in Range(FlattenSeq(f)) <=> c \in InLanes(Here, rack) /\ Legal(c)
  BY <1>4, <1>5, <1>7, <1>8
<1> QED
  BY <1>6, <1>9

-----------------------------------------------------------------------------
(* The words a move forms.                                                 *)

\* The preview names the words across as the rules count them.
LEMMA AcrossIsFormed ==
    ASSUME IInv, NEW c \in Moves, NEW after, Put(Here, after, c), NEW p \in Placed(c)
    PROVE  LET e == Perpendicular(c.direction)
           IN  /\ Here.cross[p][c.direction].constrained <=> Cardinality(Run(after, p, e)) >= 2
               /\ WordWith(Here.board, p, e, Laid(c)[p].letter) = WordAt(after, p, e)
<1>1. PICK d, e, b, l : /\ d = c.direction /\ e = Perpendicular(d) /\ b = Here.board
                        /\ l = Laid(c)[p].letter
  OBVIOUS
<1>2. b = board /\ Here.cross = cross
  BY <1>1 DEF Here
<1>3. p \in Cells /\ p \in Squares /\ ~Filled(b, p) /\ d \in Directions
  BY <1>1, CellsAreSquares, CandidateIs DEF Put
<1>4. PICK n \in Nat, m \in Nat :
        /\ n = Before(b, p, e) /\ m = After(b, p, e)
        /\ Before(after, p, e) = n /\ After(after, p, e) = m
        /\ Run(after, p, e) = Run(b, p, e)
        /\ \A k \in -n .. m : k # 0 => after[Step(p, e, k)] = b[Step(p, e, k)]
  BY <1>1, AcrossIs
<1>5. Here.cross[p][d] = CrossCheck(b, p, d)
  BY <1>2, <1>3 DEF IInv, CacheIsExact, Filled
<1>6. CrossCheck(b, p, d).constrained <=> Run(b, p, e) \ {p} # {}
  BY <1>1, <1>3 DEF CrossCheck, Unconstrained
<1>7. Cardinality(Run(b, p, e)) >= 2 <=> Run(b, p, e) \ {p} # {}
  <2>1. Run(b, p, e) = Span(p, e, n, m)
    BY <1>3, <1>4, WordIs
  <2>2. Cardinality(Span(p, e, n, m)) >= 2 <=> Span(p, e, n, m) \ {p} # {}
    BY <1>3, SpanIs, Zenon
  <2> QED
    BY <2>1, <2>2
<1>8. after[p].letter = l
  BY <1>1, <1>3, FilledAfter DEF Put, OnBoard
<1>9. ASSUME NEW i \in 1 .. n + 1 + m, i # n + 1
      PROVE  b[Step(p, e, i - n - 1)].letter = after[Step(p, e, i - n - 1)].letter
  <2>1. i - n - 1 \in -n .. m /\ i - n - 1 # 0
    BY <1>9
  <2> QED
    BY <1>4, <2>1
<1>10. WordWith(b, p, e, l) = WordWith(after, p, e, l)
  BY <1>4, <1>9 DEF WordWith
<1>11. WordWith(after, p, e, l) = WordAt(after, p, e)
  BY <1>8 DEF WordAt
<1> QED
  BY <1>1, <1>4, <1>5, <1>6, <1>7, <1>10, <1>11

\* best_move looks at the words the move forms, and at no others.
LEMMA WordsAreFormed ==
    ASSUME IInv, NEW c \in Moves, Valid(Here, c)
    PROVE  WordsOf(Here, c) = WordsFormed(c)
<1>1. PICK after, f, d, e : /\ after = Filling(Here, c) /\ f = FirstSquare(c)
                            /\ d = c.direction /\ e = Perpendicular(d)
  OBVIOUS
<1>2. Here.board \in Boards
  BY DEF IInv, Here
<1>3. Put(Here, after, c) /\ Solid(Here, c)
  BY <1>1, <1>2, FreeIsPut DEF Valid
<1>4. MainWord(Here, c) = WordAt(after, f, d)
  BY <1>1, <1>3, MainIs
<1>5. \A p \in Placed(c) :
        /\ Here.cross[p][d].constrained <=> Cardinality(Run(after, p, e)) >= 2
        /\ WordWith(Here.board, p, e, Laid(c)[p].letter) = WordAt(after, p, e)
  BY <1>1, <1>3, AcrossIsFormed
<1>6. WordsOf(Here, c)
        = {MainWord(Here, c)} \cup
            {WordWith(Here.board, p, e, Laid(c)[p].letter) :
                p \in {q \in Placed(c) : Here.cross[q][d].constrained}}
  BY <1>1 DEF WordsOf
<1>7. WordsFormed(c)
        = {WordAt(after, f, d)} \cup
            {WordAt(after, p, e) : p \in {q \in Placed(c) : Cardinality(Run(after, q, e)) >= 2}}
  BY <1>1, Zenon DEF WordsFormed
<1> QED
  BY <1>4, <1>5, <1>6, <1>7

\* None of them is on the denylist.
LEMMA AvoidedAre ==
    ASSUME IInv, NEW c \in Moves, Legal(c), NEW greylist
    PROVE  Avoided(Here, c, greylist) <=> WordsFormed(c) \cap greylist # {}
<1>1. PICK after, f, d, e : /\ after = Filling(Here, c) /\ f = FirstSquare(c)
                            /\ d = c.direction /\ e = Perpendicular(d)
  OBVIOUS
<1>2. Valid(Here, c)
  BY ValidIsLegal
<1>3. WordAt(after, f, d) \in Playable
  BY <1>1, Zenon DEF Legal
<1>4. e \in Directions
  BY <1>1 DEF Perpendicular, Directions
<1>5. \A p \in Placed(c), g \in Directions :
         Cardinality(Run(after, p, g)) >= 2 => WordAt(after, p, g) \in Playable
  BY <1>1, Zenon DEF Legal
<1>6. WordsFormed(c)
        = {WordAt(after, f, d)} \cup
            {WordAt(after, p, e) : p \in {q \in Placed(c) : Cardinality(Run(after, q, e)) >= 2}}
  BY <1>1, Zenon DEF WordsFormed
<1>7. \A w \in WordsFormed(c) : w \in Playable
  BY <1>3, <1>4, <1>5, <1>6
<1>8. WordsOf(Here, c) = WordsFormed(c)
  BY <1>2, WordsAreFormed
<1> QED
  BY <1>7, <1>8 DEF Avoided, Playable

-----------------------------------------------------------------------------
(* A score is never negative.                                              *)

\* The products of f over the subsets of S, one element taken out after another.
Products(g, f, S) ==
    g = [s \in S |-> IF s = {} THEN 1 ELSE f[Pick(s)] * g[s \ {Pick(s)}]]

LEMMA ProductsExist ==
    ASSUME NEW S, IsFiniteSet(S), NEW f
    PROVE  \E g : Products(g, f, SUBSET S)
<1> DEFINE parts(n) == {s \in SUBSET S : Cardinality(s) <= n}
           missing == {n \in Nat : ~ \E g : Products(g, f, parts(n))}
<1>0. \A s \in SUBSET S : IsFiniteSet(s) /\ Cardinality(s) \in Nat
  BY FS_Subset, FS_CardinalityType
<1>1. 0 \notin missing
  <2>1. \A s \in parts(0) : s = {}
    BY <1>0, FS_EmptySet
  <2>2. PICK g : g = [s \in parts(0) |-> 1]
    OBVIOUS
  <2>3. Products(g, f, parts(0))
    BY <2>1, <2>2 DEF Products
  <2> QED
    BY <2>3
<1>2. ASSUME NEW n \in Nat, n \notin missing
      PROVE  n + 1 \notin missing
  <2>1. PICK g : Products(g, f, parts(n))
    BY <1>2
  <2>2. PICK h : h = [s \in parts(n + 1) |->
                        IF s = {} THEN 1 ELSE f[Pick(s)] * g[s \ {Pick(s)}]]
    OBVIOUS
  <2>3. \A t \in parts(n) : t \in parts(n + 1) /\ h[t] = g[t]
    <3>1. \A t \in parts(n) : t \in parts(n + 1)
      BY <1>0
    <3>2. \A t \in parts(n) : g[t] = IF t = {} THEN 1 ELSE f[Pick(t)] * g[t \ {Pick(t)}]
      BY <2>1 DEF Products
    <3> HIDE DEF parts
    <3> QED
      BY <2>2, <3>1, <3>2, Zenon
  <2>4. \A s \in parts(n + 1) : s # {} => s \ {Pick(s)} \in parts(n)
    <3>1. SUFFICES ASSUME NEW s \in parts(n + 1), s # {}
                   PROVE  s \ {Pick(s)} \in parts(n)
      OBVIOUS
    <3>2. Cardinality(s \ {Pick(s)}) < Cardinality(s) /\ s \ {Pick(s)} \in SUBSET S
      BY <1>0, <3>1, LessOne, PickIs
    <3>3. Cardinality(s) \in Nat /\ Cardinality(s \ {Pick(s)}) \in Nat
      BY <1>0, <3>2
    <3> QED
      BY <3>1, <3>2, <3>3
  <2>5. \A s \in parts(n + 1) :
           s # {} => g[s \ {Pick(s)}] = h[s \ {Pick(s)}]
    BY <2>3, <2>4, Zenon
  <2>6. h = [s \in parts(n + 1) |->
                        IF s = {} THEN 1 ELSE f[Pick(s)] * h[s \ {Pick(s)}]]
    <3> HIDE DEF parts
    <3> QED
      BY <2>2, <2>5
  <2> HIDE DEF parts
  <2> QED
    BY <2>6 DEF Products
<1>3. missing = {}
  <2>1. missing \subseteq Nat
    OBVIOUS
  <2> HIDE DEF missing
  <2> QED
    BY <1>1, <1>2, <2>1, FromZeroOn
<1>4. parts(Cardinality(S)) = SUBSET S
  BY FS_Subset
<1>5. \E g : Products(g, f, parts(Cardinality(S)))
  <2>1. Cardinality(S) \in Nat
    BY FS_CardinalityType
  <2> HIDE DEF parts
  <2> QED
    BY <1>3, <2>1
<1> QED
  BY <1>4, <1>5

\* A product of premiums,
LEMMA MultipliedIsNat ==
    ASSUME NEW f, IsFiniteSet(DOMAIN f), \A x \in DOMAIN f : f[x] \in Nat
    PROVE  Multiplied(f) \in Nat
<1> PICK S : S = DOMAIN f
  OBVIOUS
<1>1. \E g : Products(g, f, SUBSET S)
  BY ProductsExist
<1>2. PICK g : g = CHOOSE t : Products(t, f, SUBSET S)
  OBVIOUS
<1>3. Products(g, f, SUBSET S)
  BY <1>1, <1>2
<1>4. Multiplied(f) = g[S]
  BY <1>2, Zenon DEF Multiplied, MapThenFoldSet, Products, Pick
<1> DEFINE bad == {t \in SUBSET S : g[t] \notin Nat}
<1>5. ASSUME bad # {} PROVE FALSE
  <2>1. \A t \in SUBSET S : IsFiniteSet(t) /\ Cardinality(t) \in Nat
    BY FS_Subset, FS_CardinalityType
  <2>2. PICK t \in bad : \A u \in bad : Cardinality(t) <= Cardinality(u)
    <3>1. \A u \in bad : IsFiniteSet(u)
      BY <2>1
    <3> HIDE DEF bad
    <3> QED
      BY <1>5, <3>1, SmallestExists
  <2>3. g[t] = IF t = {} THEN 1 ELSE f[Pick(t)] * g[t \ {Pick(t)}]
    <3>1. t \in SUBSET S
      OBVIOUS
    <3> HIDE DEF bad
    <3> QED
      BY <1>3, <3>1 DEF Products
  <2>4. t # {} /\ t \in SUBSET S
    BY <2>3
  <2>5. Pick(t) \in t
    BY <2>4, PickIs
  <2>6. t \ {Pick(t)} \notin bad
    <3>1. Cardinality(t \ {Pick(t)}) < Cardinality(t)
      BY <2>1, <2>5, LessOne
    <3>2. Cardinality(t \ {Pick(t)}) \in Nat /\ Cardinality(t) \in Nat
      BY <2>1
    <3> HIDE DEF bad
    <3> QED
      BY <2>2, <3>1, <3>2
  <2>7. PICK v \in Nat : v = g[t \ {Pick(t)}]
    BY <2>4, <2>6
  <2>8. PICK u \in Nat : u = f[Pick(t)]
    BY <2>4, <2>5
  <2>9. g[t] = u * v
    BY <2>3, <2>4, <2>7, <2>8
  <2>10. u * v \in Nat
    OBVIOUS
  <2> QED
    BY <2>9, <2>10
<1>6. g[S] \in Nat
  BY <1>5
<1> QED
  BY <1>4, <1>6

\* a sum of scores,
LEMMA TotalIsNat ==
    ASSUME NEW f, IsFiniteSet(DOMAIN f), \A x \in DOMAIN f : f[x] \in Nat
    PROVE  Total(f) \in Nat
<1>1. PICK g : Sums(g, f, SUBSET DOMAIN f) /\ Total(f) = g[DOMAIN f]
  BY TotalIs
<1> QED
  BY <1>1, SumsAreNat

\* the score of a word,
LEMMA WordScoreIsNat ==
    ASSUME NEW b \in Boards, NEW c, NEW p \in Cells, NEW d, Filled(b, p)
    PROVE  WordScore(b, c, Run(b, p, d)) \in Nat
<1>0. PICK R : R = Run(b, p, d)
  OBVIOUS
<1>1. PICK n \in Nat, m \in Nat : n = Before(b, p, d) /\ m = After(b, p, d)
  BY RunEndsThere
<1>2. R = Span(p, d, n, m)
  BY <1>0, <1>1, WordIs
<1>3. IsFiniteSet(R)
  <2>1. p \in Squares
    BY CellsAreSquares
  <2>2. IsFiniteSet(Span(p, d, n, m))
    BY <2>1, SpanIs, Zenon
  <2> QED
    BY <1>2, <2>2
<1>4. \A q \in R : Filled(b, q)
  BY <1>1, <1>2, RunIsFilled DEF Span
<1>5. PICK t : t = Terms(b, c, R)
  OBVIOUS
<1>6. PICK u : u = [q \in R \cap Placed(c) |-> WordPremium[q]]
  OBVIOUS
<1>7. WordScore(b, c, R) = Sum(t, R) * Multiplied(u)
  BY <1>5, <1>6, WordScoreIs
<1>8. Sum(t, R) \in Nat
  <2>1. \A q \in R : t[q] \in Nat
    BY <1>4, <1>5, TermsAre
  <2> QED
    BY <1>3, <2>1, SumIs
<1>9. Multiplied(u) \in Nat
  <2>1. DOMAIN u = R \cap Placed(c) /\ \A q \in DOMAIN u : u[q] = WordPremium[q] /\ q \in Cells
    BY <1>4, <1>6 DEF Filled
  <2>2. IsFiniteSet(DOMAIN u)
    BY <1>3, <2>1, FS_Subset
  <2> QED
    BY <2>1, <2>2, PremiumsAre, MultipliedIsNat
<1>10. PICK x \in Nat, y \in Nat : x = Sum(t, R) /\ y = Multiplied(u)
  BY <1>8, <1>9
<1>11. x * y \in Nat
  OBVIOUS
<1> QED
  BY <1>0, <1>7, <1>10, <1>11

\* and the score of a legal move.
LEMMA LegalScoreIsNat ==
    ASSUME IInv, NEW c \in Moves, Legal(c)
    PROVE  LegalScore(c) \in Nat
<1>1. PICK after, f, d, e : /\ after = Filling(Here, c) /\ f = FirstSquare(c)
                            /\ d = c.direction /\ e = Perpendicular(d)
  OBVIOUS
<1>2. Here.board \in Boards /\ after \in Boards
  BY <1>1, FillingIs DEF IInv, Here
<1>3. Valid(Here, c)
  BY ValidIsLegal
<1>4. Put(Here, after, c)
  BY <1>1, <1>2, <1>3, FreeIsPut DEF Valid
<1>5. \A p \in Placed(c) : p \in Cells /\ Filled(after, p)
  BY <1>4 DEF Put
<1>6. f \in Placed(c)
  BY <1>1, PlacedIs
<1>7. PICK C : C = {p \in Placed(c) : Cardinality(Run(after, p, e)) >= 2}
  OBVIOUS
<1>8. PICK u : u = [p \in C |-> WordScore(after, c, Run(after, p, e))]
  OBVIOUS
<1>9. PICK main : main = WordScore(after, c, Run(after, f, d))
  OBVIOUS
<1>10. PICK bingo : bingo = IF Cardinality(Placed(c)) = RackSize THEN BingoBonus ELSE 0
  OBVIOUS
<1>11. LegalScore(c) = main + Total(u) + bingo
  BY <1>1, <1>7, <1>8, <1>9, <1>10, Zenon DEF LegalScore
<1>12. main \in Nat
  BY <1>2, <1>5, <1>6, <1>9, WordScoreIsNat
<1>13. Total(u) \in Nat
  <2>1. IsFiniteSet(C)
    BY <1>7, CountPlaced, FS_Subset
  <2>2. \A p \in C : WordScore(after, c, Run(after, p, e)) \in Nat
    BY <1>2, <1>5, <1>7, WordScoreIsNat
  <2>3. DOMAIN u = C /\ \A p \in C : u[p] = WordScore(after, c, Run(after, p, e))
    BY <1>8
  <2> QED
    BY <2>1, <2>2, <2>3, TotalIsNat
<1>14. bingo \in Nat
  BY <1>10, RulesAssumption
<1> QED
  BY <1>11, <1>12, <1>13, <1>14

-----------------------------------------------------------------------------
(* The engine plays the best of them.                                      *)

\* The best so far, after each of the moves up to the m-th.
BestSoFar(g, s, moves, greylist, m) ==
    g = [n \in 0 .. m |-> IF n = 0 THEN Pass ELSE Better(s, g[n - 1], moves[n], greylist)]

\* There is such a best,
LEMMA BestSoFarExists ==
    ASSUME NEW s, NEW moves, NEW greylist, NEW m \in Nat
    PROVE  \E g : BestSoFar(g, s, moves, greylist, m)
<1> DEFINE next(best, n) == Better(s, best, moves[n], greylist)
           missing == {n \in Nat : ~ \E g : BestSoFar(g, s, moves, greylist, n)}
<1>1. \A n : \A g : BestSoFar(g, s, moves, greylist, n)
                      <=> g = [k \in 0 .. n |-> IF k = 0 THEN Pass ELSE next(g[k - 1], k)]
  BY DEF BestSoFar
<1> HIDE DEF next
<1>2. 0 \notin missing
  <2>1. PICK g : g = [k \in 0 .. 0 |-> Pass]
    OBVIOUS
  <2>2. \A k \in 0 .. 0 : k = 0
    OBVIOUS
  <2>3. g = [k \in 0 .. 0 |-> IF k = 0 THEN Pass ELSE next(g[k - 1], k)]
    BY <2>1, <2>2
  <2> QED
    BY <1>1, <2>3
<1>3. ASSUME NEW n \in Nat, n \notin missing PROVE n + 1 \notin missing
  <2>1. PICK g : BestSoFar(g, s, moves, greylist, n)
    BY <1>3
  <2>2. PICK h : h = [k \in 0 .. n + 1 |-> IF k = 0 THEN Pass ELSE next(g[k - 1], k)]
    OBVIOUS
  <2>3. \A k \in 0 .. n : g[k] = IF k = 0 THEN Pass ELSE next(g[k - 1], k)
    BY <1>1, <2>1
  <2>4. \A k \in 0 .. n : g[k] = h[k]
    BY <2>2, <2>3
  <2>5. \A k \in 0 .. n + 1 : k # 0 => g[k - 1] = h[k - 1]
    BY <2>4
  <2>6. h = [k \in 0 .. n + 1 |-> IF k = 0 THEN Pass ELSE next(h[k - 1], k)]
    BY <2>2, <2>5
  <2>7. BestSoFar(h, s, moves, greylist, n + 1)
    BY <1>1, <2>6
  <2> QED
    BY <2>7
<1>4. missing = {}
  <2>1. missing \subseteq Nat
    OBVIOUS
  <2> HIDE DEF missing
  <2> QED
    BY <1>2, <1>3, <2>1, FromZeroOn
<1> QED
  BY <1>4

\* and best_move gives the last.
LEMMA BestMoveIs ==
    ASSUME NEW s, NEW moves, IsSeq(moves), NEW greylist
    PROVE  \E m \in Nat : \E g :
             /\ DOMAIN moves = 1 .. m /\ BestSoFar(g, s, moves, greylist, m)
             /\ BestMove(s, moves, greylist) = g[m]
<1>1. PICK m \in Nat : m = Len(moves) /\ DOMAIN moves = 1 .. m
  BY DEF IsSeq
<1> DEFINE next(q, n) == IF n = 0 THEN Pass ELSE Better(s, q[n - 1], moves[n], greylist)
<1>2. PICK g : g = CHOOSE q : q = [n \in 0 .. Len(moves) |-> next(q, n)]
  OBVIOUS
<1>3. BestMove(s, moves, greylist) = g[Len(moves)]
  BY <1>2, Zenon DEF BestMove
<1>4. \A q : BestSoFar(q, s, moves, greylist, m) <=> q = [n \in 0 .. Len(moves) |-> next(q, n)]
  BY <1>1 DEF BestSoFar
<1>5. BestSoFar(g, s, moves, greylist, m)
  <2> HIDE DEF next
  <2>1. \E q : q = [n \in 0 .. Len(moves) |-> next(q, n)]
    BY <1>4, BestSoFarExists
  <2>2. g = [n \in 0 .. Len(moves) |-> next(g, n)]
    BY <1>2, <2>1, Zenon
  <2> QED
    BY <1>4, <2>2
<1> QED
  BY <1>1, <1>3, <1>5

\* One more move to choose among.
LEMMA BetterIs ==
    ASSUME NEW choice, \A x \in choice : LegalScore(x) \in Nat, NEW best, Best(choice, best),
           NEW c, Score(Here, c) = LegalScore(c), LegalScore(c) \in Nat, NEW greylist
    PROVE  /\ Avoided(Here, c, greylist) => Best(choice, Better(Here, best, c, greylist))
           /\ ~Avoided(Here, c, greylist) => Best(choice \cup {c}, Better(Here, best, c, greylist))
<1>1. best.score \in Int /\ (choice = {} => best.score < LegalScore(c))
  <2>1. CASE choice = {}
    BY <2>1 DEF Best, Pass, Illegal
  <2>2. CASE choice # {}
    BY <2>2 DEF Best
  <2> QED
    BY <2>1, <2>2
<1>2. CASE Avoided(Here, c, greylist)
  BY <1>2 DEF Better
<1>3. CASE ~Avoided(Here, c, greylist) /\ best.score >= LegalScore(c)
  <2>1. choice # {} /\ Better(Here, best, c, greylist) = best
    BY <1>1, <1>3 DEF Better
  <2>2. best.move \in choice /\ best.score = LegalScore(best.move)
        /\ \A x \in choice : LegalScore(x) <= best.score
    BY <2>1 DEF Best
  <2>3. \A x \in choice \cup {c} : LegalScore(x) <= best.score
    BY <1>1, <1>3, <2>2
  <2> QED
    BY <1>3, <2>1, <2>2, <2>3 DEF Best
<1>4. CASE ~Avoided(Here, c, greylist) /\ ~(best.score >= LegalScore(c))
  <2>1. PICK new : new = Better(Here, best, c, greylist)
    OBVIOUS
  <2>2. new.score = LegalScore(c) /\ new.move = c
    BY <1>4, <2>1 DEF Better
  <2>3. \A x \in choice : LegalScore(x) <= LegalScore(c)
    <3>1. \A x \in choice : LegalScore(x) <= best.score
      BY DEF Best
    <3> QED
      BY <1>1, <1>4, <3>1
  <2>4. \A x \in choice \cup {c} : LegalScore(x) <= new.score
    BY <2>2, <2>3
  <2>5. Best(choice \cup {c}, new)
    BY <2>2, <2>4 DEF Best
  <2> QED
    BY <1>4, <2>1, <2>5
<1> QED
  BY <1>2, <1>3, <1>4

\* best_move gives the best of the moves it is given that form no word to avoid.
LEMMA BestMoveIsBest ==
    ASSUME IInv, NEW moves, IsSeq(moves), \A c \in Range(moves) : c \in Moves /\ Legal(c),
           NEW greylist
    PROVE  Best({c \in Range(moves) : WordsFormed(c) \cap greylist = {}},
                BestMove(Here, moves, greylist))
<1>1. \E m \in Nat : \E g :
        /\ DOMAIN moves = 1 .. m /\ BestSoFar(g, Here, moves, greylist, m)
        /\ BestMove(Here, moves, greylist) = g[m]
  BY BestMoveIs
<1>2. PICK m \in Nat : \E g :
        /\ DOMAIN moves = 1 .. m /\ BestSoFar(g, Here, moves, greylist, m)
        /\ BestMove(Here, moves, greylist) = g[m]
  BY <1>1
<1>3. PICK g : /\ DOMAIN moves = 1 .. m /\ BestSoFar(g, Here, moves, greylist, m)
               /\ BestMove(Here, moves, greylist) = g[m]
  BY <1>2
<1>4. \A n \in 0 .. m :
         g[n] = IF n = 0 THEN Pass ELSE Better(Here, g[n - 1], moves[n], greylist)
  BY <1>3 DEF BestSoFar
<1>5. ASSUME NEW i \in 1 .. m
      PROVE  /\ Score(Here, moves[i]) = LegalScore(moves[i]) /\ LegalScore(moves[i]) \in Nat
             /\ Avoided(Here, moves[i], greylist) <=> WordsFormed(moves[i]) \cap greylist # {}
  <2>1. moves[i] \in Moves /\ Legal(moves[i])
    BY <1>3 DEF Range
  <2>2. Valid(Here, moves[i])
    BY <2>1, ValidIsLegal
  <2> QED
    BY <2>1, <2>2, ScoreIsRight, LegalScoreIsNat, AvoidedAre
<1> DEFINE choice(n) == {c \in {moves[i] : i \in 1 .. n} : WordsFormed(c) \cap greylist = {}}
           wrong == {n \in Nat : n <= m /\ ~Best(choice(n), g[n])}
<1>6. 0 \notin wrong
  <2>1. choice(0) = {} /\ g[0] = Pass
    BY <1>4
  <2> QED
    BY <2>1 DEF Best
<1>7. ASSUME NEW n \in Nat, n \notin wrong PROVE n + 1 \notin wrong
  <2>1. SUFFICES ASSUME n + 1 <= m PROVE Best(choice(n + 1), g[n + 1])
    OBVIOUS
  <2>2. PICK c : c = moves[n + 1]
    OBVIOUS
  <2>3. n + 1 \in 1 .. m /\ n + 1 \in 0 .. m /\ n + 1 # 0 /\ (n + 1) - 1 = n /\ n <= m
    BY <2>1
  <2>4. g[n + 1] = Better(Here, g[n], c, greylist)
    BY <1>4, <2>2, <2>3
  <2>5. Best(choice(n), g[n])
    BY <1>7, <2>3
  <2>6. \A x \in choice(n) : LegalScore(x) \in Nat
    BY <1>5, <2>3
  <2>7. choice(n + 1) = IF WordsFormed(c) \cap greylist = {} THEN choice(n) \cup {c} ELSE choice(n)
    <3>1. \A i \in 1 .. n + 1 : i \in 1 .. n \/ i = n + 1
      OBVIOUS
    <3>2. \A i : i \in 1 .. n => i \in 1 .. n + 1
      OBVIOUS
    <3>3. n + 1 \in 1 .. n + 1
      OBVIOUS
    <3>4. {moves[i] : i \in 1 .. n + 1} = {moves[i] : i \in 1 .. n} \cup {c}
      BY <2>2, <3>1, <3>2, <3>3
    <3> QED
      BY <3>4
  <2>8. /\ Score(Here, c) = LegalScore(c) /\ LegalScore(c) \in Nat
        /\ Avoided(Here, c, greylist) <=> WordsFormed(c) \cap greylist # {}
    BY <1>5, <2>2, <2>3
  <2> HIDE DEF choice
  <2>9. /\ Avoided(Here, c, greylist) => Best(choice(n), Better(Here, g[n], c, greylist))
        /\ ~Avoided(Here, c, greylist) => Best(choice(n) \cup {c}, Better(Here, g[n], c, greylist))
    BY <2>5, <2>6, <2>8, BetterIs
  <2> QED
    BY <2>4, <2>7, <2>8, <2>9
<1>8. wrong = {}
  <2>1. wrong \subseteq Nat
    OBVIOUS
  <2> HIDE DEF wrong
  <2> QED
    BY <1>6, <1>7, <2>1, FromZeroOn
<1>9. Best(choice(m), g[m])
  <2>1. m \notin wrong
    <3> HIDE DEF wrong
    <3> QED
      BY <1>8
  <2>2. m \in Nat /\ m <= m
    OBVIOUS
  <2> HIDE DEF choice
  <2> QED
    BY <2>1, <2>2
<1>10. {moves[i] : i \in 1 .. m} = Range(moves)
  BY <1>3 DEF Range
<1> QED
  BY <1>3, <1>9, <1>10

\* EnginePlaysTheBest: on every board a game can reach, with every rack and every
\* greylist, the engine plays the best of the legal moves in its lanes that form no
\* word of the greylist, and passes only if there is none.
THEOREM EngineIsBest == Spec => []EnginePlaysTheBest
<1>1. IInv => EnginePlaysTheBest
  <2>1. SUFFICES ASSUME IInv, NEW rack \in Racks, NEW moves, moves = LegalMoves(Here, rack),
                        NEW open, open = {c \in InLanes(Here, rack) : Legal(c)}
                 PROVE  /\ Best(open, Suggestion(Here, moves))
                        /\ \A greylist \in Greylists :
                             Best({c \in open : WordsFormed(c) \cap greylist = {}},
                                  BestMove(Here, moves, greylist))
    BY Zenon DEF EnginePlaysTheBest
  <2>2. rack \in Rack
    BY EngineAssumption
  <2>3. IsSeq(moves) /\ Range(moves) = open
    BY <2>1, <2>2, LegalMovesAre
  <2>4. \A c \in Range(moves) : c \in Moves /\ Legal(c)
    BY <2>1, <2>3, InLanesAreFine
  <2>5. \A greylist : Best({c \in open : WordsFormed(c) \cap greylist = {}},
                           BestMove(Here, moves, greylist))
    BY <2>1, <2>3, <2>4, BestMoveIsBest
  <2>6. Best(open, Suggestion(Here, moves))
    <3>1. {c \in open : WordsFormed(c) \cap {} = {}} = open
      OBVIOUS
    <3>2. Best({c \in open : WordsFormed(c) \cap {} = {}}, BestMove(Here, moves, {}))
      BY <2>5
    <3> QED
      BY <3>1, <3>2 DEF Suggestion
  <2> QED
    BY <2>5, <2>6
<1> QED
  BY <1>1, Consistent, PTL
=============================================================================
