---------------------------- MODULE Client_proofs ----------------------------
(* Theorems about the client's tab: about Unread, for any games and any    *)
(* number of messages, about Screen, for any games, sessions and versions, *)
(* and about Composer, for any board, letters and racks.  The three have   *)
(* no name in common.                                                      *)
EXTENDS Unread, Screen, Composer, FiniteSetTheorems, SequenceTheorems,
        WellFoundedInduction, TLAPS

Times == 0 .. SeenAfter
Seconds == 0 .. MaxSeconds

-----------------------------------------------------------------------------
(* Unread: the latest of some times.                                       *)

LEMMA LeastExists ==
    ASSUME NEW T, T \subseteq Nat, T # {}
    PROVE  \E i \in T : \A j \in T : i <= j
<1>1. PICK i \in T : \A j \in T : <<j, i>> \notin OpToRel(<, Nat)
  BY NatLessThanWellFounded, WFMin
<1>2. \A j \in T : ~(j < i)
  BY <1>1 DEF OpToRel
<1> QED
  BY <1>2

LEMMA LatestIs ==
    ASSUME NEW T, T \subseteq 1 .. MaxSeconds
    PROVE  /\ Latest(T) \in Seconds
           /\ \A t \in T : t <= Latest(T)
           /\ Latest(T) # 0 => Latest(T) \in T
<1>m. MaxSeconds \in Nat
  BY SeenAfterAssumption
<1>1. CASE T = {}
  BY <1>m, <1>1 DEF Latest, Seconds
<1>2. CASE T # {}
  <2> DEFINE left == {MaxSeconds - i : i \in T}
  <2>1. left \subseteq Nat /\ left # {}
    <3>1. \A i \in T : MaxSeconds - i \in Nat
      BY <1>m
    <3> QED
      BY <1>2, <3>1
  <2>2. PICK k \in left : \A j \in left : k <= j
    <3> HIDE DEF left
    <3> QED
      BY <2>1, LeastExists
  <2>3. PICK i \in T : k = MaxSeconds - i
    OBVIOUS
  <2>4. \A j \in T : MaxSeconds - i <= MaxSeconds - j
    BY <2>2, <2>3
  <2>5. \A j \in T : i >= j
    BY <1>m, <2>4
  <2>6. Max(T) \in T /\ \A j \in T : Max(T) >= j
    BY <2>5 DEF Max
  <2>7. Latest(T) = Max(T)
    BY <1>2 DEF Latest
  <2>8. PICK t \in T : t = Latest(T) /\ \A j \in T : t >= j
    BY <2>6, <2>7
  <2>9. t \in 1 .. MaxSeconds /\ \A j \in T : j \in 1 .. MaxSeconds
    OBVIOUS
  <2> QED
    BY <1>m, <2>8, <2>9 DEF Seconds
<1> QED
  BY <1>1, <1>2

LEMMA ReceivedIs ==
    ASSUME NEW chat \in Seq(Message)
    PROVE  Received(chat) \in Seconds
<1>1. {chat[i].at : i \in {j \in DOMAIN chat : ~chat[j].mine}} \subseteq 1 .. MaxSeconds
  <2>1. \A i \in DOMAIN chat : chat[i] \in Message
    OBVIOUS
  <2> QED
    BY <2>1 DEF Message
<1> QED
  BY <1>1, LatestIs DEF Received

-----------------------------------------------------------------------------
(* Unread: sequences that grow.                                            *)

LEMMA FunctionIsSeq ==
    ASSUME NEW S, NEW n \in Nat, NEW f \in [1 .. n -> S]
    PROVE  f \in Seq(S) /\ Len(f) = n /\ DOMAIN f = 1 .. n
  OBVIOUS

\* What there is of a chat beyond the n first messages, up to the m-th.
LEMMA FreshIs ==
    ASSUME NEW chat \in Seq(Message), NEW n \in Nat, NEW m \in Nat, m <= Len(chat)
    PROVE  LET fresh == SubSeq(chat, n + 1, m)
           IN  /\ fresh \in Seq(Message) /\ Len(fresh) \in Nat
               /\ DOMAIN fresh = 1 .. Len(fresh)
               /\ n + Len(fresh) = IF m > n THEN m ELSE n
               /\ \A i \in 1 .. Len(fresh) : fresh[i] = chat[n + i]
<1> PICK fresh : fresh = SubSeq(chat, n + 1, m)
  OBVIOUS
<1> PICK L \in Nat : L = Len(chat)
  OBVIOUS
<1>1. CASE m > n
  <2>1. n + 1 \in 1 .. L + 1 /\ m \in n .. L
    BY <1>1
  <2>2. /\ fresh \in Seq(Message) /\ Len(fresh) = m - n
        /\ \A i \in 1 .. m - n : fresh[i] = chat[n + i]
    BY <1>1, <2>1, SubSeqProperties
  <2> QED
    BY <1>1, <2>2
<1>2. CASE m <= n
  <2>1. fresh = << >>
    BY <1>2, SubSeqProperties
  <2> QED
    BY <1>2, <2>1
<1> QED
  BY <1>1, <1>2

\* Times that go on, capped, and new ones after them.
Aged(s) == [i \in DOMAIN s |-> Capped(s[i] + Stretch)]

LEMMA CappedIs ==
    ASSUME NEW n \in Times
    PROVE  /\ Capped(n + Stretch) \in Times /\ n <= Capped(n + Stretch)
           /\ n = SeenAfter => Capped(n + Stretch) = SeenAfter
           /\ \A k \in Times : k <= n => Capped(k + Stretch) <= Capped(n + Stretch)
  BY SeenAfterAssumption DEF Times, Capped, Stretch

LEMMA AgedIs ==
    ASSUME NEW s \in Seq(Times)
    PROVE  /\ Aged(s) \in Seq(Times) /\ Len(Aged(s)) = Len(s) /\ DOMAIN Aged(s) = DOMAIN s
           /\ \A i \in DOMAIN s : Aged(s)[i] = Capped(s[i] + Stretch)
<1> PICK L \in Nat : L = Len(s) /\ DOMAIN s = 1 .. L
  OBVIOUS
<1>1. \A i \in 1 .. L : Capped(s[i] + Stretch) \in Times
  BY CappedIs
<1>2. Aged(s) \in [1 .. L -> Times]
  BY <1>1, Zenon DEF Aged
<1>3. Aged(s) \in Seq(Times) /\ Len(Aged(s)) = L /\ DOMAIN Aged(s) = 1 .. L
  BY <1>2, FunctionIsSeq
<1>4. \A i \in 1 .. L : Aged(s)[i] = Capped(s[i] + Stretch)
  BY DEF Aged
<1> QED
  BY <1>3, <1>4

LEMMA Continued ==
    ASSUME NEW s \in Seq(Times), NEW n \in Nat, NEW f \in [1 .. n -> Times]
    PROVE  LET t == s \o f
           IN  /\ t \in Seq(Times) /\ Len(t) = Len(s) + n
               /\ \A i \in 1 .. Len(s) : t[i] = s[i]
               /\ \A i \in 1 .. n : t[Len(s) + i] = f[i]
<1> PICK t : t = s \o f
  OBVIOUS
<1> PICK L \in Nat : L = Len(s)
  OBVIOUS
<1>1. f \in Seq(Times) /\ Len(f) = n
  BY FunctionIsSeq
<1> QED
  BY <1>1, ConcatProperties

-----------------------------------------------------------------------------
(* Unread: what a sample makes of the history.                             *)

LEMMA Typed ==
    UnreadTypeOK <=> /\ messages \in [Games -> Seq(Message)]
               /\ replies \subseteq [game : Games, shown : Nat, direct : BOOLEAN]
               /\ listed \in [Games -> Seconds] /\ open \in Games \cup {NoGame}
               /\ shown \in Nat /\ visible \in BOOLEAN /\ running \in BOOLEAN
               /\ watching \in Games \cup {NoGame} /\ ages \in Seq(Times)
               /\ watermark \in [Games -> Seconds] /\ unread \in BOOLEAN /\ here \in BOOLEAN
               /\ target \in Games \cup {NoGame} /\ watched \in [Games -> Seq(Times)]
  BY Zenon DEF UnreadTypeOK, Seconds, Times

LEMMA TypedNext ==
    ASSUME messages' \in [Games -> Seq(Message)],
           replies' \subseteq [game : Games, shown : Nat, direct : BOOLEAN],
           listed' \in [Games -> Seconds], open' \in Games \cup {NoGame},
           shown' \in Nat, visible' \in BOOLEAN, running' \in BOOLEAN,
           watching' \in Games \cup {NoGame}, ages' \in Seq(Times),
           watermark' \in [Games -> Seconds], unread' \in BOOLEAN, here' \in BOOLEAN,
           target' \in Games \cup {NoGame}, watched' \in [Games -> Seq(Times)]
    PROVE  UnreadTypeOK'
  BY Zenon DEF UnreadTypeOK, Seconds, Times

\* The time before a message goes on if its game was being watched.
LEMMA WatchedOf ==
    ASSUME UnreadInv, Watching, NEW g \in Games
    PROVE  /\ watched'[g] \in Seq(Times)
           /\ Len(watched[g]) <= Len(watched'[g]) /\ Len(watched'[g]) <= Len(messages[g])
           /\ g = open => shown <= Len(watched'[g])
           /\ \A i \in 1 .. Len(watched[g]) :
                 watched'[g][i] = IF g = watching THEN Capped(watched[g][i] + Stretch)
                                  ELSE watched[g][i]
           /\ \A i \in 1 .. Len(watched'[g]) : i > Len(watched[g]) => watched'[g][i] = 0
<1>1. /\ messages[g] \in Seq(Message) /\ watched[g] \in Seq(Times) /\ shown \in Nat
      /\ Len(watched[g]) <= Len(messages[g])
      /\ g = open => shown <= Len(messages[g])
  BY Typed DEF UnreadInv, InOrder, ShownExist
<1> PICK w \in Seq(Times) : w = watched[g]
  BY <1>1
<1> PICK n \in Nat : n = Len(w) /\ DOMAIN w = 1 .. n
  OBVIOUS
<1> PICK M \in Nat : M = Len(messages[g])
  BY <1>1
<1>2. PICK before : before = [i \in DOMAIN w |-> IF g = watching THEN Capped(w[i] + Stretch)
                                                 ELSE w[i]]
  OBVIOUS
<1>3. /\ before \in Seq(Times) /\ Len(before) = n
      /\ \A i \in 1 .. n : before[i] = IF g = watching THEN Capped(w[i] + Stretch) ELSE w[i]
  <2>1. CASE g = watching
    <3>1. before = Aged(w)
      BY <1>2, <2>1, Zenon DEF Aged
    <3> QED
      BY <2>1, <3>1, AgedIs
  <2>2. CASE g # watching
    <3>1. before = w
      BY <1>2, <2>2
    <3> QED
      BY <2>2, <3>1
  <2> QED
    BY <2>1, <2>2
<1>4. PICK f : f = SubSeq(messages[g], Len(before) + 1, shown)
  OBVIOUS
<1>5. watched'[g] = IF g # open THEN before ELSE before \o [i \in 1 .. Len(f) |-> 0]
  BY <1>2, <1>4, Zenon DEF Watching
<1>6. CASE g # open
  BY <1>1, <1>3, <1>5, <1>6
<1>7. CASE g = open
  <2>1. /\ Len(f) \in Nat
        /\ n + Len(f) = IF shown > n THEN shown ELSE n
    <3>1. f = SubSeq(messages[g], n + 1, shown) /\ shown <= Len(messages[g])
      BY <1>1, <1>3, <1>4, <1>7
    <3> QED
      BY ZenonT(40), <1>1, <3>1, FreshIs
  <2>2. PICK k \in Nat : k = Len(f)
    BY <2>1
  <2>3. PICK z : z = [i \in 1 .. k |-> 0]
    OBVIOUS
  <2>4. z \in [1 .. k -> Times] /\ \A i \in 1 .. k : z[i] = 0
    <3>1. 0 \in Times
      BY SeenAfterAssumption DEF Times
    <3> QED
      BY <2>3, <3>1
  <2>5. PICK t : t = before \o z
    OBVIOUS
  <2>6. /\ t \in Seq(Times) /\ Len(t) = n + k
        /\ \A i \in 1 .. n : t[i] = before[i]
        /\ \A i \in 1 .. k : t[n + i] = z[i]
    <3>1. /\ t \in Seq(Times) /\ Len(t) = Len(before) + k
          /\ \A i \in 1 .. Len(before) : t[i] = before[i]
          /\ \A i \in 1 .. k : t[Len(before) + i] = z[i]
      BY <1>3, <2>4, <2>5, Continued
    <3> QED
      BY <1>3, <3>1
  <2>7. watched'[g] = t
    BY <1>5, <1>7, <2>2, <2>3, <2>5
  <2>8. ASSUME NEW i \in 1 .. n + k, i > n PROVE t[i] = 0
    <3>1. i - n \in 1 .. k /\ n + (i - n) = i
      BY <2>8
    <3> QED
      BY <2>4, <2>6, <3>1
  <2> QED
    BY <1>1, <1>3, <1>7, <2>1, <2>2, <2>6, <2>7, <2>8
<1> QED
  BY <1>6, <1>7

\* Earned, after the step.
EarnedNext(g, t) ==
    \E j \in DOMAIN watched'[g] : messages'[g][j].at = t /\ watched'[g][j] = SeenAfter

\* So it only grows, what was long enough still is, and the order stays.
LEMMA WatchedGoesOn ==
    ASSUME UnreadInv, Watching, UNCHANGED messages
    PROVE  /\ watched' \in [Games -> Seq(Times)]
           /\ InOrder'
           /\ \A g \in Games : \A t : Earned(g, t) => EarnedNext(g, t)
<1>1. watched' \in [Games -> Seq(Times)]
  <2>1. DOMAIN watched' = Games /\ watched' = [g \in Games |-> watched'[g]]
    BY DEF Watching
  <2>2. \A g \in Games : watched'[g] \in Seq(Times)
    BY WatchedOf
  <2> QED
    BY <2>1, <2>2
<1>2. ASSUME NEW g \in Games, NEW t, Earned(g, t) PROVE EarnedNext(g, t)
  <2>1. /\ watched[g] \in Seq(Times) /\ watched'[g] \in Seq(Times)
        /\ Len(watched[g]) <= Len(watched'[g])
        /\ \A i \in 1 .. Len(watched[g]) :
                 watched'[g][i] = IF g = watching THEN Capped(watched[g][i] + Stretch)
                                  ELSE watched[g][i]
    BY WatchedOf, Typed DEF UnreadInv
  <2>2. PICK j \in DOMAIN watched[g] : messages[g][j].at = t /\ watched[g][j] = SeenAfter
    BY <1>2 DEF Earned
  <2>3. j \in 1 .. Len(watched[g]) /\ j \in DOMAIN watched'[g] /\ watched[g][j] \in Times
    BY <2>1
  <2>4. watched'[g][j] = SeenAfter
    BY <2>1, <2>2, <2>3, CappedIs
  <2> QED
    BY <2>2, <2>3, <2>4 DEF EarnedNext
<1>3. ASSUME NEW g \in Games, NEW i \in DOMAIN watched'[g], NEW j \in DOMAIN watched'[g], i <= j
      PROVE  watched'[g][j] <= watched'[g][i]
  <2>1. PICK w \in Seq(Times) : w = watched[g]
    BY Typed DEF UnreadInv
  <2>2. PICK v \in Seq(Times) : v = watched'[g]
    BY WatchedOf
  <2>3. PICK n \in Nat : n = Len(w) /\ DOMAIN w = 1 .. n
    OBVIOUS
  <2>4. /\ \A k \in 1 .. n : v[k] = IF g = watching THEN Capped(w[k] + Stretch) ELSE w[k]
        /\ \A k \in 1 .. Len(v) : k > n => v[k] = 0
    BY <2>1, <2>2, <2>3, WatchedOf
  <2>5. i \in 1 .. Len(v) /\ j \in 1 .. Len(v) /\ Len(v) \in Nat /\ v[i] \in Times
    BY <1>3, <2>2
  <2>6. CASE j > n
    BY <2>2, <2>4, <2>5, <2>6 DEF Times
  <2>7. CASE j <= n
    <3>1. i \in 1 .. n /\ j \in 1 .. n /\ w[i] \in Times /\ w[j] \in Times
      BY <1>3, <2>3, <2>5, <2>7
    <3>2. w[j] <= w[i]
      BY <1>3, <2>1, <2>3, <3>1 DEF UnreadInv, InOrder
    <3> QED
      BY <2>2, <2>4, <3>1, <3>2, CappedIs
  <2> QED
    BY <2>3, <2>5, <2>6, <2>7
<1>4. InOrder'
  <2>1. \A g \in Games : Len(watched'[g]) <= Len(messages[g])
    BY WatchedOf
  <2> QED
    BY <1>3, <2>1 DEF UnreadInv, InOrder
<1> QED
  BY <1>1, <1>2, <1>4

-----------------------------------------------------------------------------
(* Unread: what a sample makes of the stamps.                              *)

\* Stamps that go on say no more than the watching that went on.
LEMMA AgedStamps ==
    ASSUME UnreadInv, Watching, UNCHANGED messages, NEW g \in Games, g = watching
    PROVE  /\ Aged(ages) \in Seq(Times) /\ Len(Aged(ages)) = Len(ages)
           /\ Len(ages) <= Len(watched'[g])
           /\ \A i \in 1 .. Len(ages) :
                 Aged(ages)[i] <= watched'[g][i] \/ EarnedNext(g, messages[g][i].at)
<1> PICK w \in Seq(Times) : w = watched[g]
  BY Typed DEF UnreadInv
<1> PICK v \in Seq(Times) : v = watched'[g]
  BY WatchedOf
<1> PICK a \in Seq(Times) : a = ages
  BY Typed DEF UnreadInv
<1>1. /\ Aged(a) \in Seq(Times) /\ Len(Aged(a)) = Len(a)
      /\ \A i \in 1 .. Len(a) : Aged(a)[i] = Capped(a[i] + Stretch)
  BY AgedIs
<1>2. Len(a) <= Len(w) /\ Len(w) <= Len(v)
      /\ \A i \in 1 .. Len(w) : v[i] = Capped(w[i] + Stretch)
  BY WatchedOf DEF UnreadInv, StampsAreEarned
<1>3. ASSUME NEW i \in 1 .. Len(a)
      PROVE  Aged(a)[i] <= v[i] \/ EarnedNext(g, messages[g][i].at)
  <2>1. a[i] <= w[i] \/ Earned(g, messages[g][i].at)
    BY DEF UnreadInv, StampsAreEarned
  <2>2. CASE a[i] <= w[i]
    <3>1. i \in 1 .. Len(w) /\ a[i] \in Times /\ w[i] \in Times
      BY <1>2
    <3> QED
      BY <1>1, <1>2, <2>2, <3>1, CappedIs
  <2>3. CASE Earned(g, messages[g][i].at)
    BY <2>3, WatchedGoesOn
  <2> QED
    BY <2>1, <2>2, <2>3
<1>4. Len(a) \in Nat /\ Len(w) \in Nat /\ Len(v) \in Nat
  OBVIOUS
<1>5. Len(a) <= Len(v)
  BY <1>2, <1>4
<1>6. Aged(ages) = Aged(a)
  OBVIOUS
<1> QED
  BY <1>1, <1>3, <1>5, <1>6

\* What is at or before a watermark has been watched.
LEMMA ReadIsEarned ==
    ASSUME UnreadInv, NEW g \in Games, NEW i \in DOMAIN messages[g],
           messages[g][i].at <= watermark[g]
    PROVE  Earned(g, messages[g][i].at)
<1>1. /\ messages[g] \in Seq(Message) /\ watched[g] \in Seq(Times) /\ watermark[g] \in Seconds
      /\ Len(watched[g]) <= Len(messages[g])
  BY Typed DEF UnreadInv, InOrder
<1>2. messages[g][i].at \in 1 .. MaxSeconds /\ MaxSeconds \in Nat
  <2>1. messages[g][i] \in Message
    BY <1>1
  <2> QED
    BY <2>1, SeenAfterAssumption DEF Message
<1>3. PICK j \in DOMAIN watched[g] :
         messages[g][j].at = watermark[g] /\ watched[g][j] = SeenAfter
  BY <1>1, <1>2 DEF UnreadInv, MarksAreEarned, Earned, Seconds
<1>4. CASE messages[g][i].at = watermark[g]
  BY <1>3, <1>4 DEF Earned
<1>5. CASE messages[g][i].at < watermark[g]
  <2>1. j \in DOMAIN messages[g] /\ i \in Nat /\ j \in Nat
    BY <1>1
  <2>2. ~(j <= i)
    <3>1. j <= i => messages[g][j].at <= messages[g][i].at
      BY <2>1 DEF UnreadInv, InOrder
    <3> QED
      BY <1>1, <1>2, <1>3, <1>5, <3>1 DEF Seconds
  <2>3. i <= j /\ i \in DOMAIN watched[g]
    BY <1>1, <2>1, <2>2
  <2>4. watched[g][j] <= watched[g][i]
    BY <2>3 DEF UnreadInv, InOrder
  <2>5. watched[g][i] = SeenAfter
    BY <1>1, <1>3, <2>3, <2>4, SeenAfterAssumption DEF Times
  <2> QED
    BY <2>3, <2>5 DEF Earned
<1> QED
  BY <1>1, <1>2, <1>4, <1>5 DEF Seconds

LEMMA StampedIs ==
    ASSUME UnreadInv, Watching, UNCHANGED messages, NEW g \in Games, g = open
    PROVE  /\ Stamped \in Seq(Times) /\ shown <= Len(Stamped)
           /\ Len(Stamped) <= Len(watched'[g])
           /\ \A i \in 1 .. Len(Stamped) :
                 Stamped[i] <= watched'[g][i] \/ EarnedNext(g, messages[g][i].at)
<1> PICK chat \in Seq(Message) : chat = messages[g]
  BY Typed DEF UnreadInv
<1> PICK v \in Seq(Times) : v = watched'[g]
  BY WatchedOf
<1> PICK kept : kept = Kept
  OBVIOUS
<1>1. /\ shown \in Nat /\ shown <= Len(chat) /\ shown <= Len(v)
      /\ Len(v) <= Len(chat)
  BY WatchedOf, Typed DEF UnreadInv, ShownExist
<1>2. /\ kept \in Seq(Times) /\ Len(kept) <= Len(v)
      /\ \A i \in 1 .. Len(kept) : kept[i] <= v[i] \/ EarnedNext(g, chat[i].at)
  <2>1. CASE watching = g
    <3>1. kept = Aged(ages)
      BY <2>1 DEF Kept, Aged
    <3>2. /\ Aged(ages) \in Seq(Times) /\ Len(Aged(ages)) = Len(ages)
          /\ Len(ages) <= Len(watched'[g])
          /\ \A i \in 1 .. Len(ages) :
                Aged(ages)[i] <= watched'[g][i] \/ EarnedNext(g, messages[g][i].at)
      BY <2>1, AgedStamps
    <3> QED
      BY <3>1, <3>2
  <2>2. CASE watching # g
    <3>1. kept = << >>
      BY <2>2 DEF Kept
    <3> QED
      BY <3>1
  <2> QED
    BY <2>1, <2>2
<1> PICK n \in Nat : n = Len(kept)
  BY <1>2
<1>3. PICK fresh : fresh = SubSeq(chat, n + 1, shown)
  OBVIOUS
<1>4. /\ fresh \in Seq(Message) /\ Len(fresh) \in Nat /\ DOMAIN fresh = 1 .. Len(fresh)
      /\ n + Len(fresh) = IF shown > n THEN shown ELSE n
      /\ \A i \in 1 .. Len(fresh) : fresh[i] = chat[n + i]
  BY <1>1, <1>3, FreshIs
<1> PICK m \in Nat : m = Len(fresh)
  BY <1>4
<1>5. PICK f : f = [i \in 1 .. m |-> IF fresh[i].at <= watermark[g] THEN SeenAfter ELSE 0]
  OBVIOUS
<1>6. f \in [1 .. m -> Times]
  <2>1. SeenAfter \in Times /\ 0 \in Times
    BY SeenAfterAssumption DEF Times
  <2> QED
    BY <1>5, <2>1
<1>7. PICK t : t = kept \o f
  OBVIOUS
<1>8. /\ t \in Seq(Times) /\ Len(t) = n + m
      /\ \A i \in 1 .. n : t[i] = kept[i]
      /\ \A i \in 1 .. m : t[n + i] = f[i]
  <2>1. kept \in Seq(Times) /\ Len(kept) = n
    BY <1>2
  <2>2. f \in Seq(Times) /\ Len(f) = m
    BY <1>6, FunctionIsSeq
  <2>3. t \in Seq(Times) /\ Len(t) = n + m
    <3>1. t \in Seq(Times)
      BY <1>7, <2>1, <2>2
    <3>2. Len(t) = Len(kept) + Len(f)
      <4>1. Len(kept \o f) = Len(kept) + Len(f)
        BY <2>1, <2>2, ConcatProperties, Zenon
      <4> QED
        BY <1>7, <4>1
    <3> QED
      BY <2>1, <2>2, <3>1, <3>2
  <2>4. \A i \in 1 .. n : t[i] = kept[i]
    BY <1>7, <2>1, <2>2
  <2>5. \A i \in 1 .. m : t[n + i] = f[i]
    BY <1>7, <2>1, <2>2
  <2> QED
    BY <2>3, <2>4, <2>5
<1>9. Stamped = t
  <2>1. f = [i \in DOMAIN fresh |-> IF fresh[i].at <= watermark[g] THEN SeenAfter ELSE 0]
    BY <1>4, <1>5
  <2> QED
    BY <1>3, <1>7, <2>1, Zenon DEF Stamped
<1>10. ASSUME NEW i \in 1 .. m
       PROVE  f[i] <= v[n + i] \/ EarnedNext(g, chat[n + i].at)
  <2>1. n + i \in 1 .. Len(v) /\ n + i \in DOMAIN messages[g] /\ v[n + i] \in Times
    BY <1>1, <1>4
  <2>2. CASE fresh[i].at <= watermark[g]
    <3>1. Earned(g, chat[n + i].at)
      BY <1>4, <2>1, <2>2, ReadIsEarned
    <3> QED
      BY <3>1, WatchedGoesOn
  <2>3. CASE ~(fresh[i].at <= watermark[g])
    BY <1>5, <2>1, <2>3 DEF Times
  <2> QED
    BY <2>2, <2>3
<1>11. ASSUME NEW i \in 1 .. n + m
       PROVE  t[i] <= v[i] \/ EarnedNext(g, chat[i].at)
  <2>1. CASE i <= n
    BY SMTT(30), <1>2, <1>8, <2>1
  <2>2. CASE i > n
    <3>1. i - n \in 1 .. m /\ n + (i - n) = i
      BY <2>2
    <3> QED
      BY <1>8, <1>10, <3>1
  <2> QED
    BY <2>1, <2>2
<1>12. shown <= n + m /\ n + m <= Len(v)
  BY <1>1, <1>2, <1>4
<1> QED
  BY <1>8, <1>9, <1>11, <1>12

-----------------------------------------------------------------------------
(* Unread: the steps.                                                      *)

\* A step that leaves messages, clock, watermarks and history alone.
LEMMA PageKeeps ==
    ASSUME UnreadInv, UnreadTypeOK', UNCHANGED <<messages, watching, ages, watermark, watched>>,
           ShownExist'
    PROVE  UnreadInv'
<1>1. InOrder' /\ StampsAreEarned' /\ MarksAreEarned'
  BY ZenonT(40) DEF UnreadInv, InOrder, StampsAreEarned, MarksAreEarned, Earned
<1> QED
  BY <1>1 DEF UnreadInv

LEMMA SendKeeps ==
    ASSUME UnreadInv, NEW g \in Games, NEW mine \in BOOLEAN, Send(g, mine)
    PROVE  UnreadInv'
<1> PICK chat \in Seq(Message) : chat = messages[g]
  BY Typed DEF UnreadInv
<1> PICK n \in Nat : n = Len(chat) /\ DOMAIN chat = 1 .. n
  OBVIOUS
<1>1. PICK at \in 1 .. MaxSeconds :
         /\ at >= Now
         /\ messages' = [messages EXCEPT ![g] = Append(@, [mine |-> mine, at |-> at])]
  BY DEF Send
<1>2. messages \in [Games -> Seq(Message)] /\ MaxSeconds \in Nat
      /\ UNCHANGED <<pageVars, clockVars, watermark, indicatorVars, watched>>
  BY Typed, SeenAfterAssumption DEF UnreadInv, Send
<1>3. PICK m \in Message : m = [mine |-> mine, at |-> at]
  BY DEF Message
<1> PICK q : q = Append(chat, m)
  OBVIOUS
<1>4. /\ q \in Seq(Message) /\ Len(q) = n + 1 /\ DOMAIN q = 1 .. n + 1
      /\ \A i \in 1 .. n : q[i] = chat[i]
      /\ q[n + 1] = m
  OBVIOUS
<1>5. /\ messages' \in [Games -> Seq(Message)] /\ messages'[g] = q
      /\ \A h \in Games : h # g => messages'[h] = messages[h]
  BY <1>1, <1>2, <1>3, <1>4
<1>6. UnreadTypeOK'
  BY <1>2, <1>5, Typed, TypedNext, Zenon DEF UnreadInv, pageVars, clockVars, indicatorVars
<1>7. \A i \in 1 .. n : chat[i].at <= at
  <2>1. {messages[s[1]][s[2]].at : s \in Sent} \subseteq 1 .. MaxSeconds
    <3>1. \A s \in Sent : s[1] \in Games /\ s[2] \in DOMAIN messages[s[1]]
      BY DEF Sent
    <3>2. \A h \in Games : \A i : i \in DOMAIN messages[h] => messages[h][i] \in Message
      BY <1>2
    <3> QED
      BY <3>1, <3>2 DEF Message
  <2>2. \A i \in 1 .. n : chat[i].at \in {messages[s[1]][s[2]].at : s \in Sent}
    <3>1. \A i \in 1 .. n : <<g, i>> \in Sent
      BY DEF Sent
    <3>2. \A i \in 1 .. n : chat[i].at = messages[<<g, i>>[1]][<<g, i>>[2]].at
      OBVIOUS
    <3> QED
      BY <3>1, <3>2, Zenon
  <2>3. Now \in Seconds /\ \A i \in 1 .. n : chat[i].at <= Now
    BY <2>1, <2>2, LatestIs DEF Now
  <2>4. \A i \in 1 .. n : chat[i].at \in 1 .. MaxSeconds
    BY <2>1, <2>2
  <2> QED
    BY <1>1, <1>2, <2>3, <2>4 DEF Seconds
<1>8. \A h \in Games : Len(watched[h]) \in Nat /\ Len(messages[h]) \in Nat
                       /\ DOMAIN watched[h] = 1 .. Len(watched[h])
                       /\ Len(watched[h]) <= Len(messages[h])
  BY <1>2, Typed DEF UnreadInv, InOrder
<1>9. \A h \in Games : /\ Len(messages[h]) <= Len(messages'[h])
                       /\ \A i \in 1 .. Len(messages[h]) : messages'[h][i] = messages[h][i]
  <2>1. /\ Len(messages[g]) = n /\ Len(messages'[g]) = n + 1
        /\ \A i \in 1 .. n : messages'[g][i] = messages[g][i]
    BY <1>4, <1>5
  <2>2. \A h \in Games : h # g => messages'[h] = messages[h]
    BY <1>5
  <2> QED
    BY <1>8, <2>1, <2>2
<1>10. ShownExist'
  <2>1. \A r \in replies : r.game \in Games /\ r.shown \in Nat
    BY Typed DEF UnreadInv
  <2>2. \A h \in Games, k \in Nat : k <= Len(messages[h]) => k <= Len(messages'[h])
    BY <1>4, <1>5, <1>8, <1>9
  <2>3. shown \in Nat
    BY Typed DEF UnreadInv
  <2> QED
    BY <1>2, <2>1, <2>2, <2>3 DEF UnreadInv, ShownExist, pageVars
<1>11. InOrder'
  <2>1. \A i, j \in 1 .. n + 1 : i <= j => q[i].at <= q[j].at
    <3>1. \A i, j \in 1 .. n : i <= j => chat[i].at <= chat[j].at
      BY DEF UnreadInv, InOrder
    <3>2. q[n + 1].at = at
      BY <1>3, <1>4
    <3>3. at <= at
      BY <1>2
    <3>4. ASSUME NEW i \in 1 .. n + 1, NEW j \in 1 .. n + 1, i <= j
          PROVE  q[i].at <= q[j].at
      <4>1. CASE j = n + 1 /\ i = n + 1
        BY <3>2, <3>3, <4>1
      <4>2. CASE j = n + 1 /\ i # n + 1
        <5>1. i \in 1 .. n
          BY <4>2
        <5> QED
          BY <1>4, <1>7, <3>2, <4>2, <5>1
      <4>3. CASE j # n + 1
        <5>1. i \in 1 .. n /\ j \in 1 .. n
          BY <3>4, <4>3
        <5> QED
          BY <1>4, <3>1, <3>4, <5>1
      <4> QED
        BY <4>1, <4>2, <4>3
    <3> QED
      BY <3>4
  <2>2. \A h \in Games : Len(watched[h]) <= Len(messages'[h])
    BY <1>4, <1>5, <1>8, <1>9
  <2> QED
    BY <1>2, <1>4, <1>5, <2>1, <2>2 DEF UnreadInv, InOrder
<1>12. \A h \in Games : \A t : Earned(h, t) => Earned(h, t)'
  <2>1. ASSUME NEW h \in Games, NEW j \in DOMAIN watched[h]
        PROVE  messages'[h][j] = messages[h][j]
    <3>1. j \in 1 .. Len(messages[h])
      BY <1>8
    <3> QED
      BY <1>9, <3>1
  <2> QED
    BY <1>2, <2>1 DEF Earned
<1>13. MarksAreEarned'
  BY <1>2, <1>12 DEF UnreadInv, MarksAreEarned
<1>14. StampsAreEarned'
  <2>1. ASSUME watching \in Games, NEW i \in DOMAIN ages
        PROVE  \/ ages[i] <= watched[watching][i]
               \/ Earned(watching, messages[watching][i].at)'
    <3>1. PICK h \in Games : h = watching
      BY <2>1
    <3>2. ages \in Seq(Times) /\ Len(ages) <= Len(watched[h])
      BY <3>1, Typed DEF UnreadInv, StampsAreEarned
    <3>3. messages'[h][i] = messages[h][i]
      <4>1. Len(ages) \in Nat /\ i \in 1 .. Len(ages)
        BY <2>1, <3>2
      <4>2. i \in 1 .. Len(messages[h])
        BY <1>8, <3>2, <4>1
      <4> QED
        BY <1>9, <4>2
    <3>4. ages[i] <= watched[h][i] \/ Earned(h, messages[h][i].at)
      BY <2>1, <3>1 DEF UnreadInv, StampsAreEarned
    <3>5. ages[i] <= watched[h][i] \/ Earned(h, messages[h][i].at)'
      <4>1. PICK t : t = messages[h][i].at
        OBVIOUS
      <4>2. Earned(h, t) => Earned(h, t)'
        BY <1>12
      <4> QED
        BY <3>3, <3>4, <4>1, <4>2 DEF Earned
    <3> QED
      BY <1>2, <3>1, <3>5 DEF Earned, clockVars
  <2> QED
    BY <1>2, <2>1 DEF UnreadInv, StampsAreEarned, clockVars
<1> QED
  BY <1>6, <1>10, <1>11, <1>13, <1>14 DEF UnreadInv

\* What the sample makes of stamps and watermarks holds of the history it makes.
LEMMA SampleKeeps ==
    ASSUME UnreadInv, Watching, UNCHANGED <<messages, pageVars>>, UnreadTypeOK',
           NEW m, m = watching',
           m = NoGame => ages' = << >>,
           m \in Games => /\ Len(ages') <= Len(watched'[m])
                          /\ \A i \in DOMAIN ages' : \/ ages'[i] <= watched'[m][i]
                                                     \/ EarnedNext(m, messages[m][i].at),
           \A g \in Games : watermark'[g] # watermark[g] /\ watermark'[g] # 0
                               => EarnedNext(g, watermark'[g])
    PROVE  UnreadInv'
<1>1. InOrder' /\ \A g \in Games : \A t : Earned(g, t) => EarnedNext(g, t)
  BY WatchedGoesOn
<1>2. ShownExist'
  BY DEF UnreadInv, ShownExist, pageVars
<1>3. StampsAreEarned'
  BY DEF StampsAreEarned, EarnedNext, Earned
<1>4. MarksAreEarned'
  <2>1. \A g \in Games : watermark'[g] # 0 => EarnedNext(g, watermark'[g])
    BY <1>1 DEF UnreadInv, MarksAreEarned
  <2> QED
    BY <2>1 DEF MarksAreEarned, EarnedNext, Earned
<1> QED
  BY <1>1, <1>2, <1>3, <1>4 DEF UnreadInv

LEMMA SeenUptoIs ==
    ASSUME UnreadInv, Watching, UNCHANGED messages, NEW g \in Games, g = open
    PROVE  SeenUpto \in Seconds /\ (SeenUpto # 0 => EarnedNext(g, SeenUpto))
<1> PICK s \in Seq(Times) : s = Stamped
  BY StampedIs
<1> PICK v \in Seq(Times) : v = watched'[g]
  BY WatchedOf
<1>1. /\ shown \in Nat /\ shown <= Len(s) /\ Len(s) <= Len(v)
      /\ \A i \in 1 .. Len(s) : s[i] <= v[i] \/ EarnedNext(g, messages[g][i].at)
      /\ Len(v) <= Len(messages[g]) /\ messages[g] \in Seq(Message)
  BY StampedIs, WatchedOf, Typed DEF UnreadInv
<1>2. PICK T : T = {messages[g][i].at : i \in {j \in 1 .. shown : s[j] >= SeenAfter}}
  OBVIOUS
<1>3. SeenUpto = Latest(T)
  BY <1>2 DEF SeenUpto
<1>4. T \subseteq 1 .. MaxSeconds
  <2>1. \A i \in 1 .. shown : messages[g][i] \in Message
    BY <1>1
  <2> QED
    BY <1>2, <2>1 DEF Message
<1>5. \A t \in T : EarnedNext(g, t)
  <2>1. SUFFICES ASSUME NEW i \in 1 .. shown, s[i] >= SeenAfter
                 PROVE  EarnedNext(g, messages[g][i].at)
    BY <1>2
  <2>2. i \in 1 .. Len(s) /\ i \in 1 .. Len(v) /\ s[i] \in Times /\ v[i] \in Times
    BY <1>1
  <2>3. CASE s[i] <= v[i]
    <3>1. v[i] = SeenAfter
      BY <2>1, <2>2, <2>3, SeenAfterAssumption DEF Times
    <3> QED
      BY <2>2, <3>1 DEF EarnedNext
  <2>4. CASE ~(s[i] <= v[i])
    BY <1>1, <2>2, <2>4
  <2> QED
    BY <2>3, <2>4
<1> QED
  BY <1>3, <1>4, <1>5, LatestIs

LEMMA FirstUnreadIs ==
    ASSUME NEW others \in SUBSET Games, NEW marks
    PROVE  FirstUnread(others, marks) \in Games \cup {NoGame}
  BY DEF FirstUnread

LEMMA TickKeeps ==
    ASSUME UnreadInv, Tick
    PROVE  UnreadInv'
<1>1. /\ Watching /\ running' = visible /\ UNCHANGED <<messages, pageVars>>
      /\ TickClosed \/ TickOpen
  BY DEF Tick
<1>2. /\ watched' \in [Games -> Seq(Times)] /\ visible \in BOOLEAN
  BY <1>1, WatchedGoesOn, Typed DEF UnreadInv
<1>3. CASE TickClosed
  <2>1. /\ ages' = Aged(ages) /\ watching' = watching /\ watermark' = watermark
        /\ here' = FALSE /\ target' = FirstUnread(Games, watermark)
        /\ unread' = (target' # NoGame)
    BY <1>3, Zenon DEF TickClosed, Aged
  <2>2. ages' \in Seq(Times)
    BY <2>1, AgedIs, Typed DEF UnreadInv
  <2>3. UnreadTypeOK'
    <3>1. target' \in Games \cup {NoGame} /\ unread' \in BOOLEAN /\ here' \in BOOLEAN
      BY <2>1, FirstUnreadIs
    <3> QED
      BY <1>1, <1>2, <2>1, <2>2, <3>1, Typed, TypedNext, Zenon DEF UnreadInv, pageVars
  <2>4. PICK m : m = watching'
    OBVIOUS
  <2>5. m = NoGame => ages' = << >>
    <3>1. ASSUME m = NoGame PROVE ages' = << >>
      <4>1. ages = << >>
        BY <2>1, <2>4, <3>1 DEF UnreadInv, StampsAreEarned
      <4>2. Aged(ages) = << >>
        BY <4>1 DEF Aged
      <4> QED
        BY <2>1, <4>2
    <3> QED
      BY <3>1
  <2>6. m \in Games => /\ Len(ages') <= Len(watched'[m])
                       /\ \A i \in DOMAIN ages' : \/ ages'[i] <= watched'[m][i]
                                                  \/ EarnedNext(m, messages[m][i].at)
    <3>1. SUFFICES ASSUME m \in Games
                   PROVE  /\ Len(ages') <= Len(watched'[m])
                          /\ \A i \in DOMAIN ages' : \/ ages'[i] <= watched'[m][i]
                                                     \/ EarnedNext(m, messages[m][i].at)
      OBVIOUS
    <3>2. /\ Len(Aged(ages)) = Len(ages) /\ Len(ages) <= Len(watched'[m])
          /\ \A i \in 1 .. Len(ages) : \/ Aged(ages)[i] <= watched'[m][i]
                                       \/ EarnedNext(m, messages[m][i].at)
      BY <1>1, <2>1, <2>4, <3>1, AgedStamps
    <3>3. DOMAIN ages' = 1 .. Len(ages')
      BY <2>2
    <3> QED
      BY <2>1, <3>2, <3>3
  <2> QED
    BY <1>1, <2>1, <2>3, <2>4, <2>5, <2>6, SampleKeeps
<1>4. CASE TickOpen
  <2>1. PICK g \in Games : g = open
    BY <1>4, Typed DEF UnreadInv, TickOpen
  <2>2. /\ watching' = g /\ ages' = Stamped
        /\ watermark' = IF SeenUpto = 0 THEN watermark
                        ELSE [watermark EXCEPT ![g] = SeenUpto]
    BY <1>4, <2>1 DEF TickOpen
  <2>3. /\ ages' \in Seq(Times) /\ DOMAIN ages' = 1 .. Len(ages')
        /\ Len(ages') <= Len(watched'[g])
        /\ \A i \in 1 .. Len(ages') : ages'[i] <= watched'[g][i]
                                      \/ EarnedNext(g, messages[g][i].at)
    BY <1>1, <2>1, <2>2, StampedIs
  <2>4. PICK k \in Seconds : k = SeenUpto /\ (k # 0 => EarnedNext(g, k))
    BY <1>1, <2>1, SeenUptoIs
  <2>5. watermark \in [Games -> Seconds]
    BY Typed DEF UnreadInv
  <2>6. /\ watermark' \in [Games -> Seconds]
        /\ \A h \in Games : watermark'[h] # watermark[h] /\ watermark'[h] # 0
                               => EarnedNext(h, watermark'[h])
    BY <2>2, <2>4, <2>5
  <2>7. /\ here' \in BOOLEAN /\ target' \in Games \cup {NoGame} /\ unread' \in BOOLEAN
    <3>1. PICK other : other = FirstUnread(Games \ {open}, watermark')
      OBVIOUS
    <3>2. other \in Games \cup {NoGame}
      BY <3>1, FirstUnreadIs
    <3>3. /\ target' = IF here' THEN open ELSE other
          /\ unread' = (here' \/ other # NoGame)
      BY <1>4, <3>1 DEF TickOpen
    <3>4. here' \in BOOLEAN
      BY <1>4 DEF TickOpen, UnreadFor
    <3>5. target' \in Games \cup {NoGame}
      BY <2>1, <3>2, <3>3
    <3>6. unread' \in BOOLEAN
      BY <3>3, Zenon
    <3> QED
      BY <3>4, <3>5, <3>6
  <2>8. UnreadTypeOK'
    BY <1>1, <1>2, <2>2, <2>3, <2>6, <2>7, Typed, TypedNext, Zenon DEF UnreadInv, pageVars
  <2>9. g # NoGame
    BY NoGameAssumption
  <2> QED
    BY <1>1, <2>2, <2>3, <2>6, <2>8, <2>9, SampleKeeps
<1> QED
  BY <1>1, <1>3, <1>4

-----------------------------------------------------------------------------
(* Unread: the invariant holds in every state.                             *)

LEMMA UnreadInitKeeps == UnreadInit => UnreadInv
<1>1. SUFFICES ASSUME UnreadInit PROVE UnreadInv
  OBVIOUS
<1>2. 0 \in Seconds /\ << >> \in Seq(Times) /\ << >> \in Seq(Message) /\ NoGame \notin Games
  BY SeenAfterAssumption, NoGameAssumption DEF Seconds
<1>3. UnreadTypeOK
  BY <1>1, <1>2, Typed DEF UnreadInit
<1>4. ShownExist /\ InOrder /\ StampsAreEarned /\ MarksAreEarned
  BY <1>1, <1>2 DEF UnreadInit, ShownExist, InOrder, StampsAreEarned, MarksAreEarned
<1> QED
  BY <1>3, <1>4 DEF UnreadInv

LEMMA AskKeeps ==
    ASSUME UnreadInv, NEW g \in Games, NEW direct \in BOOLEAN, Ask(g, direct)
    PROVE  UnreadInv'
<1>1. /\ replies' = replies \cup {[game |-> g, shown |-> Len(messages[g]), direct |-> direct]}
      /\ UNCHANGED <<messages, listed, open, shown, visible, clockVars, watermark,
                     indicatorVars, watched>>
  BY DEF Ask
<1>2. Len(messages[g]) \in Nat
  BY Typed DEF UnreadInv
<1>3. PICK m : m = [game |-> g, shown |-> Len(messages[g]), direct |-> direct]
  OBVIOUS
<1>4. m \in [game : Games, shown : Nat, direct : BOOLEAN] /\ m.game = g
      /\ m.shown = Len(messages[g])
  BY <1>2, <1>3
<1>5. UnreadTypeOK'
  <2>1. replies' \subseteq [game : Games, shown : Nat, direct : BOOLEAN]
    BY <1>1, <1>3, <1>4, Typed DEF UnreadInv
  <2> QED
    BY <1>1, <2>1, Typed, TypedNext, Zenon DEF UnreadInv, clockVars, indicatorVars
<1>6. ShownExist'
  BY <1>1, <1>2, <1>3, <1>4 DEF UnreadInv, ShownExist
<1> QED
  BY <1>1, <1>5, <1>6, PageKeeps DEF clockVars

LEMMA AnswerKeeps ==
    ASSUME UnreadInv, NEW m \in replies, Answer(m) \/ Fails(m)
    PROVE  UnreadInv'
<1>1. /\ replies' = replies \ {m}
      /\ UNCHANGED <<messages, listed, clockVars, watermark, indicatorVars, watched>>
  BY DEF Answer, Fails
<1>2. /\ m.game \in Games /\ m.shown \in Nat /\ shown \in Nat /\ open \in Games \cup {NoGame}
      /\ m.shown <= Len(messages[m.game]) /\ (open \in Games => shown <= Len(messages[open]))
      /\ visible \in BOOLEAN
  BY Typed DEF UnreadInv, ShownExist
<1>3. Max({m.shown, shown}) \in {m.shown, shown}
  <2>1. \E k \in {m.shown, shown} : \A j \in {m.shown, shown} : k >= j
    <3>1. m.shown >= shown \/ shown >= m.shown
      BY <1>2
    <3> QED
      BY <1>2, <3>1
  <2> QED
    BY <2>1 DEF Max
<1>4. /\ open' \in Games \cup {NoGame} /\ shown' \in Nat /\ visible' \in BOOLEAN
      /\ open' \in Games => shown' <= Len(messages[open'])
  <2>1. CASE Answer(m)
    <3>1. /\ open' = m.game /\ visible' \in BOOLEAN
          /\ shown' = IF m.game = open /\ ~m.direct
                      THEN Max({m.shown, shown}) ELSE m.shown
      BY <2>1 DEF Answer
    <3>2. CASE m.game = open /\ ~m.direct
      <4>1. shown' = m.shown \/ shown' = shown
        BY <1>3, <3>1, <3>2
      <4> QED
        BY <1>2, <3>1, <3>2, <4>1
    <3>3. CASE ~(m.game = open /\ ~m.direct)
      BY <1>2, <3>1, <3>3
    <3> QED
      BY <3>2, <3>3
  <2>2. CASE Fails(m)
    BY <1>2, <2>2 DEF Fails
  <2> QED
    BY <2>1, <2>2
<1>5. UnreadTypeOK'
  <2>1. replies' \subseteq [game : Games, shown : Nat, direct : BOOLEAN]
    BY <1>1, Typed DEF UnreadInv
  <2> QED
    BY <1>1, <1>4, <2>1, Typed, TypedNext, Zenon DEF UnreadInv, clockVars, indicatorVars
<1>6. ShownExist'
  BY <1>1, <1>4 DEF UnreadInv, ShownExist
<1> QED
  BY <1>1, <1>5, <1>6, PageKeeps DEF clockVars

LEMMA NextKeeps ==
    ASSUME UnreadInv, UnreadNext
    PROVE  UnreadInv'
<1>1. CASE \E g \in Games, mine \in BOOLEAN : Send(g, mine)
  BY <1>1, SendKeeps
<1>2. CASE Look
  <2>1. /\ visible' \in BOOLEAN
        /\ UNCHANGED <<messages, replies, listed, open, shown, clockVars, watermark,
                       indicatorVars, watched>>
    BY <1>2, Typed DEF UnreadInv, Look
  <2>2. UnreadTypeOK'
    BY <2>1, Typed, TypedNext, Zenon DEF UnreadInv, clockVars, indicatorVars
  <2>3. ShownExist'
    BY <2>1 DEF UnreadInv, ShownExist
  <2> QED
    BY <2>1, <2>2, <2>3, PageKeeps DEF clockVars
<1>3. CASE Poll
  <2>1. /\ listed' = [g \in Games |-> Received(messages[g])]
        /\ UNCHANGED <<messages, replies, open, shown, visible, clockVars, watermark,
                       indicatorVars, watched>>
    BY <1>3 DEF Poll
  <2>2. \A g \in Games : Received(messages[g]) \in Seconds
    BY ReceivedIs, Typed DEF UnreadInv
  <2>3. listed' \in [Games -> Seconds]
    BY <2>1, <2>2
  <2>4. UnreadTypeOK'
    BY <2>1, <2>3, Typed, TypedNext, Zenon DEF UnreadInv, clockVars, indicatorVars
  <2>5. ShownExist'
    BY <2>1 DEF UnreadInv, ShownExist
  <2> QED
    BY <2>1, <2>4, <2>5, PageKeeps DEF clockVars
<1>4. CASE Update
  <2>1. /\ open \in Games /\ shown' \in shown + 1 .. Len(messages[open])
        /\ UNCHANGED <<messages, replies, listed, open, visible, clockVars, watermark,
                       indicatorVars, watched>>
    BY <1>4, Typed DEF UnreadInv, Update
  <2>2. shown' \in Nat /\ shown' <= Len(messages[open])
    <3>1. shown \in Nat /\ Len(messages[open]) \in Nat
      BY <2>1, Typed DEF UnreadInv
    <3> QED
      BY <2>1, <3>1
  <2>3. UnreadTypeOK'
    BY <2>1, <2>2, Typed, TypedNext, Zenon DEF UnreadInv, clockVars, indicatorVars
  <2>4. ShownExist'
    BY <2>1, <2>2 DEF UnreadInv, ShownExist
  <2> QED
    BY <2>1, <2>3, <2>4, PageKeeps DEF clockVars
<1>5. CASE \E g \in Games : Select(g)
  BY <1>5, AskKeeps DEF Select
<1>6. CASE ShowUnread
  <2>1. CASE target # open /\ Ask(target, TRUE)
    <3>1. target \in Games
      BY <1>6, Typed DEF UnreadInv, ShowUnread
    <3>2. PICK g \in Games : g = target
      BY <3>1
    <3> QED
      BY <2>1, <3>2, AskKeeps
  <2>2. CASE /\ visible' = TRUE
             /\ UNCHANGED <<messages, replies, listed, open, shown, clockVars, watermark,
                            indicatorVars, watched>>
    <3>1. visible' \in BOOLEAN
      BY <2>2
    <3>2. UnreadTypeOK'
      BY <2>2, <3>1, Typed, TypedNext, Zenon DEF UnreadInv, clockVars, indicatorVars
    <3>3. ShownExist'
      BY <2>2 DEF UnreadInv, ShownExist
    <3> QED
      BY <2>2, <3>2, <3>3, PageKeeps DEF clockVars
  <2> QED
    BY <1>6, <2>1, <2>2 DEF ShowUnread
<1>7. CASE \E m \in replies : Answer(m) \/ Fails(m)
  BY <1>7, AnswerKeeps
<1>8. CASE Close
  <2>1. /\ open' = NoGame /\ shown' = 0 /\ visible' = FALSE
        /\ UNCHANGED <<messages, replies, listed, clockVars, watermark, indicatorVars,
                       watched>>
    BY <1>8 DEF Close
  <2>2. open' \in Games \cup {NoGame} /\ shown' \in Nat /\ visible' \in BOOLEAN
    BY <2>1
  <2>3. UnreadTypeOK'
    BY <2>1, <2>2, Typed, TypedNext, Zenon DEF UnreadInv, clockVars, indicatorVars
  <2>4. ShownExist'
    BY <2>1, NoGameAssumption DEF UnreadInv, ShownExist
  <2> QED
    BY <2>1, <2>3, <2>4, PageKeeps DEF clockVars
<1>9. CASE Reload
  <2>1. /\ replies' = {} /\ listed' = [g \in Games |-> 0]
        /\ open' = NoGame /\ shown' = 0 /\ visible' = FALSE
        /\ running' = FALSE /\ watching' = NoGame /\ ages' = << >>
        /\ unread' = FALSE /\ here' = FALSE /\ target' = NoGame
        /\ UNCHANGED <<messages, watermark, watched>>
    BY <1>9 DEF Reload
  <2>2. /\ replies' \subseteq [game : Games, shown : Nat, direct : BOOLEAN]
        /\ listed' \in [Games -> Seconds] /\ open' \in Games \cup {NoGame}
        /\ shown' \in Nat /\ visible' \in BOOLEAN /\ running' \in BOOLEAN
        /\ watching' \in Games \cup {NoGame} /\ ages' \in Seq(Times)
        /\ unread' \in BOOLEAN /\ here' \in BOOLEAN /\ target' \in Games \cup {NoGame}
    <3>1. listed' \in [Games -> Seconds]
      BY <2>1, SeenAfterAssumption DEF Seconds
    <3>2. ages' \in Seq(Times)
      BY <2>1
    <3> QED
      BY <2>1, <3>1, <3>2
  <2>3. UnreadTypeOK'
    BY <2>1, <2>2, Typed, TypedNext, Zenon DEF UnreadInv
  <2>4. ShownExist'
    BY <2>1, NoGameAssumption DEF ShownExist
  <2>5. InOrder'
    BY <2>1 DEF UnreadInv, InOrder
  <2>6. StampsAreEarned'
    BY <2>1, NoGameAssumption DEF StampsAreEarned
  <2>7. MarksAreEarned'
    BY <2>1 DEF UnreadInv, MarksAreEarned, Earned
  <2> QED
    BY <2>3, <2>4, <2>5, <2>6, <2>7 DEF UnreadInv
<1>10. CASE Tick
  BY <1>10, TickKeeps
<1> QED
  BY <1>1, <1>2, <1>3, <1>4, <1>5, <1>6, <1>7, <1>8, <1>9, <1>10 DEF UnreadNext

LEMMA StutterKeeps ==
    ASSUME UnreadInv, UNCHANGED unreadVars
    PROVE  UnreadInv'
<1>1. UNCHANGED <<messages, replies, listed, open, shown, visible, running, watching, ages,
                  watermark, unread, here, target, watched>>
  BY DEF unreadVars, pageVars, clockVars, indicatorVars
<1>2. UnreadTypeOK'
  BY <1>1, Typed, TypedNext, Zenon DEF UnreadInv
<1>3. ShownExist'
  BY <1>1 DEF UnreadInv, ShownExist
<1> QED
  BY <1>1, <1>2, <1>3, PageKeeps

\* In every state the page shows only messages that exist, the stamps and the
\* watermarks say no more than what was watched, and a chat is in the order of
\* its times: what app.rs's ticker and local_storage.rs rely on.
THEOREM UnreadConsistent == UnreadSpec => []UnreadInv
<1>1. UnreadInv /\ [UnreadNext]_unreadVars => UnreadInv'
  BY NextKeeps, StutterKeeps
<1> QED
  BY <1>1, UnreadInitKeeps, PTL DEF UnreadSpec

\* The tab's signals, stamps and saved watermarks have their types throughout.
THEOREM UnreadTypeCorrect == UnreadSpec => []UnreadTypeOK
<1>1. UnreadInv => UnreadTypeOK
  BY DEF UnreadInv
<1> QED
  BY <1>1, UnreadConsistent, PTL

\* A message counts as read only when it, or one of its second, has been in
\* front of somebody for SEEN_AFTER_MS (SeenClock), for any number of games and
\* messages, whatever is opened, closed, reloaded or answered late in between.
THEOREM MarksMeanWatched == UnreadSpec => []ReadMeansWatched
<1>1. UnreadInv => ReadMeansWatched
  BY ReadIsEarned DEF ReadMeansWatched, Earned
<1> QED
  BY <1>1, UnreadConsistent, PTL

-----------------------------------------------------------------------------
(* Screen: its requests.                                                   *)

RequestSet ==
    [kind : Kinds, game : GameIds \cup {None}, token : Token,
     version : 0..MaxVersion, done : BOOLEAN]

\* A request that names a game when it must, and a version the game has had.
Sound(r) ==
    /\ r \in RequestSet
    /\ r.kind # "load" => r.game \in GameIds
    /\ r.game \in GameIds => r.version \in 1..version[r.game]

LEMMA ScreenBounds ==
    /\ MaxSessions \in Nat /\ MaxVersion \in Nat /\ MaxVersion >= 1 /\ MaxActs \in Nat
    /\ None \notin GameIds /\ NoToken \in Token
  BY ScreenAssumption DEF Token, NoToken

LEMMA RequestsAreSound ==
    ASSUME ScreenInv PROVE \A r \in requests : Sound(r)
  BY DEF ScreenInv, ScreenTypeOK, RequestsAreInOrder, Sound, RequestSet

\* A request as it is sent.
LEMMA SentIsSound ==
    ASSUME ScreenTypeOK, NEW kind \in Kinds, NEW game \in GameIds \cup {None},
           NEW token \in Token, kind # "load" => game \in GameIds
    PROVE  Sound(Request(kind, game, token))
<1>1. game \in GameIds => version[game] \in 1..MaxVersion
  BY DEF ScreenTypeOK
<1>2. CASE game = None
  BY <1>2, ScreenBounds DEF Request, Sound, RequestSet
<1>3. CASE game \in GameIds
  BY <1>1, <1>3, ScreenBounds DEF Request, Sound, RequestSet
<1> QED
  BY <1>2, <1>3

\* Requests stay sound while versions grow.
LEMMA SoundStays ==
    ASSUME ScreenTypeOK, NEW r, Sound(r),
           version' \in [GameIds -> 1..MaxVersion],
           \A g \in GameIds : version[g] <= version'[g]
    PROVE  Sound(r)'
<1>1. \A g \in GameIds : version[g] \in Nat /\ version'[g] \in Nat
  BY ScreenBounds DEF ScreenTypeOK
<1> QED
  BY <1>1 DEF Sound

-----------------------------------------------------------------------------
(* What holds of a step that keeps the versions and of one that keeps the  *)
(* requests.                                                               *)

\* The requests after a step are sound, and the rest is typed and tended.
LEMMA SoundAndTended ==
    ASSUME \A r \in requests' : Sound(r)',
           version' \in [GameIds -> 1..MaxVersion], acts' \in 0..MaxActs,
           issued' \in Token, session' \in {NoToken, issued'},
           onScreen' \in View \cup {None}, feed' \in GameIds \cup {None},
           loops' \subseteq [game : GameIds, token : Token, at : 0..MaxVersion],
           recon' \in [token : Token, game : GameIds \cup {None}],
           FeedIsTended'
    PROVE  ScreenInv'
  BY DEF ScreenInv, ScreenTypeOK, RequestsAreInOrder, Sound, RequestSet

\* A game applied to the screen.
LEMMA ApplyKeeps ==
    ASSUME onScreen \in View \cup {None}, NEW new \in View, Apply(new)
    PROVE  /\ onScreen' \in View \cup {None}
           /\ (onScreen # None /\ onScreen' # onScreen) =>
                 onScreen'.game # onScreen.game \/ onScreen'.version > onScreen.version
<1>1. CASE ShouldApply(new)
  <2>1. onScreen' = new
    BY <1>1 DEF Apply
  <2>2. onScreen # None => new.game # onScreen.game \/ new.version > onScreen.version
    BY <1>1, ScreenBounds DEF ShouldApply, Showing, View
  <2> QED
    BY <2>1, <2>2
<1>2. CASE ~ShouldApply(new)
  BY <1>2 DEF Apply
<1> QED
  BY <1>1, <1>2

\* The tasks and the game they are for are left alone, or there is no game.
LEMMA FeedStays ==
    ASSUME FeedIsTended, UNCHANGED loops, feed' \in {feed, None}
    PROVE  FeedIsTended'
  BY DEF FeedIsTended

\* A step that lets the versions be and adds sound requests.
LEMMA QuietKeeps ==
    ASSUME ScreenInv, UNCHANGED <<version, loops>>,
           \A r \in requests' : r \in requests \/ Sound(r),
           acts' \in 0..MaxActs, issued' \in Token, session' \in {NoToken, issued'},
           onScreen' \in View \cup {None}, feed' \in {feed, None},
           recon' \in [token : Token, game : GameIds \cup {None}]
    PROVE  ScreenInv'
<1>1. \A r \in requests' : Sound(r)
  BY RequestsAreSound
<1>2. \A r \in requests' : Sound(r)'
  BY <1>1 DEF Sound
<1>3. FeedIsTended'
  BY FeedStays DEF ScreenInv
<1> QED
  BY <1>2, <1>3, SoundAndTended DEF ScreenInv, ScreenTypeOK

-----------------------------------------------------------------------------
(* Screen: the server.                                                     *)

LEMMA MovedGrows ==
    ASSUME ScreenTypeOK, NEW g \in GameIds, Moved(g)
    PROVE  /\ version' \in [GameIds -> 1..MaxVersion] /\ version'[g] = version[g] + 1
           /\ \A h \in GameIds : version[h] <= version'[h]
<1>1. version \in [GameIds -> 1..MaxVersion]
  BY DEF ScreenTypeOK
<1>2. \A h \in GameIds : version'[h] = IF h = g THEN version[g] + 1 ELSE version[h]
  BY <1>1 DEF Moved
<1> QED
  BY <1>1, <1>2, ScreenBounds DEF Moved

LEMMA OthersMoveKeeps == ASSUME ScreenInv, NEW g \in GameIds, OthersMove(g) PROVE ScreenInv'
<1>1. /\ version' \in [GameIds -> 1..MaxVersion]
      /\ \A h \in GameIds : version[h] <= version'[h]
  BY MovedGrows DEF OthersMove, ScreenInv
<1>2. \A r \in requests' : Sound(r)'
  BY <1>1, RequestsAreSound, SoundStays DEF OthersMove, ScreenInv
<1> QED
  BY <1>1, <1>2, SoundAndTended DEF OthersMove, ScreenInv, ScreenTypeOK, FeedIsTended

LEMMA ServeKeeps == ASSUME ScreenInv, NEW r \in requests, Serve(r) PROVE ScreenInv'
<1>1. Sound(r) /\ r.kind \in Changes /\ r.game \in GameIds /\ Moved(r.game)
  BY RequestsAreSound DEF Serve, Changes, Sound
<1>2. /\ version' \in [GameIds -> 1..MaxVersion] /\ version'[r.game] = version[r.game] + 1
      /\ \A h \in GameIds : version[h] <= version'[h]
  BY <1>1, MovedGrows DEF ScreenInv
<1>3. PICK served : served = [r EXCEPT !.done = TRUE, !.version = @ + 1]
  OBVIOUS
<1>4. Sound(served)'
  <2>1. version[r.game] \in 1..MaxVersion
    BY <1>1 DEF ScreenInv, ScreenTypeOK
  <2>2. version'[r.game] \in 1..MaxVersion
    BY <1>1, <1>2
  <2>3. r.version \in 1..version[r.game] /\ r \in RequestSet
    BY <1>1 DEF Sound
  <2>4. /\ served.version = r.version + 1 /\ served.game = r.game
        /\ served.kind = r.kind /\ served \in RequestSet
    <3>1. r.version + 1 \in 0..MaxVersion
      BY <1>2, <2>1, <2>2, <2>3, ScreenBounds
    <3> QED
      BY <1>3, <2>3, <3>1 DEF RequestSet
  <2>5. served.version \in 1..version'[r.game]
    BY <1>2, <2>1, <2>3, <2>4
  <2> QED
    BY <1>1, <2>4, <2>5 DEF Sound
<1>5. requests' = (requests \ {r}) \cup {served}
  BY <1>3 DEF Serve
<1>6. \A q \in requests' : Sound(q)'
  BY <1>2, <1>4, <1>5, RequestsAreSound, SoundStays DEF ScreenInv
<1> QED
  BY <1>2, <1>6, SoundAndTended DEF Serve, ScreenInv, ScreenTypeOK, FeedIsTended

-----------------------------------------------------------------------------
(* Screen: the answers.                                                    *)

\* What an answer may show.
LEMMA ReceiveGameShows ==
    ASSUME ScreenInv, NEW r \in requests, ReceiveGame(r)
    PROVE  \E new \in View : /\ new.game = r.game
                             /\ IF r.kind = "unread" THEN onScreen' = new ELSE Apply(new)
<1>1. /\ Sound(r) /\ r.game \in GameIds /\ r.version \in 1..version[r.game]
      /\ version[r.game] \in 1..MaxVersion /\ r.token \in Token
  BY RequestsAreSound DEF ReceiveGame, Loads, Sound, RequestSet, ScreenInv, ScreenTypeOK
<1>2. PICK v \in r.version..version[r.game] :
         LET new == [game |-> r.game, version |-> v, viewer |-> r.token]
         IN IF r.kind = "unread" THEN onScreen' = new ELSE Apply(new)
  BY DEF ReceiveGame
<1>3. v \in 1..MaxVersion
  BY <1>1, <1>2, ScreenBounds
<1> QED
  BY <1>1, <1>2, <1>3 DEF View

LEMMA ResultIsView ==
    ASSUME ScreenInv, NEW r \in requests, r.kind \in Changes
    PROVE  Result(r) \in View
<1>1. Sound(r) /\ r.game \in GameIds /\ version[r.game] \in 1..MaxVersion
  BY RequestsAreSound DEF Changes, Sound, ScreenInv, ScreenTypeOK
<1> QED
  BY <1>1, ScreenBounds DEF Sound, RequestSet, Result, View

LEMMA ReceiveListKeeps == ASSUME ScreenInv, NEW r \in requests, ReceiveList(r) PROVE ScreenInv'
<1>1. PICK g \in GameIds : requests' = (requests \ {r}) \cup {Request("game", g, r.token)}
  BY DEF ReceiveList, Done
<1>2. Sound(Request("game", g, r.token))
  BY RequestsAreSound, SentIsSound DEF ScreenInv, Sound, RequestSet, Kinds, Loads
<1> QED
  BY <1>1, <1>2, QuietKeeps DEF ReceiveList, ScreenInv, ScreenTypeOK

LEMMA ReceiveGameKeeps == ASSUME ScreenInv, NEW r \in requests, ReceiveGame(r) PROVE ScreenInv'
<1>1. PICK new \in View : IF r.kind = "unread" THEN onScreen' = new ELSE Apply(new)
  BY ReceiveGameShows
<1>2. onScreen' \in View \cup {None}
  BY <1>1, ApplyKeeps DEF ScreenInv, ScreenTypeOK
<1> QED
  BY <1>2, QuietKeeps DEF ReceiveGame, Done, ScreenInv, ScreenTypeOK

LEMMA ReceiveActKeeps == ASSUME ScreenInv, NEW r \in requests, ReceiveAct(r) PROVE ScreenInv'
<1>1. Result(r) \in View
  BY ResultIsView DEF ReceiveAct, Changes
<1>2. onScreen' \in View \cup {None}
  BY <1>1, ApplyKeeps DEF ReceiveAct, ScreenInv, ScreenTypeOK
<1> QED
  BY <1>2, QuietKeeps DEF ReceiveAct, Done, ScreenInv, ScreenTypeOK

LEMMA ReceiveJoinKeeps == ASSUME ScreenInv, NEW r \in requests, ReceiveJoin(r) PROVE ScreenInv'
<1>1. Result(r) \in View
  BY ResultIsView DEF ReceiveJoin, Changes
<1>2. onScreen' \in View \cup {None}
  BY <1>1, ApplyKeeps DEF ReceiveJoin, ScreenInv, ScreenTypeOK
<1>3. Sound(Request("act", r.game, r.token))
  BY RequestsAreSound, SentIsSound
  DEF ReceiveJoin, ScreenInv, Sound, RequestSet, Kinds, Changes
<1> QED
  BY <1>2, <1>3, QuietKeeps DEF ReceiveJoin, Done, ScreenInv, ScreenTypeOK

LEMMA ReceiveRemoveKeeps ==
    ASSUME ScreenInv, NEW r \in requests, ReceiveRemove(r) \/ Refused(r) PROVE ScreenInv'
<1>1. CASE ReceiveRemove(r)
  BY <1>1, QuietKeeps DEF ReceiveRemove, Done, ScreenInv, ScreenTypeOK
<1>2. CASE Refused(r)
  BY <1>2, QuietKeeps DEF Refused, Done, ScreenInv, ScreenTypeOK
<1> QED
  BY <1>1, <1>2

-----------------------------------------------------------------------------
(* Screen: the user and the tasks.                                         *)

LEMMA PostKeeps ==
    ASSUME ScreenInv, NEW kind \in Kinds \ {"load"}, NEW g \in GameIds,
           Post(Request(kind, g, session))
    PROVE  ScreenInv'
<1>1. session \in Token
  BY ScreenBounds DEF ScreenInv, ScreenTypeOK
<1>2. Sound(Request(kind, g, session))
  <2>1. PICK token \in Token : token = session
    BY <1>1
  <2> QED
    BY <2>1, SentIsSound DEF ScreenInv
<1>3. acts' \in 0..MaxActs
  BY ScreenBounds DEF Post, Acting, ScreenInv, ScreenTypeOK
<1> QED
  BY <1>2, <1>3, QuietKeeps DEF Post, ScreenInv, ScreenTypeOK

LEMMA UserKeeps == ASSUME ScreenInv, User PROVE ScreenInv'
<1>1. CASE SignIn
  <2>1. /\ issued' = issued + 1 /\ session' = issued' /\ issued < MaxSessions
        /\ requests' = requests \cup {Request("load", None, issued')}
        /\ UNCHANGED <<version, acts, onScreen, feed, loops, recon>>
    BY <1>1 DEF SignIn
  <2>2. issued' \in Token
    BY <2>1, ScreenBounds DEF ScreenInv, ScreenTypeOK, Token
  <2>3. PICK token \in Token : token = issued'
    BY <2>2
  <2>4. Sound(Request("load", None, token))
    BY SentIsSound DEF ScreenInv, Kinds
  <2> QED
    BY <2>1, <2>2, <2>3, <2>4, QuietKeeps DEF ScreenInv, ScreenTypeOK
<1>2. CASE SignOut
  BY <1>2, QuietKeeps DEF SignOut, ScreenInv, ScreenTypeOK
<1>3. ASSUME NEW g \in GameIds,
             OpenGame(g) \/ OpenUnread(g) \/ Change(g) \/ Join(g) \/ RemoveGame(g)
      PROVE  ScreenInv'
  BY <1>3, PostKeeps
  DEF OpenGame, OpenUnread, Change, Join, RemoveGame, Kinds, Loads, Changes
<1> QED
  BY <1>1, <1>2, <1>3 DEF User

LEMMA RecoveryKeeps == ASSUME ScreenInv, LoseServer \/ FindServer PROVE ScreenInv'
<1>1. CASE LoseServer
  <2>1. recon' \in [token : Token, game : GameIds \cup {None}]
    BY <1>1, ScreenBounds DEF LoseServer, ScreenInv, ScreenTypeOK, View
  <2>2. acts' \in 0..MaxActs
    BY <1>1, ScreenBounds DEF LoseServer, Acting, ScreenInv, ScreenTypeOK
  <2> QED
    BY <1>1, <2>1, <2>2, QuietKeeps DEF LoseServer, ScreenInv, ScreenTypeOK
<1>2. CASE FindServer
  <2>1. PICK token \in Token, game \in GameIds \cup {None} :
           recon.token = token /\ recon.game = game
    BY DEF ScreenInv, ScreenTypeOK
  <2>2. Sound(Request("load", game, token))
    BY SentIsSound DEF ScreenInv, Kinds
  <2>3. recon' \in [token : Token, game : GameIds \cup {None}]
    BY <1>2, ScreenBounds DEF FindServer, NotRecovering
  <2> QED
    BY <1>2, <2>1, <2>2, <2>3, QuietKeeps DEF FindServer, ScreenInv, ScreenTypeOK
<1> QED
  BY <1>1, <1>2

\* A step of the subscription tasks, which may show an event.
LEMMA LoopsKeep ==
    ASSUME ScreenInv, UNCHANGED <<version, acts, issued, session, requests, recon>>,
           onScreen' \in View \cup {None}, feed' \in GameIds \cup {None},
           loops' \subseteq [game : GameIds, token : Token, at : 0..MaxVersion],
           FeedIsTended'
    PROVE  ScreenInv'
<1>1. \A r \in requests' : Sound(r)'
  BY RequestsAreSound DEF Sound
<1> QED
  BY <1>1, SoundAndTended DEF ScreenInv, ScreenTypeOK

\* A task is replaced by itself, or ends because another game is selected.
LEMMA TaskStays ==
    ASSUME FeedIsTended, NEW l \in loops, UNCHANGED feed, NEW more, With(l, more),
           feed = l.game => \E m \in more : m.game = l.game
    PROVE  FeedIsTended'
<1> SUFFICES ASSUME feed # None PROVE \E m \in loops' : m.game = feed
  BY DEF FeedIsTended
<1>1. PICK k \in loops : k.game = feed
  BY DEF FeedIsTended
<1>2. CASE k = l
  BY <1>1, <1>2 DEF With
<1>3. CASE k # l
  BY <1>1, <1>3 DEF With
<1> QED
  BY <1>2, <1>3

LEMMA SubscribeKeeps == ASSUME ScreenInv, Subscribe PROVE ScreenInv'
<1>1. onScreen.game \in GameIds /\ session \in Token
  BY ScreenBounds DEF Subscribe, ScreenInv, ScreenTypeOK, View
<1>2. PICK task : task = [game |-> onScreen.game, token |-> session, at |-> 0]
  OBVIOUS
<1>3. loops' = loops \cup {task} /\ feed' = task.game
  BY <1>2 DEF Subscribe
<1>4. FeedIsTended'
  BY <1>3 DEF FeedIsTended
<1>5. task \in [game : GameIds, token : Token, at : 0..MaxVersion]
  BY <1>1, <1>2, ScreenBounds
<1> QED
  BY <1>1, <1>3, <1>4, <1>5, LoopsKeep DEF Subscribe, ScreenInv, ScreenTypeOK

LEMMA EventShows ==
    ASSUME ScreenInv, NEW l \in loops, Event(l), feed = l.game
    PROVE  \E new \in View : new.game = l.game /\ Apply(new)
<1>1. l \in [game : GameIds, token : Token, at : 0..MaxVersion]
      /\ version[l.game] \in 1..MaxVersion
  BY DEF ScreenInv, ScreenTypeOK
<1>2. [game |-> l.game, version |-> l.at + 1, viewer |-> l.token] \in View
  BY <1>1, ScreenBounds DEF Event, View
<1> QED
  BY <1>2 DEF Event

LEMMA TaskKeeps ==
    ASSUME ScreenInv, NEW l \in loops, Dial(l) \/ Hangup(l) \/ Event(l) PROVE ScreenInv'
<1>1. /\ l \in [game : GameIds, token : Token, at : 0..MaxVersion]
      /\ version[l.game] \in 1..MaxVersion
  BY DEF ScreenInv, ScreenTypeOK
<1>2. ASSUME NEW at \in 0..MaxVersion
      PROVE  /\ [l EXCEPT !.at = at] \in [game : GameIds, token : Token, at : 0..MaxVersion]
             /\ [l EXCEPT !.at = at].game = l.game
  BY <1>1, <1>2
<1>3. CASE Dial(l)
  <2>1. PICK at \in 0..MaxVersion : at = version[l.game]
    BY <1>1
  <2>2. PICK more : more = IF feed # l.game THEN {} ELSE {[l EXCEPT !.at = at]}
    OBVIOUS
  <2>3. With(l, more)
    BY <1>3, <2>1, <2>2 DEF Dial
  <2>4. FeedIsTended'
    BY <1>2, <1>3, <2>2, <2>3, TaskStays DEF Dial, ScreenInv
  <2>5. loops' \subseteq [game : GameIds, token : Token, at : 0..MaxVersion]
    BY <1>2, <2>2, <2>3 DEF With, ScreenInv, ScreenTypeOK
  <2> QED
    BY <1>3, <2>4, <2>5, LoopsKeep DEF Dial, ScreenInv, ScreenTypeOK
<1>4. CASE Hangup(l)
  <2>1. With(l, {[l EXCEPT !.at = 0]}) /\ 0 \in 0..MaxVersion
    BY <1>4, ScreenBounds DEF Hangup
  <2>2. FeedIsTended'
    BY <1>2, <1>4, <2>1, TaskStays DEF Hangup, ScreenInv
  <2>3. loops' \subseteq [game : GameIds, token : Token, at : 0..MaxVersion]
    BY <1>2, <2>1 DEF With, ScreenInv, ScreenTypeOK
  <2> QED
    BY <1>4, <2>2, <2>3, LoopsKeep DEF Hangup, ScreenInv, ScreenTypeOK
<1>5. CASE Event(l)
  <2>1. CASE feed # l.game
    <3>1. With(l, {}) /\ UNCHANGED onScreen
      BY <1>5, <2>1 DEF Event
    <3>2. FeedIsTended'
      BY <1>5, <2>1, <3>1, TaskStays DEF Event, ScreenInv
    <3>3. loops' \subseteq [game : GameIds, token : Token, at : 0..MaxVersion]
      BY <3>1 DEF With, ScreenInv, ScreenTypeOK
    <3> QED
      BY <1>5, <3>1, <3>2, <3>3, LoopsKeep DEF Event, ScreenInv, ScreenTypeOK
  <2>2. CASE feed = l.game
    <3>1. PICK at \in 0..MaxVersion : at = l.at + 1
      BY <1>1, <1>5, ScreenBounds DEF Event
    <3>2. With(l, {[l EXCEPT !.at = at]})
      BY <1>5, <2>2, <3>1 DEF Event
    <3>3. FeedIsTended'
      BY <1>2, <1>5, <3>2, TaskStays DEF Event, ScreenInv
    <3>4. loops' \subseteq [game : GameIds, token : Token, at : 0..MaxVersion]
      BY <1>2, <3>2 DEF With, ScreenInv, ScreenTypeOK
    <3>5. onScreen' \in View \cup {None}
      BY <1>5, <2>2, EventShows, ApplyKeeps DEF ScreenInv, ScreenTypeOK
    <3> QED
      BY <1>5, <3>3, <3>4, <3>5, LoopsKeep DEF Event, ScreenInv, ScreenTypeOK
  <2> QED
    BY <2>1, <2>2
<1> QED
  BY <1>3, <1>4, <1>5

-----------------------------------------------------------------------------
(* Screen: the theorems.                                                   *)

LEMMA ScreenInitConsistent == ScreenInit => ScreenInv
  BY ScreenBounds DEF ScreenInit, ScreenInv, ScreenTypeOK, RequestsAreInOrder, FeedIsTended, NotRecovering, Token, NoToken

LEMMA ScreenNextConsistent == ScreenInv /\ [ScreenNext]_screenVars => ScreenInv'
<1> SUFFICES ASSUME ScreenInv, [ScreenNext]_screenVars PROVE ScreenInv'
  OBVIOUS
<1>1. CASE User
  BY <1>1, UserKeeps
<1>2. CASE Tasks
  BY <1>2, RecoveryKeeps, SubscribeKeeps, TaskKeeps, Zenon DEF Tasks
<1>3. ASSUME NEW g \in GameIds, OthersMove(g) PROVE ScreenInv'
  BY <1>3, OthersMoveKeeps
<1>4. ASSUME NEW r \in requests, Serve(r) \/ Receive(r) PROVE ScreenInv'
  BY <1>4, ServeKeeps, ReceiveListKeeps, ReceiveGameKeeps, ReceiveActKeeps,
     ReceiveJoinKeeps, ReceiveRemoveKeeps, Zenon DEF Receive
<1>5. CASE UNCHANGED screenVars
  BY <1>5, QuietKeeps DEF screenVars, ScreenInv, ScreenTypeOK
<1> QED
  BY <1>1, <1>2, <1>3, <1>4, <1>5, Zenon DEF ScreenNext

\* The state the client and its requests can reach, in any order of answers
\* and events, satisfies the inductive invariant.
THEOREM ScreenConsistent == ScreenSpec => []ScreenInv
<1> QED
  BY ScreenInitConsistent, ScreenNextConsistent, PTL DEF ScreenSpec

\* Whenever websocket_game_id names a game, a subscription task for it is there.
THEOREM FeedsAreTended == ScreenSpec => []FeedIsTended
<1>1. ScreenInv => FeedIsTended
  BY DEF ScreenInv
<1> QED
  BY <1>1, ScreenConsistent, PTL

\* One step of the screen: it moves to another game, to a later version of the
\* same one, or is the chat indicator's.
LEMMA StepGrows ==
    ASSUME ScreenInv, [ScreenNext]_screenVars, onScreen # None, onScreen' # None, onScreen # onScreen'
    PROVE  \/ onScreen'.game # onScreen.game \/ onScreen'.version > onScreen.version
           \/ \E r \in requests \ requests' : r.kind = "unread" /\ r.game = onScreen.game
<1>1. ASSUME NEW r \in requests, ReceiveGame(r)
      PROVE  \/ onScreen'.game # onScreen.game \/ onScreen'.version > onScreen.version
             \/ \E q \in requests \ requests' : q.kind = "unread" /\ q.game = onScreen.game
  <2>1. PICK new \in View : /\ new.game = r.game
                            /\ IF r.kind = "unread" THEN onScreen' = new ELSE Apply(new)
    BY <1>1, ReceiveGameShows
  <2>2. CASE r.kind = "unread"
    <3>1. r \in requests \ requests'
      BY <1>1 DEF ReceiveGame, Done
    <3> QED
      BY <2>1, <2>2, <3>1
  <2>3. CASE r.kind # "unread"
    BY <2>1, <2>3, ApplyKeeps DEF ScreenInv, ScreenTypeOK
  <2> QED
    BY <2>2, <2>3
<1>2. ASSUME NEW r \in requests, ReceiveAct(r) \/ ReceiveJoin(r)
      PROVE  onScreen'.game # onScreen.game \/ onScreen'.version > onScreen.version
  <2>1. Result(r) \in View /\ Apply(Result(r))
    BY <1>2, ResultIsView DEF ReceiveAct, ReceiveJoin, Changes
  <2> QED
    BY <2>1, ApplyKeeps DEF ScreenInv, ScreenTypeOK
<1>3. ASSUME NEW l \in loops, Event(l)
      PROVE  onScreen'.game # onScreen.game \/ onScreen'.version > onScreen.version
  <2>1. feed = l.game
    BY <1>3 DEF Event
  <2> QED
    BY <1>3, <2>1, EventShows, ApplyKeeps DEF ScreenInv, ScreenTypeOK
<1>4. ASSUME NEW r \in requests, Serve(r) \/ Refused(r) \/ ReceiveList(r) \/ ReceiveRemove(r)
      PROVE  FALSE
  BY <1>4 DEF Serve, Refused, ReceiveList, ReceiveRemove
<1>5. ASSUME NEW g \in GameIds, OthersMove(g) PROVE FALSE
  BY <1>5 DEF OthersMove
<1>6. CASE User
  BY <1>6 DEF User, SignIn, SignOut, OpenGame, OpenUnread, Change, Join, RemoveGame, Post
<1>7. CASE LoseServer \/ FindServer \/ Subscribe \/ \E l \in loops : Dial(l) \/ Hangup(l)
  BY <1>7 DEF LoseServer, FindServer, Subscribe, Dial, Hangup
<1>8. CASE UNCHANGED screenVars
  BY <1>8 DEF screenVars
<1> QED
  BY <1>1, <1>2, <1>3, <1>4, <1>5, <1>6, <1>7, <1>8, Zenon DEF ScreenNext, Tasks, Receive

\* Whatever the order of answers and events, a game on screen goes back to an
\* older version only by the chat indicator's load (should_apply_update).
THEOREM ScreensOnlyGrow == ScreenSpec => VersionsOnlyGrow
<1>1. ScreenInv /\ [ScreenNext]_screenVars =>
         [(onScreen # None /\ onScreen' # None /\ onScreen # onScreen')
          => \/ onScreen'.game # onScreen.game \/ onScreen'.version > onScreen.version
             \/ \E r \in requests \ requests' : r.kind = "unread" /\ r.game = onScreen.game]_screenVars
  BY StepGrows
<1> QED
  BY <1>1, ScreenConsistent, PTL DEF ScreenSpec, VersionsOnlyGrow

-----------------------------------------------------------------------------
(* Composer: cells and their coordinates.                                  *)

LEMMA ComposerBounds ==
    /\ Width \in Nat \ {0} /\ Height \in Nat \ {0}
    /\ Nothing \notin Nat /\ Nothing \notin Cells /\ Nothing \notin Directions
<1>1. Width * Height - 1 \in Int /\ Nothing \notin Nat
  BY ComposerAssumption
<1>2. Cells \subseteq Nat
  BY <1>1 DEF Cells
<1> QED
  BY <1>1, <1>2, ComposerAssumption

LEMMA SomeLengths ==
    ASSUME NEW w \in Nat \ {0}, NEW k \in Int
    PROVE  /\ k >= 1 => w * k >= w
           /\ k < 0 => w * k <= 0 - w
           /\ k >= 0 => w * k >= 0
  OBVIOUS

LEMMA OneQuotient ==
    ASSUME NEW w \in Nat \ {0}, NEW q \in Int, NEW p \in Int,
           NEW r \in 0 .. w - 1, NEW x \in 0 .. w - 1, w * q + r = w * p + x
    PROVE  q = p /\ r = x
<1>1. w * (q - p) = x - r
  OBVIOUS
<1>2. PICK k \in Int : k = q - p
  OBVIOUS
<1>3. w * k = x - r
  BY <1>1, <1>2
<1>4. ~(k >= 1)
  BY <1>3, SomeLengths
<1>5. ~(k < 0)
  BY <1>3, SomeLengths
<1>6. k = 0
  BY <1>4, <1>5
<1> QED
  BY <1>2, <1>3, <1>6

LEMMA Coordinates ==
    ASSUME NEW c \in Cells
    PROVE  /\ X(c) \in 0 .. Width - 1 /\ Y(c) \in 0 .. Height - 1
           /\ c = Width * Y(c) + X(c)
<1>1. PICK q \in Int, r \in 0 .. Width - 1 : q = Y(c) /\ r = X(c)
  <2>1. c \in Nat
    BY ComposerBounds DEF Cells
  <2>2. c \div Width \in Int /\ c % Width \in 0 .. Width - 1
    BY <2>1, ComposerBounds
  <2> QED
    BY <2>2 DEF X, Y
<1>2. c = Width * q + r
  <2>1. c \in Nat
    BY ComposerBounds DEF Cells
  <2>2. c = Width * (c \div Width) + (c % Width)
    BY <2>1, ComposerBounds
  <2> QED
    BY <1>1, <2>2 DEF X, Y
<1>3. c \in Nat /\ c < Width * Height
  BY ComposerBounds DEF Cells
<1>4. q >= 0
  <2>1. SUFFICES ASSUME q < 0 PROVE FALSE
    OBVIOUS
  <2>2. Width * q <= 0 - Width
    BY <2>1, ComposerBounds, SomeLengths
  <2> QED
    BY <1>2, <1>3, <2>2, ComposerBounds
<1>5. q < Height
  <2>1. SUFFICES ASSUME q >= Height PROVE FALSE
    BY ComposerBounds
  <2>2. PICK k \in Int : k = q - Height /\ k >= 0
    BY <2>1, ComposerBounds
  <2>3. Width * k >= 0
    BY <2>2, ComposerBounds, SomeLengths
  <2>4. Width * q = Width * Height + Width * k
    BY <2>2, ComposerBounds
  <2> QED
    BY <1>2, <1>3, <2>3, <2>4, ComposerBounds
<1> QED
  BY <1>1, <1>2, <1>4, <1>5, ComposerBounds

LEMMA CellAt ==
    ASSUME NEW x \in 0 .. Width - 1, NEW y \in 0 .. Height - 1
    PROVE  /\ Width * y + x \in Cells
           /\ X(Width * y + x) = x /\ Y(Width * y + x) = y
<1>1. PICK c \in Int : c = Width * y + x
  BY ComposerBounds
<1>2. c \in Cells
  <2>1. Width * y >= 0
    BY ComposerBounds, SomeLengths
  <2>2. PICK k \in Int : k = Height - 1 - y /\ k >= 0
    BY ComposerBounds
  <2>3. Width * k >= 0
    BY <2>2, ComposerBounds, SomeLengths
  <2>4. Width * Height = Width * y + Width * k + Width
    BY <2>2, ComposerBounds
  <2> QED
    BY <1>1, <2>1, <2>3, <2>4, ComposerBounds DEF Cells
<1>3. X(c) \in 0 .. Width - 1 /\ Y(c) \in Int /\ Width * Y(c) + X(c) = Width * y + x
  BY <1>1, <1>2, Coordinates, ComposerBounds
<1>4. PICK p \in Int, r \in 0 .. Width - 1 : p = Y(c) /\ r = X(c)
  BY <1>3
<1>5. p = y /\ r = x
  BY <1>3, <1>4, OneQuotient, ComposerBounds
<1> QED
  BY <1>1, <1>2, <1>4, <1>5

\* A step inside the board moves one coordinate.
LEMMA StepIs ==
    ASSUME NEW c \in Cells, NEW d \in Directions, NEW n \in Int, Inside(c, d, n)
    PROVE  /\ Step(c, d, n) \in Cells
           /\ X(Step(c, d, n)) = IF d = "h" THEN X(c) + n ELSE X(c)
           /\ Y(Step(c, d, n)) = IF d = "h" THEN Y(c) ELSE Y(c) + n
<1>1. PICK x \in 0 .. Width - 1, y \in 0 .. Height - 1 :
         x = X(c) /\ y = Y(c) /\ c = Width * y + x
  BY Coordinates
<1>2. CASE d = "h"
  <2>1. x + n \in 0 .. Width - 1
    BY <1>1, <1>2 DEF Inside
  <2>2. Step(c, d, n) = Width * y + (x + n)
    BY <1>1, <1>2, ComposerBounds DEF Step
  <2>3. PICK u \in 0 .. Width - 1 : u = x + n
    BY <2>1
  <2> QED
    BY <1>1, <1>2, <2>2, <2>3, CellAt
<1>3. CASE d = "v"
  <2>1. y + n \in 0 .. Height - 1
    BY <1>1, <1>3 DEF Inside
  <2>2. Step(c, d, n) = Width * (y + n) + x
    BY <1>1, <1>3, ComposerBounds DEF Step
  <2>3. PICK u \in 0 .. Height - 1 : u = y + n
    BY <2>1
  <2> QED
    BY <1>1, <1>3, <2>2, <2>3, CellAt
<1> QED
  BY <1>2, <1>3 DEF Directions

LEMMA CellIsKnown ==
    ASSUME NEW c \in Cells, NEW e \in Cells, X(c) = X(e), Y(c) = Y(e)
    PROVE  c = e
  BY Coordinates

\* One step after another is one step.
LEMMA StepsAdd ==
    ASSUME NEW c \in Cells, NEW d \in Directions, NEW n \in Int, NEW m \in Int,
           Inside(c, d, n)
    PROVE  /\ Inside(Step(c, d, n), d, m) <=> Inside(c, d, n + m)
           /\ Inside(c, d, n + m) => Step(Step(c, d, n), d, m) = Step(c, d, n + m)
<1>1. PICK x \in Int, y \in Int, e \in Cells :
         x = X(c) /\ y = Y(c) /\ e = Step(c, d, n)
  BY StepIs, Coordinates
<1>2. /\ X(e) = (IF d = "h" THEN x + n ELSE x)
      /\ Y(e) = (IF d = "h" THEN y ELSE y + n)
  BY <1>1, StepIs
<1>3. Inside(e, d, m) <=> Inside(c, d, n + m)
  BY <1>1, <1>2, ComposerBounds DEF Inside, Directions
<1>4. ASSUME Inside(c, d, n + m) PROVE Step(e, d, m) = Step(c, d, n + m)
  <2>1. PICK k \in Int : k = n + m
    OBVIOUS
  <2>2. /\ Step(c, d, k) \in Cells
        /\ X(Step(c, d, k)) = IF d = "h" THEN X(c) + k ELSE X(c)
        /\ Y(Step(c, d, k)) = IF d = "h" THEN Y(c) ELSE Y(c) + k
    BY <1>4, <2>1, StepIs
  <2>3. /\ Step(e, d, m) \in Cells
        /\ X(Step(e, d, m)) = IF d = "h" THEN X(e) + m ELSE X(e)
        /\ Y(Step(e, d, m)) = IF d = "h" THEN Y(e) ELSE Y(e) + m
    BY <1>3, <1>4, StepIs
  <2>4. X(Step(e, d, m)) = X(Step(c, d, k)) /\ Y(Step(e, d, m)) = Y(Step(c, d, k))
    BY <1>1, <1>2, <2>1, <2>2, <2>3
  <2> QED
    BY <2>1, <2>2, <2>3, <2>4, CellIsKnown
<1> QED
  BY <1>1, <1>3, <1>4

-----------------------------------------------------------------------------
(* Composer: what Backspace takes back.                                    *)

\* The nearest cell of some: it is there, it is one of them, and none is before
\* it; and if there is none, no step leads to one.
LEMMA NearestIs ==
    ASSUME NEW c \in Cells, NEW d \in Directions, NEW n \in {-1, 1}, NEW ok
    PROVE  \/ /\ Nearest(c, d, n, ok) = Nothing
              /\ \A k \in 1..(Width + Height) : Inside(c, d, k * n) => Step(c, d, k * n) \notin ok
           \/ \E k \in 1..(Width + Height) :
                 /\ Inside(c, d, k * n) /\ Nearest(c, d, n, ok) = Step(c, d, k * n)
                 /\ Step(c, d, k * n) \in ok
                 /\ \A l \in 1..(k - 1) : Inside(c, d, l * n) => Step(c, d, l * n) \notin ok
<1>1. PICK far : far = {k \in 1..(Width + Height) :
                          Inside(c, d, k * n) /\ Step(c, d, k * n) \in ok}
  OBVIOUS
<1>2. Nearest(c, d, n, ok) =
         IF far = {} THEN Nothing
         ELSE Step(c, d, n * (CHOOSE k \in far : \A l \in far : k <= l))
  BY <1>1 DEF Nearest
<1>3. CASE far = {}
  BY <1>1, <1>2, <1>3
<1>4. CASE far # {}
  <2>1. far \subseteq Nat
    BY <1>1, ComposerBounds
  <2>2. PICK k \in far : k = CHOOSE m \in far : \A l \in far : m <= l
    BY <1>4, <2>1, LeastExists
  <2>3. \A l \in far : k <= l
    BY <1>4, <2>1, <2>2, LeastExists
  <2>4. Nearest(c, d, n, ok) = Step(c, d, n * k)
    BY <1>2, <1>4, <2>2
  <2>5. k \in 1..(Width + Height) /\ Inside(c, d, k * n) /\ Step(c, d, k * n) \in ok
    BY <1>1
  <2>6. n * k = k * n
    BY <2>5, ComposerBounds
  <2>7. ASSUME NEW l \in 1..(k - 1), Inside(c, d, l * n) PROVE Step(c, d, l * n) \notin ok
    <3>1. l \in 1..(Width + Height) /\ ~(k <= l)
      BY <2>5, ComposerBounds
    <3> QED
      BY <1>1, <2>3, <2>7, <3>1
  <2> QED
    BY <2>4, <2>5, <2>6, <2>7
<1> QED
  BY <1>3, <1>4

\* The way there and back: what a cursor meets first on its way back from the
\* next free cell lies between the two, and is staged.
LEMMA BackIsBetween ==
    ASSUME NEW c \in Cells, c \notin position.board, NEW d \in Directions,
           NEW st, \E s \in st : s.cell = c,
           NEW next \in Cells, next = NextPlaceable(st, c, d)
    PROVE  \E s \in st : s.cell = PreviousEditable(st, next, d)
<1>1. PICK k \in 1..(Width + Height) :
         /\ Inside(c, d, k * 1) /\ next = Step(c, d, k * 1)
         /\ Step(c, d, k * 1) \in Free(st)
         /\ \A l \in 1..(k - 1) : Inside(c, d, l * 1) => Step(c, d, l * 1) \notin Free(st)
  <2>1. Nearest(c, d, 1, Free(st)) # Nothing
    BY ComposerBounds DEF NextPlaceable
  <2> QED
    BY <2>1, NearestIs DEF NextPlaceable
<1>2. k \in Int /\ k >= 1 /\ k * 1 = k /\ \A l \in 1..(k - 1) : l \in Int /\ l * 1 = l
  BY ComposerBounds
<1>3. Inside(c, d, k) /\ next = Step(c, d, k)
  BY <1>1, <1>2
<1>4. PICK b : b = PreviousEditable(st, next, d)
  OBVIOUS
<1>5. PICK ok : ok = Cells \ position.board
  OBVIOUS
<1>6. ASSUME NEW m \in Int, Inside(next, d, -m)
      PROVE  Inside(c, d, k - m) /\ Step(next, d, -m) = Step(c, d, k - m)
  BY <1>2, <1>3, <1>6, StepsAdd
<1>7. Inside(next, d, -k) /\ Step(next, d, -k) = c
  <2>1. Inside(c, d, 0)
    BY Coordinates DEF Inside
  <2>2. Step(c, d, 0) = c
    <3>1. /\ X(Step(c, d, 0)) = IF d = "h" THEN X(c) + 0 ELSE X(c)
          /\ Y(Step(c, d, 0)) = IF d = "h" THEN Y(c) ELSE Y(c) + 0
          /\ Step(c, d, 0) \in Cells
      BY <2>1, StepIs
    <3> QED
      BY <3>1, Coordinates, CellIsKnown
  <2>3. k + (-k) = 0 /\ -k \in Int
    BY <1>2
  <2> QED
    BY <1>2, <1>3, <2>1, <2>2, <2>3, StepsAdd
<1>8. PICK l \in 1..(Width + Height) :
         /\ Inside(next, d, l * (-1)) /\ b = Step(next, d, l * (-1))
         /\ Step(next, d, l * (-1)) \in ok
         /\ \A m \in 1..(l - 1) : Inside(next, d, m * (-1)) => Step(next, d, m * (-1)) \notin ok
  <2>1. k * (-1) = -k /\ c \in ok
    BY <1>2, <1>5
  <2>2. Inside(next, d, k * (-1)) /\ Step(next, d, k * (-1)) \in ok
    BY <1>7, <2>1
  <2>3. b = Nearest(next, d, -1, ok)
    BY <1>4, <1>5 DEF PreviousEditable
  <2> QED
    BY <2>2, <2>3, NearestIs
<1>9. l \in Int /\ l * (-1) = -l /\ l >= 1
  BY ComposerBounds
<1>10. l <= k
  <2>1. SUFFICES ASSUME l > k PROVE FALSE
    BY <1>2, <1>9
  <2>2. k \in 1..(l - 1) /\ k * (-1) = -k
    BY <1>2, <1>9, <2>1
  <2> QED
    BY <1>5, <1>7, <1>8, <2>2
<1>11. Inside(c, d, k - l) /\ b = Step(c, d, k - l)
  BY <1>6, <1>8, <1>9
<1>12. CASE l = k
  <2>1. b = c
    BY <1>7, <1>8, <1>9, <1>12
  <2> QED
    BY <1>4, <2>1
<1>13. CASE l # k
  <2>1. PICK m \in 1..(k - 1) : m = k - l
    BY <1>2, <1>9, <1>10, <1>13
  <2>2. b \notin Free(st)
    BY <1>1, <1>2, <1>11, <2>1
  <2>3. b \in Cells /\ b \notin position.board
    BY <1>5, <1>8
  <2> QED
    BY <1>4, <2>2, <2>3 DEF Free
<1> QED
  BY <1>12, <1>13

\* A cell of the same row or column is in line with c, and no other.
LEMMA AlignedIs ==
    ASSUME NEW c \in Cells, NEW d \in Directions, NEW n \in Int, n # 0, Inside(c, d, n)
    PROVE  Step(c, d, n) # c /\ Aligned(c, Step(c, d, n)) = d
<1>1. PICK e \in Cells : e = Step(c, d, n)
  BY StepIs
<1>2. /\ X(e) = (IF d = "h" THEN X(c) + n ELSE X(c))
      /\ Y(e) = (IF d = "h" THEN Y(c) ELSE Y(c) + n)
  BY <1>1, StepIs
<1>3. X(c) \in Int /\ Y(c) \in Int
  BY Coordinates
<1>4. e # Nothing /\ c # e
  BY <1>1, <1>2, <1>3, ComposerBounds
<1>5. CASE d = "h"
  BY <1>1, <1>2, <1>3, <1>4, <1>5 DEF Aligned
<1>6. CASE d = "v"
  BY <1>1, <1>2, <1>3, <1>4, <1>6 DEF Aligned
<1> QED
  BY <1>5, <1>6 DEF Directions

LEMMA ReadingIs ==
    ASSUME override \in Directions \cup {Nothing}, NEW st, NEW sel
    PROVE  Reading(st, sel) \in Directions
<1>1. \A c, hint : hint \in Directions => Beside(c, hint) \in Directions
  BY DEF Beside, Directions
<1>2. "h" \in Directions /\ "v" \in Directions
  BY DEF Directions
<1>3. \A c : Aligned(c, sel) # Nothing => Aligned(c, sel) \in Directions
  BY <1>2 DEF Aligned
<1>4. (IF override = Nothing THEN "h" ELSE override) \in Directions
  BY <1>2
<1> QED
  BY <1>1, <1>2, <1>3, <1>4 DEF Reading

\* With a tile at c and the cursor moved on along the word, it reads as before.
LEMMA ReadingStays ==
    ASSUME override \in Directions \cup {Nothing}, NEW c \in Cells,
           NEW st, IsFiniteSet(st), \E s \in st : s.cell = c,
           NEW n \in Int, n # 0, Inside(c, Reading(st, c), n)
    PROVE  Reading(st, Step(c, Reading(st, c), n)) = Reading(st, c)
<1>1. PICK d \in Directions : d = Reading(st, c)
  BY ReadingIs
<1>2. PICK e : e = Step(c, d, n)
  OBVIOUS
<1>3. Aligned(c, e) = d
  BY <1>1, <1>2, AlignedIs
<1>4. CASE Cardinality(st) > 1
  BY <1>4 DEF Reading
<1>5. CASE ~(Cardinality(st) > 1)
  <2>1. Cardinality(st) \in Nat /\ st # {}
    BY FS_CardinalityType
  <2>2. Cardinality(st) = 1
    BY <1>5, <2>1, FS_EmptySet
  <2>3. PICK s \in st : st = {s}
    BY <2>2, FS_Singleton
  <2>4. s.cell = c
    BY <2>3
  <2>5. (CHOOSE x \in {p.cell : p \in st} : TRUE) = c
    BY <2>3, <2>4
  <2>6. Reading(st, e) = d
    BY <1>3, <1>5, <2>1, <2>5, ComposerBounds DEF Reading
  <2> QED
    BY <1>1, <1>2, <2>6
<1> QED
  BY <1>4, <1>5

LEMMA TypingIsSafe == ComposerTypeOK => TypingIsUndone
<1> SUFFICES ASSUME ComposerTypeOK, Typing, selected \in Free(staged),
                    NEW id \in TurnIds, ~Used(id)
             PROVE  LET st == staged \cup {Placement(selected, id, Nothing)}
                    IN \E s \in st : s.cell = BackspaceTarget(st, Advanced(st, selected))
  BY DEF TypingIsUndone
<1>1. PICK c \in Cells : c = selected /\ c \notin position.board
  BY DEF Free
<1>2. PICK st : st = staged \cup {Placement(selected, id, Nothing)}
  OBVIOUS
<1>3. \E s \in st : s.cell = c
  <2>1. Placement(selected, id, Nothing).cell = c
    BY <1>1 DEF Placement
  <2> QED
    BY <1>2, <2>1
<1>4. IsFiniteSet(st)
  BY <1>2, FS_AddElement DEF ComposerTypeOK
<1>5. override \in Directions \cup {Nothing}
  BY DEF ComposerTypeOK
<1>6. PICK d \in Directions : d = Reading(st, c)
  BY <1>5, ReadingIs
<1>7. PICK next : next = NextPlaceable(st, c, d)
  OBVIOUS
<1>8. \E s \in st : s.cell = BackspaceTarget(st, Advanced(st, c))
  <2>1. CASE next = Nothing
    <3>1. Advanced(st, c) = c
      BY <1>6, <1>7, <2>1 DEF Advanced
    <3> QED
      BY <1>3, <3>1 DEF BackspaceTarget
  <2>2. CASE next # Nothing
    <3>1. PICK k \in 1..(Width + Height) :
             /\ Inside(c, d, k * 1) /\ next = Step(c, d, k * 1)
             /\ Step(c, d, k * 1) \in Free(st)
      BY <1>7, <2>2, NearestIs DEF NextPlaceable
    <3>2. PICK n \in Int : n = k * 1 /\ n # 0
      BY ComposerBounds
    <3>3. next \in Cells /\ ~\E s \in st : s.cell = next
      BY <3>1 DEF Free
    <3>4. Reading(st, next) = d
      BY <1>3, <1>4, <1>5, <1>6, <3>1, <3>2, ReadingStays
    <3>5. Advanced(st, c) = next
      BY <1>6, <1>7, <2>2 DEF Advanced
    <3>6. BackspaceTarget(st, next) = PreviousEditable(st, next, d)
      BY <3>3, <3>4 DEF BackspaceTarget
    <3> QED
      BY <1>1, <1>3, <1>7, <3>3, <3>5, <3>6, BackIsBetween
  <2> QED
    BY <2>1, <2>2
<1> QED
  BY <1>1, <1>2, <1>8

-----------------------------------------------------------------------------
(* Composer: what is requested.                                            *)

LEMMA RequestIsSound == ComposerTypeOK => RequestIsStaged
<1> SUFFICES ASSUME ComposerTypeOK, staged # {}, InLine(staged)
             PROVE  Decoded(Candidate(staged, Reading(staged, selected))) = staged
  BY DEF RequestIsStaged
<1>1. PICK hint : hint = Reading(staged, selected)
  OBVIOUS
<1>2. PICK cells : cells = {s.cell : s \in staged}
  OBVIOUS
<1>3. cells \subseteq Cells /\ cells # {} /\ cells \subseteq Nat
  BY <1>2, ComposerBounds DEF ComposerTypeOK, Tiles, Cells
<1>4. PICK start \in cells : start = CHOOSE c \in cells : \A e \in cells : c <= e
  BY <1>3, LeastExists
<1>5. PICK d : d = IF Cardinality(staged) = 1 THEN Beside(CHOOSE c \in cells : TRUE, hint)
                   ELSE IF SameRow(cells) THEN "h" ELSE "v"
  OBVIOUS
<1> DEFINE Along(c) == IF d = "h" THEN X(c) - X(start) ELSE Y(c) - Y(start)
           m == [start |-> start, direction |-> d,
                 tiles |-> {[offset |-> Along(s.cell), tile |-> s] : s \in staged}]
<1>6. Candidate(staged, hint) = m
  BY <1>2, <1>4, <1>5 DEF Candidate
<1>7. ASSUME NEW c \in cells PROVE Step(start, d, Along(c)) = c
  <2>1. c \in Cells /\ start \in Cells
    BY <1>3
  <2>2. PICK x \in Int, y \in Int, u \in Int, v \in Int :
           /\ x = X(c) /\ y = Y(c) /\ u = X(start) /\ v = Y(start)
           /\ c = Width * y + x /\ start = Width * v + u
    BY <2>1, Coordinates
  <2>3. CASE Cardinality(staged) = 1
    <3>1. PICK s : staged = {s}
      BY <2>3, FS_Singleton DEF ComposerTypeOK
    <3>2. cells = {start}
      BY <1>2, <3>1
    <3>3. c = start
      BY <3>2
    <3>4. Along(c) = 0
      BY <2>2, <3>3
    <3> QED
      BY <2>2, <3>3, <3>4, ComposerBounds DEF Step
  <2>4. CASE Cardinality(staged) # 1 /\ SameRow(cells)
    <3>1. d = "h" /\ y = v
      BY <1>5, <2>2, <2>4 DEF SameRow
    <3>2. Along(c) = x - u
      BY <2>2, <3>1
    <3> QED
      BY <2>2, <3>1, <3>2, ComposerBounds DEF Step
  <2>5. CASE Cardinality(staged) # 1 /\ ~SameRow(cells)
    <3>1. SameColumn(cells)
      BY <1>2, <2>5 DEF InLine
    <3>2. d = "v" /\ x = u
      BY <1>5, <2>2, <2>5, <3>1 DEF SameColumn
    <3>3. Along(c) = y - v
      BY <2>2, <3>2
    <3>4. Step(start, d, Along(c)) = Width * v + u + (y - v) * Width
      BY <2>2, <3>2, <3>3 DEF Step
    <3> QED
      BY <2>2, <3>2, <3>4, ComposerBounds
  <2> QED
    BY <2>3, <2>4, <2>5
<1>8. ASSUME NEW s \in staged
      PROVE  [s EXCEPT !.cell = Step(start, d, Along(s.cell))] = s
  <2>1. s \in Tiles
    BY DEF ComposerTypeOK
  <2>2. Step(start, d, Along(s.cell)) = s.cell
    BY <1>2, <1>7
  <2>3. [s EXCEPT !.cell = s.cell] = s
    BY <2>1 DEF Tiles
  <2> QED
    BY <2>2, <2>3
<1>9. \A x : x \in Decoded(m) <=>
               \E s \in staged : x = [s EXCEPT !.cell = Step(start, d, Along(s.cell))]
  <2>1. m.start = start /\ m.direction = d
    OBVIOUS
  <2>2. PICK tiles : tiles = {[offset |-> Along(s.cell), tile |-> s] : s \in staged}
    OBVIOUS
  <2>3. \A t : t \in tiles <=> \E s \in staged : t = [offset |-> Along(s.cell), tile |-> s]
    BY <2>2
  <2>4. m.tiles = tiles
    BY <2>2
  <2>5. \A x : x \in Decoded(m) <=>
                 \E t \in tiles : x = [t.tile EXCEPT !.cell = Step(start, d, t.offset)]
    <3> HIDE DEF m, Along
    <3> QED
      BY <2>1, <2>4 DEF Decoded
  <2> HIDE DEF m, Along
  <2>6. \A s \in staged : [offset |-> Along(s.cell), tile |-> s] \in tiles
    BY <2>3
  <2>7. \A o, s : [offset |-> o, tile |-> s].offset = o /\ [offset |-> o, tile |-> s].tile = s
    OBVIOUS
  <2>8. ASSUME NEW x, x \in Decoded(m)
        PROVE  \E s \in staged : x = [s EXCEPT !.cell = Step(start, d, Along(s.cell))]
    BY <2>3, <2>5, <2>7, <2>8
  <2>9. ASSUME NEW s \in staged
        PROVE  [s EXCEPT !.cell = Step(start, d, Along(s.cell))] \in Decoded(m)
    BY <2>5, <2>6, <2>7, <2>9
  <2> QED
    BY <2>8, <2>9
<1>10. Decoded(m) = staged
  <2> HIDE DEF m, Along
  <2> QED
    BY <1>8, <1>9
<1> QED
  BY <1>1, <1>6, <1>10

-----------------------------------------------------------------------------
(* Composer: the order of the rack.                                        *)

LEMMA ToSetIs ==
    ASSUME NEW s
    PROVE  \A x : x \in ToSet(s) <=> \E i \in DOMAIN s : x = s[i]
  BY DEF ToSet

LEMMA SubSeqIs ==
    ASSUME NEW S, NEW s \in Seq(S), NEW a \in 1 .. Len(s) + 1, NEW b \in 0 .. Len(s), a <= b + 1
    PROVE  /\ SubSeq(s, a, b) \in Seq(S) /\ Len(SubSeq(s, a, b)) = b - a + 1
           /\ \A x : x \in ToSet(SubSeq(s, a, b)) <=> \E k \in a .. b : x = s[k]
<1>1. PICK n \in Nat : n = b - a + 1
  OBVIOUS
<1>2. PICK t : t = SubSeq(s, a, b)
  OBVIOUS
<1>3. /\ t \in Seq(S) /\ Len(t) = n /\ DOMAIN t = 1 .. n
      /\ \A k \in 1 .. n : t[k] = s[a + k - 1]
  BY <1>1, <1>2, SubSeqProperties
<1>4. ASSUME NEW k \in a .. b PROVE k - a + 1 \in 1 .. n /\ t[k - a + 1] = s[k]
  <2>1. PICK j \in 1 .. n : j = k - a + 1 /\ a + j - 1 = k
    BY <1>1
  <2> QED
    BY <1>3, <2>1
<1>5. \A j \in 1 .. n : a + j - 1 \in a .. b
  BY <1>1
<1>6. \A x : x \in ToSet(t) <=> \E k \in a .. b : x = s[k]
  <2>1. \A x : x \in ToSet(t) <=> \E j \in 1 .. n : x = t[j]
    BY <1>3, ToSetIs
  <2>2. ASSUME NEW j \in 1 .. n PROVE \E k \in a .. b : t[j] = s[k]
    BY <1>3, <1>5
  <2>3. ASSUME NEW k \in a .. b PROVE s[k] \in ToSet(t)
    BY <1>4, <2>1
  <2>4. ASSUME NEW x, x \in ToSet(t) PROVE \E k \in a .. b : x = s[k]
    <3>1. PICK j \in 1 .. n : x = t[j]
      BY <2>1, <2>4
    <3> QED
      BY <2>2, <3>1
  <2> QED
    BY <2>3, <2>4
<1> QED
  BY <1>1, <1>2, <1>3, <1>6

LEMMA PrefixIs ==
    ASSUME NEW S, NEW s \in Seq(S), NEW b \in 0 .. Len(s)
    PROVE  /\ SubSeq(s, 1, b) \in Seq(S) /\ Len(SubSeq(s, 1, b)) = b
           /\ \A x : x \in ToSet(SubSeq(s, 1, b)) <=> \E k \in 1 .. b : x = s[k]
<1>1. PICK a \in 1 .. Len(s) + 1 : a = 1
  OBVIOUS
<1>2. a <= b + 1 /\ b - a + 1 = b
  BY <1>1
<1>3. PICK t : t = SubSeq(s, a, b)
  OBVIOUS
<1>4. /\ t \in Seq(S) /\ Len(t) = b - a + 1
      /\ \A x : x \in ToSet(t) <=> \E k \in a .. b : x = s[k]
  BY <1>2, <1>3, SubSeqIs
<1> QED
  BY <1>1, <1>2, <1>3, <1>4

LEMMA JoinIs ==
    ASSUME NEW S, NEW s \in Seq(S), NEW t \in Seq(S)
    PROVE  /\ s \o t \in Seq(S) /\ Len(s \o t) = Len(s) + Len(t)
           /\ \A x : x \in ToSet(s \o t) <=> x \in ToSet(s) \/ x \in ToSet(t)
<1>1. PICK n \in Nat, m \in Nat :
         n = Len(s) /\ m = Len(t) /\ DOMAIN s = 1 .. n /\ DOMAIN t = 1 .. m
  OBVIOUS
<1>u. PICK u : u = s \o t
  OBVIOUS
<1>2. /\ u \in Seq(S) /\ Len(u) = n + m /\ DOMAIN u = 1 .. n + m
      /\ \A i \in 1 .. n : u[i] = s[i]
      /\ \A k \in 1 .. m : u[n + k] = t[k]
  BY <1>1, <1>u
<1>3. ASSUME NEW i \in 1 .. n + m, i \notin 1 .. n PROVE i - n \in 1 .. m /\ u[i] = t[i - n]
  <2>1. PICK k \in 1 .. m : k = i - n /\ n + k = i
    BY <1>3
  <2> QED
    BY <1>2, <2>1
<1>4. \A i \in 1 .. n : i \in 1 .. n + m
  OBVIOUS
<1>5. \A k \in 1 .. m : n + k \in 1 .. n + m
  OBVIOUS
<1>6. \A x : x \in ToSet(u) <=> x \in ToSet(s) \/ x \in ToSet(t)
  <2>1. \A x : x \in ToSet(u) <=> \E i \in 1 .. n + m : x = u[i]
    BY <1>2, ToSetIs
  <2>2. \A x : x \in ToSet(s) <=> \E i \in 1 .. n : x = s[i]
    BY <1>1, ToSetIs
  <2>3. \A x : x \in ToSet(t) <=> \E k \in 1 .. m : x = t[k]
    BY <1>1, ToSetIs
  <2>4. ASSUME NEW i \in 1 .. n + m PROVE u[i] \in ToSet(s) \/ u[i] \in ToSet(t)
    BY <1>2, <1>3, <2>2, <2>3
  <2>5. ASSUME NEW i \in 1 .. n PROVE s[i] \in ToSet(u)
    BY <1>2, <1>4, <2>1
  <2>6. ASSUME NEW k \in 1 .. m PROVE t[k] \in ToSet(u)
    BY <1>2, <1>5, <2>1
  <2> QED
    BY <2>1, <2>2, <2>3, <2>4, <2>5, <2>6
<1> QED
  BY <1>1, <1>u, <1>2, <1>6

\* A tile taken out and put back elsewhere leaves the same tiles.
LEMMA MovedAlong ==
    ASSUME NEW S, NEW s \in Seq(S), NEW i \in 1 .. Len(s), NEW to \in 1 .. Len(s)
    PROVE  LET t == InsertAt(RemoveAt(s, i), to, s[i])
           IN  t \in Seq(S) /\ Len(t) = Len(s) /\ ToSet(t) = ToSet(s)
<1>1. PICK n \in Nat : n = Len(s) /\ DOMAIN s = 1 .. n
  OBVIOUS
<1>2. PICK before \in 0 .. n, after \in 1 .. n + 1 : before = i - 1 /\ after = i + 1
  BY <1>1
<1>f. PICK front : front = SubSeq(s, 1, before)
  OBVIOUS
<1>b. PICK back : back = SubSeq(s, after, n)
  OBVIOUS
<1>3. /\ front \in Seq(S) /\ Len(front) = i - 1
      /\ \A x : x \in ToSet(front) <=> \E k \in 1 .. before : x = s[k]
  <2>1. before \in 0 .. Len(s) /\ before = i - 1
    BY <1>1, <1>2
  <2> QED
    BY <1>f, <2>1, PrefixIs
<1>4. /\ back \in Seq(S) /\ Len(back) = n - i
      /\ \A x : x \in ToSet(back) <=> \E k \in after .. n : x = s[k]
  <2>1. after \in 1 .. Len(s) + 1 /\ n \in 0 .. Len(s) /\ after <= n + 1
    BY <1>1
  <2>2. n - after + 1 = n - i
    BY <1>1, <1>2
  <2> QED
    BY <1>b, <2>1, <2>2, SubSeqIs
<1>5. PICK r : r = front \o back
  OBVIOUS
<1>6. /\ r \in Seq(S) /\ Len(r) = n - 1 /\ r = RemoveAt(s, i)
      /\ \A x : x \in ToSet(r) <=> x \in ToSet(front) \/ x \in ToSet(back)
  <2>1. i - 1 + (n - i) = n - 1
    BY <1>1
  <2>2. r = RemoveAt(s, i)
    BY <1>1, <1>2, <1>f, <1>b, <1>5 DEF RemoveAt
  <2>3. /\ r \in Seq(S) /\ Len(r) = Len(front) + Len(back)
        /\ \A x : x \in ToSet(r) <=> x \in ToSet(front) \/ x \in ToSet(back)
    BY <1>3, <1>4, <1>5, JoinIs
  <2> QED
    BY <1>3, <1>4, <2>1, <2>2, <2>3
<1>7. /\ \E m : m \in 0 .. n - 1 /\ m = n - 1
      /\ \E upto : upto \in 0 .. n - 1 /\ upto = to - 1
  BY <1>1
<1>m. PICK m : m \in 0 .. n - 1 /\ m = n - 1
  BY <1>7
<1>p. PICK upto : upto \in 0 .. n - 1 /\ upto = to - 1
  BY <1>7
<1>l. PICK left : left = SubSeq(r, 1, upto)
  OBVIOUS
<1>r. PICK right : right = SubSeq(r, to, m)
  OBVIOUS
<1>8. /\ left \in Seq(S) /\ Len(left) = to - 1
      /\ \A x : x \in ToSet(left) <=> \E k \in 1 .. upto : x = r[k]
  <2>1. upto \in 0 .. Len(r) /\ r \in Seq(S)
    BY <1>1, <1>6, <1>m, <1>p
  <2>2. /\ left \in Seq(S) /\ Len(left) = upto
        /\ \A x : x \in ToSet(left) <=> \E k \in 1 .. upto : x = r[k]
    BY <1>l, <2>1, PrefixIs
  <2> QED
    BY <1>p, <2>2
<1>9. /\ right \in Seq(S) /\ Len(right) = n - to
      /\ \A x : x \in ToSet(right) <=> \E k \in to .. m : x = r[k]
  <2>1. to \in 1 .. Len(r) + 1 /\ m \in 0 .. Len(r) /\ to <= m + 1
    BY <1>1, <1>6, <1>m, <1>p
  <2>2. m - to + 1 = n - to
    BY <1>1, <1>m
  <2>3. r \in Seq(S)
    BY <1>6
  <2>4. /\ right \in Seq(S) /\ Len(right) = m - to + 1
        /\ \A x : x \in ToSet(right) <=> \E k \in to .. m : x = r[k]
    BY <1>r, <2>1, <2>3, SubSeqIs
  <2> QED
    BY <2>2, <2>4
<1>10. PICK one \in Seq(S) :
          one = <<s[i]>> /\ Len(one) = 1 /\ \A x : x \in ToSet(one) <=> x = s[i]
  <2>1. s[i] \in S
    OBVIOUS
  <2>2. PICK one : one = <<s[i]>>
    OBVIOUS
  <2>3. one \in Seq(S) /\ Len(one) = 1 /\ DOMAIN one = 1 .. 1 /\ one[1] = s[i]
    BY <2>1, <2>2
  <2>4. \A x : x \in ToSet(one) <=> x = s[i]
    BY <2>3, ToSetIs
  <2> QED
    BY <2>2, <2>3, <2>4
<1>11. PICK t : t = left \o one \o right
  OBVIOUS
<1>12. t = InsertAt(r, to, s[i])
  BY <1>6, <1>m, <1>p, <1>l, <1>r, <1>10, <1>11 DEF InsertAt
<1>13. /\ t \in Seq(S) /\ Len(t) = n
       /\ \A x : x \in ToSet(t) <=> x \in ToSet(left) \/ x = s[i] \/ x \in ToSet(right)
  <2>1. PICK u : u = left \o one
    OBVIOUS
  <2>2. /\ u \in Seq(S) /\ Len(u) = Len(left) + Len(one)
        /\ \A x : x \in ToSet(u) <=> x \in ToSet(left) \/ x \in ToSet(one)
    BY <1>8, <1>10, <2>1, JoinIs
  <2>3. t = u \o right
    BY <1>11, <2>1
  <2>4. /\ t \in Seq(S) /\ Len(t) = Len(u) + Len(right)
        /\ \A x : x \in ToSet(t) <=> x \in ToSet(u) \/ x \in ToSet(right)
    BY <1>9, <2>2, <2>3, JoinIs
  <2>5. Len(t) = n
    BY <1>1, <1>8, <1>9, <1>10, <2>2, <2>4
  <2> QED
    BY <1>10, <2>2, <2>4, <2>5
<1>14. \A x : x \in ToSet(left) \/ x \in ToSet(right) <=> x \in ToSet(r)
  <2>1. \A x : x \in ToSet(r) <=> \E k \in 1 .. m : x = r[k]
    <3>1. DOMAIN r = 1 .. m
      BY <1>6, <1>m
    <3> QED
      BY <3>1, ToSetIs
  <2>2. \A k : k \in 1 .. m <=> k \in 1 .. upto \/ k \in to .. m
    BY <1>1, <1>m, <1>p
  <2> QED
    BY <1>8, <1>9, <2>1, <2>2
<1>15. \A x : x \in ToSet(r) \/ x = s[i] <=> x \in ToSet(s)
  <2>1. \A k : k \in 1 .. n <=> k \in 1 .. before \/ k = i \/ k \in after .. n
    BY <1>1, <1>2
  <2>2. \A x : x \in ToSet(s) <=> \E k \in 1 .. n : x = s[k]
    BY <1>1, ToSetIs
  <2> QED
    BY <1>3, <1>4, <1>6, <2>1, <2>2
<1>16. ToSet(t) = ToSet(s)
  BY <1>13, <1>14, <1>15
<1> QED
  BY <1>1, <1>6, <1>12, <1>13, <1>16

LEMMA ReorderedIsWhole ==
    ASSUME order \in Seq(Nat), NEW dragged, NEW over
    PROVE  /\ Reordered(dragged, over) \in Seq(Nat)
           /\ Len(Reordered(dragged, over)) = Len(order)
           /\ ToSet(Reordered(dragged, over)) = ToSet(order)
<1>1. CASE dragged = over \/ ~{dragged, over} \subseteq ToSet(order)
  BY <1>1 DEF Reordered
<1>2. CASE ~(dragged = over \/ ~{dragged, over} \subseteq ToSet(order))
  <2> DEFINE At(id) == CHOOSE i \in DOMAIN order : order[i] = id
  <2>1. PICK n \in Nat : n = Len(order) /\ DOMAIN order = 1 .. n
    OBVIOUS
  <2>2. \A id : id \in ToSet(order) => At(id) \in 1 .. n /\ order[At(id)] = id
    BY <2>1 DEF ToSet
  <2> HIDE DEF At
  <2>3. PICK i \in 1 .. n, j \in 1 .. n :
           /\ i = At(dragged) /\ j = At(over)
           /\ order[i] = dragged /\ order[j] = over
    BY <1>2, <2>2
  <2>4. i # j
    BY <1>2, <2>3
  <2>5. PICK to \in 1 .. n : to = IF i < j THEN j - 1 ELSE j
    BY <2>4
  <2>6. Reordered(dragged, over) = InsertAt(RemoveAt(order, i), to, order[i])
    BY <1>2, <2>3, <2>5 DEF Reordered, At
  <2>7. PICK t : t = InsertAt(RemoveAt(order, i), to, order[i])
    OBVIOUS
  <2>8. i \in 1 .. Len(order) /\ to \in 1 .. Len(order)
    BY <2>1
  <2>9. t \in Seq(Nat) /\ Len(t) = Len(order) /\ ToSet(t) = ToSet(order)
    BY <2>7, <2>8, MovedAlong
  <2> QED
    BY <2>6, <2>7, <2>9
<1> QED
  BY <1>1, <1>2

\* The orders the Shuffle button may produce have every tile once.
LEMMA ShuffledIsWhole ==
    ASSUME NEW n \in Nat, NEW s, s \in SetToSeqs(1 .. n)
    PROVE  s \in Seq(Nat) /\ Len(s) = n /\ ToSet(s) = 1 .. n
<1>1. IsFiniteSet(1 .. n) /\ Cardinality(1 .. n) = n
  BY FS_Interval
<1>2. s \in [1 .. n -> 1 .. n] /\ \A i, j \in 1 .. n : i # j => s[i] # s[j]
  BY <1>1 DEF SetToSeqs
<1>3. s \in Seq(Nat) /\ Len(s) = n /\ DOMAIN s = 1 .. n
  BY <1>2
<1>4. s \in Injection(1 .. n, 1 .. n)
  BY <1>2 DEF Injection, IsInjective
<1>5. s \in Surjection(1 .. n, 1 .. n)
  BY <1>1, <1>4, FS_Injection
<1>6. \A x : x \in ToSet(s) <=> \E i \in 1 .. n : x = s[i]
  BY <1>3, ToSetIs
<1>7. \A x \in 1 .. n : \E i \in 1 .. n : s[i] = x
  BY <1>5 DEF Surjection
<1>8. ASSUME NEW x, x \in ToSet(s) PROVE x \in 1 .. n
  BY <1>2, <1>6, <1>8
<1>9. ASSUME NEW x \in 1 .. n PROVE x \in ToSet(s)
  BY <1>6, <1>7
<1>10. ToSet(s) = 1 .. n
  BY <1>8, <1>9
<1> QED
  BY <1>3, <1>10

-----------------------------------------------------------------------------
(* Composer: where the cursor may go, and what is put down.                *)

LEMMA StepWrappingIs ==
    ASSUME NEW c \in Cells, NEW d \in Directions, NEW n \in Int
    PROVE  StepWrapping(c, d, n) \in Cells
<1>1. PICK x \in 0 .. Width - 1, y \in 0 .. Height - 1 : x = X(c) /\ y = Y(c)
  BY Coordinates
<1>2. CASE d = "h"
  <2>1. PICK u \in 0 .. Width - 1 : u = (x + n + Width) % Width
    BY ComposerBounds
  <2>2. StepWrapping(c, d, n) = Width * y + u
    BY <1>1, <1>2, <2>1, ComposerBounds DEF StepWrapping
  <2> QED
    BY <2>2, CellAt
<1>3. CASE d = "v"
  <2>1. PICK v \in 0 .. Height - 1 : v = (y + n + Height) % Height
    BY ComposerBounds
  <2>2. StepWrapping(c, d, n) = Width * v + x
    BY <1>1, <1>3, <2>1, ComposerBounds DEF StepWrapping
  <2> QED
    BY <2>2, CellAt
<1> QED
  BY <1>2, <1>3 DEF Directions

LEMMA NextWrappingIs ==
    ASSUME NEW c \in Cells, NEW d \in Directions, NEW n \in {-1, 1}
    PROVE  NextWrapping(c, d, n) \in Cells
<1>1. PICK lap : lap = 1 .. ((IF d = "h" THEN Width ELSE Height) - 1)
  OBVIOUS
<1>2. PICK free : free = {k \in lap : StepWrapping(c, d, k * n) \in Free(staged)}
  OBVIOUS
<1>3. NextWrapping(c, d, n) = IF free = {} THEN c
                              ELSE StepWrapping(c, d, (CHOOSE k \in free : \A l \in free : k <= l) * n)
  BY <1>1, <1>2 DEF NextWrapping
<1>4. CASE free # {}
  <2>1. free \subseteq Nat
    BY <1>1, <1>2, ComposerBounds
  <2>2. \E k \in free : \A l \in free : k <= l
    BY <1>4, <2>1, LeastExists
  <2>3. PICK k \in free : k = (CHOOSE i \in free : \A l \in free : i <= l)
    BY <2>2
  <2>4. StepWrapping(c, d, k * n) \in Cells
    BY <1>2, <2>3 DEF Free
  <2> QED
    BY <1>3, <1>4, <2>3, <2>4
<1> QED
  BY <1>3, <1>4

LEMMA NearbyIs ==
    ASSUME NEW c \in Cells, NEW d \in Directions, NEW st
    PROVE  /\ NextPlaceable(st, c, d) \in Cells \cup {Nothing}
           /\ PreviousEditable(st, c, d) \in Cells \cup {Nothing}
<1>1. ASSUME NEW n \in {-1, 1}, NEW ok, ok \subseteq Cells
      PROVE  Nearest(c, d, n, ok) \in Cells \cup {Nothing}
  BY <1>1, NearestIs
<1>2. Free(st) \subseteq Cells /\ Cells \ position.board \subseteq Cells
  BY DEF Free
<1> QED
  BY <1>1, <1>2 DEF NextPlaceable, PreviousEditable

LEMMA AdvancedIs ==
    ASSUME override \in Directions \cup {Nothing}, NEW c \in Cells, NEW st
    PROVE  Advanced(st, c) \in Cells
<1>1. NextPlaceable(st, c, Reading(st, c)) \in Cells \cup {Nothing}
  BY ReadingIs, NearbyIs
<1> QED
  BY <1>1 DEF Advanced

LEMMA PlacementIs ==
    ASSUME ComposerTypeOK, NEW c \in Cells, NEW id \in RackIds,
           NEW letter \in Letters \cup {Nothing}
    PROVE  /\ Placement(c, id, letter) \in Tiles
           /\ Placement(c, id, letter).cell = c /\ Placement(c, id, letter).id = id
           /\ Placement(c, id, letter).blank = (position.rack[id] = Blank)
           /\ ~Placement(c, id, letter).blank => Placement(c, id, letter).letter = position.rack[id]
<1>1. position.rack \in Seq(Letters \cup {Blank})
  BY ComposerAssumption DEF ComposerTypeOK
<1>2. id \in Nat /\ position.rack[id] \in Letters \cup {Blank}
  BY <1>1 DEF RackIds
<1> QED
  BY <1>2 DEF Placement, Tiles

LEMMA FewerFit ==
    ASSUME StagedFits, position' = position, staged' \subseteq staged
    PROVE  StagedFits'
  BY DEF StagedFits, RackIds

LEMMA OneMoreFits ==
    ASSUME ComposerTypeOK, StagedFits, position' = position,
           NEW c \in Free(staged), NEW id \in RackIds, ~Used(id),
           NEW letter \in Letters \cup {Nothing},
           staged' = staged \cup {Placement(c, id, letter)}
    PROVE  StagedFits'
<1>1. c \in Cells /\ c \notin position.board /\ \A s \in staged : s.cell # c /\ s.id # id
  BY DEF Free, Used
<1>2. PICK p \in Tiles : /\ p = Placement(c, id, letter) /\ p.cell = c /\ p.id = id
                         /\ p.blank = (position.rack[id] = Blank)
                         /\ ~p.blank => p.letter = position.rack[id]
  BY <1>1, PlacementIs
<1>3. staged' = staged \cup {p}
  BY <1>2
<1>4. RackIds' = RackIds
  BY DEF RackIds
<1> QED
  BY <1>1, <1>2, <1>3, <1>4 DEF StagedFits

-----------------------------------------------------------------------------
(* Composer: each handler keeps ComposerInv and a composition that fits.   *)

FitKept == StagedFits /\ position' = position => StagedFits'

LEMMA IdleKeeps ==
    ASSUME ComposerInv, Idle,
           UNCHANGED <<position, exchanging, marked, order, drag, held>>,
           staged' \subseteq Tiles, IsFiniteSet(staged'), exchanging => staged' = {},
           selected' \in Cells \cup {Nothing}, override' \in Directions \cup {Nothing}
    PROVE  ComposerInv'
<1>1. ComposerTypeOK'
  BY DEF ComposerInv, ComposerTypeOK
<1>2. ExchangeOrPlace' /\ RackIsWhole'
  BY DEF ComposerInv, ExchangeOrPlace, RackIsWhole, RackIds
<1>3. DraggedIsUnused'
  BY DEF ComposerInv, DraggedIsUnused, Idle
<1> QED
  BY <1>1, <1>2, <1>3 DEF ComposerInv

\* Tiles taken back, with the cursor somewhere on the board.
LEMMA TakingBackKeeps ==
    ASSUME ComposerInv, Idle,
           UNCHANGED <<position, override, exchanging, marked, order, drag, held>>,
           staged' \subseteq staged, selected' \in Cells \cup {Nothing}
    PROVE  ComposerInv' /\ FitKept
<1>1. staged' \subseteq Tiles /\ IsFiniteSet(staged') /\ (exchanging => staged' = {})
  BY FS_Subset DEF ComposerInv, ComposerTypeOK, ExchangeOrPlace
<1>2. override' \in Directions \cup {Nothing}
  BY DEF ComposerInv, ComposerTypeOK
<1> QED
  BY <1>1, <1>2, IdleKeeps, FewerFit DEF FitKept

LEMMA PuttingKeeps ==
    ASSUME ComposerInv, Idle, CanStage,
           NEW c \in Free(staged), NEW id \in RackIds, ~Used(id),
           NEW letter \in Letters \cup {Nothing}, PutAt(c, id, letter),
           UNCHANGED <<position, override, exchanging, marked, order, drag, held>>
    PROVE  ComposerInv' /\ FitKept
<1>1. PICK p \in Tiles : p = Placement(c, id, letter)
  BY PlacementIs DEF ComposerInv, Free
<1>2. staged' = staged \cup {p} /\ selected' = Advanced(staged', c)
  BY <1>1 DEF PutAt
<1>3. staged' \subseteq Tiles /\ IsFiniteSet(staged') /\ (exchanging => staged' = {})
  BY <1>2, FS_AddElement DEF ComposerInv, ComposerTypeOK, CanStage
<1>4. override \in Directions \cup {Nothing} /\ c \in Cells
  BY DEF ComposerInv, ComposerTypeOK, Free
<1>5. selected' \in Cells
  BY <1>2, <1>4, AdvancedIs
<1>6. FitKept
  BY <1>1, <1>2, OneMoreFits DEF FitKept, ComposerInv
<1> QED
  BY <1>3, <1>4, <1>5, <1>6, IdleKeeps

LEMMA KeyKeeps ==
    ASSUME ComposerInv, Keys, ~Shuffle, ~ClearStaged
    PROVE  ComposerInv' /\ FitKept
<1> USE DEF mode, mouse, remote
<1>t. /\ selected \in Cells \cup {Nothing} /\ override \in Directions \cup {Nothing}
      /\ staged \subseteq Tiles /\ IsFiniteSet(staged)
  BY DEF ComposerInv, ComposerTypeOK
<1>1. ASSUME NEW d \in Directions, NEW n \in {-1, 1}, NEW onto \in BOOLEAN,
             MoveSelection(d, n, onto)
      PROVE  ComposerInv' /\ FitKept
  <2>1. selected \in Cells /\ n \in Int
    BY <1>1, <1>t DEF MoveSelection, Typing
  <2>2. selected' \in Cells
    BY <1>1, <2>1, StepWrappingIs, NextWrappingIs DEF MoveSelection
  <2> QED
    BY <1>1, <2>2, TakingBackKeeps DEF MoveSelection, Typing
<1>2. ASSUME NEW letter \in Letters, TypeLetter(letter)
      PROVE  ComposerInv' /\ FitKept
  <2>1. PICK id \in Chosen(letter) : PutAt(selected, id, letter)
    BY <1>2 DEF TypeLetter
  <2>2. id \in RackIds /\ ~Used(id)
    BY <2>1 DEF Chosen, TurnIds
  <2> QED
    BY <1>2, <2>1, <2>2, PuttingKeeps DEF TypeLetter, Typing
<1>3. ASSUME NEW letter \in Letters, SetBlankLetter(letter)
      PROVE  ComposerInv' /\ FitKept
  <2>1. PICK s \in staged : s.blank /\ staged' = (staged \ {s}) \cup {[s EXCEPT !.letter = letter]}
    BY <1>3 DEF SetBlankLetter
  <2>2. PICK t : t = [s EXCEPT !.letter = letter]
    OBVIOUS
  <2>3. t \in Tiles /\ t.cell = s.cell /\ t.id = s.id /\ t.blank
    BY <1>t, <2>1, <2>2 DEF Tiles
  <2>4. staged' = (staged \ {s}) \cup {t}
    BY <2>1, <2>2
  <2>5. \A u \in staged' : u = t \/ (u \in staged /\ u # s)
    BY <2>4
  <2>6. staged' \subseteq Tiles /\ IsFiniteSet(staged')
    BY <1>t, <2>4, <2>3, FS_RemoveElement, FS_AddElement
  <2>7. exchanging => staged' = {}
    BY <2>1 DEF ComposerInv, ExchangeOrPlace
  <2>8. FitKept
    <3> SUFFICES ASSUME StagedFits, position' = position PROVE StagedFits'
      BY DEF FitKept
    <3>1. RackIds' = RackIds
      BY DEF RackIds
    <3>2. \A u, v \in staged : u.cell = v.cell \/ u.id = v.id => u = v
      BY DEF StagedFits
    <3>3. \A u, v \in staged' : u.cell = v.cell \/ u.id = v.id => u = v
      BY <2>3, <2>5, <3>2
    <3>4. ASSUME NEW u \in staged'
          PROVE  /\ u.cell \notin position.board /\ u.id \in RackIds
                 /\ u.blank = (position.rack[u.id] = Blank)
                 /\ ~u.blank => u.letter = position.rack[u.id]
      <4>1. CASE u = t
        BY <2>1, <2>3, <4>1 DEF StagedFits
      <4>2. CASE u \in staged
        BY <4>2 DEF StagedFits
      <4> QED
        BY <2>5, <4>1, <4>2
    <3> QED
      BY <3>1, <3>3, <3>4 DEF StagedFits
  <2> QED
    BY <1>3, <1>t, <2>6, <2>7, <2>8, IdleKeeps DEF SetBlankLetter
<1>4. CASE Backspace
  <2>1. PICK left : /\ left = BackspaceTarget(staged, selected) /\ left # Nothing
                      /\ staged' = {s \in staged : s.cell # left} /\ selected' = left
    BY <1>4 DEF Backspace
  <2>2. selected \in Cells
    BY <1>4, <1>t DEF Backspace, Typing
  <2>3. left \in Cells
    BY <1>t, <2>1, <2>2, ReadingIs, NearbyIs DEF BackspaceTarget
  <2> QED
    BY <1>4, <2>1, <2>3, TakingBackKeeps DEF Backspace, Typing
<1>5. CASE Delete
  <2>1. staged' \subseteq staged
    BY <1>5 DEF Delete
  <2> QED
    BY <1>5, <1>t, <2>1, TakingBackKeeps DEF Delete, Typing
<1>6. CASE ToggleDirection
  <2>1. override' \in Directions
    BY <1>6 DEF ToggleDirection, Directions
  <2>2. PICK s \in staged : s = (CHOOSE x \in staged : TRUE)
    BY <1>6, <1>t, FS_EmptySet DEF ToggleDirection
  <2>3. s.cell \in Cells
    BY <1>t DEF Tiles
  <2>4. selected' \in Cells \cup {Nothing}
    BY <1>6, <2>1, <2>2, <2>3, NearbyIs DEF ToggleDirection
  <2>5. exchanging => staged' = {}
    BY <1>6 DEF ToggleDirection, ComposerInv, ExchangeOrPlace
  <2>6. FitKept
    BY <1>6, FewerFit DEF ToggleDirection, FitKept
  <2> QED
    BY <1>6, <1>t, <2>1, <2>4, <2>5, <2>6, IdleKeeps DEF ToggleDirection
<1> QED
  BY <1>1, <1>2, <1>3, <1>4, <1>5, <1>6 DEF Keys

LEMMA ClickOnBoardKeeps ==
    ASSUME ComposerInv, NEW c \in Cells, RemoveStaged(c) \/ SelectCell(c)
    PROVE  ComposerInv' /\ FitKept
<1> USE DEF mode, mouse, remote
<1>1. CASE RemoveStaged(c)
  <2>1. staged' \subseteq staged
    BY <1>1 DEF RemoveStaged
  <2> QED
    BY <1>1, <2>1, TakingBackKeeps DEF RemoveStaged
<1>2. CASE SelectCell(c)
  BY <1>2, TakingBackKeeps DEF SelectCell
<1> QED
  BY <1>1, <1>2

LEMMA ClickOnRackKeeps ==
    ASSUME ComposerInv, NEW id \in RackIds, TakeBack(id) \/ ClickTile(id) \/ MarkTile(id)
    PROVE  ComposerInv' /\ FitKept
<1> USE DEF mode, mouse, remote
<1>1. CASE TakeBack(id)
  <2>1. staged' \subseteq staged
    BY <1>1 DEF TakeBack
  <2>2. selected' \in Cells
    BY <1>1 DEF TakeBack, Tiles, ComposerInv, ComposerTypeOK
  <2> QED
    BY <1>1, <2>1, <2>2, TakingBackKeeps DEF TakeBack
<1>2. CASE ClickTile(id)
  BY <1>2, PuttingKeeps DEF ClickTile, Typing
<1>3. CASE MarkTile(id)
  <2>1. ComposerTypeOK' /\ RackIsWhole' /\ DraggedIsUnused'
    BY <1>3 DEF MarkTile, ComposerInv, ComposerTypeOK, RackIsWhole, RackIds, DraggedIsUnused, Idle
  <2>2. ExchangeOrPlace'
    BY <1>3 DEF MarkTile, ComposerInv, ExchangeOrPlace
  <2> QED
    BY <1>3, <2>1, <2>2, FewerFit DEF MarkTile, ComposerInv, FitKept
<1> QED
  BY <1>1, <1>2, <1>3

LEMMA DragKeeps ==
    ASSUME ComposerInv,
           (\E id \in RackIds : DragTile(id)) \/ (\E c \in Cells : DragStaged(c)) \/ DragEnd
    PROVE  ComposerInv' /\ FitKept
<1> USE DEF mode, remote
<1>t. /\ selected \in Cells \cup {Nothing} /\ staged \subseteq Tiles /\ IsFiniteSet(staged)
      /\ RackIds \subseteq Nat /\ drag \in Drags /\ held \in Drags
  BY DEF ComposerInv, ComposerTypeOK, RackIds
<1>1. \A i \in Nat \cup {Nothing}, e \in Cells \cup {Nothing} : [id |-> i, from |-> e] \in Drags
  BY DEF Drags
<1>2. NoDrag \in Drags /\ NoDrag.id = Nothing
  BY <1>1 DEF NoDrag
<1>3. [drag EXCEPT !.id = Nothing] \in Drags /\ [drag EXCEPT !.id = Nothing].id = Nothing
  BY <1>t DEF Drags
<1>4. UNCHANGED <<position, override, exchanging, marked, order>>
  BY DEF DragTile, DragStaged, DragEnd
<1>5. staged' \subseteq staged /\ IsFiniteSet(staged')
  <2>1. staged' \subseteq staged
    BY DEF DragTile, DragStaged, DragEnd
  <2> QED
    BY <1>t, <2>1, FS_Subset
<1>6. selected' \in Cells \cup {Nothing}
  BY <1>t DEF DragTile, DragStaged, DragEnd, Drags
<1>7. {drag', held'} \subseteq Drags /\ DraggedIsUnused'
  <2>1. ASSUME NEW id \in RackIds, DragTile(id) PROVE {drag', held'} \subseteq Drags /\ DraggedIsUnused'
    <3>1. drag' = [id |-> id, from |-> Nothing] /\ held' = drag' /\ staged' = staged
      BY <2>1 DEF DragTile
    <3>2. drag' \in Drags /\ drag'.id = id /\ drag'.from = Nothing /\ id # Nothing
      BY <1>t, <1>1, <3>1, ComposerBounds
    <3>3. held' # NoDrag
      BY <1>2, <3>1, <3>2
    <3>4. ~Used(id)
      BY <2>1 DEF DragTile
    <3> QED
      BY <3>1, <3>2, <3>3, <3>4 DEF DraggedIsUnused, Used
  <2>2. ASSUME NEW c \in Cells, DragStaged(c) PROVE {drag', held'} \subseteq Drags /\ DraggedIsUnused'
    <3>1. PICK s \in staged : drag' = [id |-> s.id, from |-> c]
      BY <2>2 DEF DragStaged
    <3>2. s.id \in Nat
      BY <1>t DEF Tiles
    <3>3. drag' \in Drags /\ drag'.from # Nothing /\ held' = drag'
      BY <1>1, <2>2, <3>1, <3>2, ComposerBounds DEF DragStaged
    <3> QED
      BY <3>3 DEF DraggedIsUnused
  <2>3. CASE DragEnd
    <3>1. held' \in Drags
      BY <1>2, <2>3 DEF DragEnd
    <3>2. drag' \in Drags
      BY <1>t, <1>2, <1>3, <2>3 DEF DragEnd
    <3>3. drag'.id = Nothing \/ (drag' = drag /\ held.from # Nothing)
      BY <1>2, <1>3, <2>3 DEF DragEnd
    <3> QED
      BY <3>1, <3>2, <3>3 DEF DraggedIsUnused, ComposerInv
  <2> QED
    BY <2>1, <2>2, <2>3
<1>8. ComposerTypeOK'
  BY <1>t, <1>4, <1>5, <1>6, <1>7 DEF ComposerInv, ComposerTypeOK
<1>9. ExchangeOrPlace' /\ RackIsWhole'
  BY <1>4, <1>5 DEF ComposerInv, ExchangeOrPlace, RackIsWhole, RackIds
<1> QED
  BY <1>5, <1>7, <1>8, <1>9, FewerFit DEF ComposerInv, FitKept

LEMMA DropKeeps ==
    ASSUME ComposerInv, NEW c \in Cells, DropOnCell(c)
    PROVE  ComposerInv' /\ FitKept
<1> USE DEF mode, remote
<1>t. /\ selected \in Cells \cup {Nothing} /\ staged \subseteq Tiles /\ IsFiniteSet(staged)
      /\ override \in Directions \cup {Nothing} /\ drag \in Drags
  BY DEF ComposerInv, ComposerTypeOK
<1>1. NoDrag \in Drags /\ NoDrag.id = Nothing
  BY DEF NoDrag, Drags
<1>2. [drag EXCEPT !.id = Nothing] \in Drags /\ [drag EXCEPT !.id = Nothing].id = Nothing
  BY <1>t DEF Drags
<1>3. /\ UNCHANGED <<position, override, exchanging, marked, order, held>> /\ ~exchanging
      /\ drag' \in Drags /\ drag'.id = Nothing
  BY <1>1, <1>2 DEF DropOnCell, CanStage
<1>4. ASSUME staged' \subseteq Tiles, IsFiniteSet(staged'), selected' \in Cells \cup {Nothing}
      PROVE  ComposerInv'
  <2>1. ComposerTypeOK'
    BY <1>3, <1>4 DEF ComposerInv, ComposerTypeOK
  <2>2. ExchangeOrPlace' /\ RackIsWhole' /\ DraggedIsUnused'
    BY <1>3 DEF ComposerInv, ExchangeOrPlace, RackIsWhole, RackIds, DraggedIsUnused
  <2> QED
    BY <2>1, <2>2 DEF ComposerInv
<1>5. CASE UNCHANGED <<staged, selected>>
  BY <1>t, <1>4, <1>5, FewerFit DEF FitKept
<1>6. CASE /\ c \in Free(staged) /\ drag.from # Nothing /\ selected' = selected
           /\ staged' = {IF s.cell = drag.from /\ s.id = drag.id THEN [s EXCEPT !.cell = c] ELSE s
                          : s \in staged}
  <2> DEFINE Dropped(s) == IF s.cell = drag.from /\ s.id = drag.id THEN [s EXCEPT !.cell = c] ELSE s
  <2>1. \A t : t \in staged' <=> \E s \in staged : t = Dropped(s)
    BY <1>6
  <2>2. ASSUME NEW s \in staged
        PROVE  /\ Dropped(s) \in Tiles /\ Dropped(s).id = s.id /\ Dropped(s).blank = s.blank
               /\ Dropped(s).letter = s.letter
               /\ IF s.cell = drag.from /\ s.id = drag.id THEN Dropped(s).cell = c ELSE Dropped(s) = s
    BY <1>t DEF Tiles
  <2> HIDE DEF Dropped
  <2>3. staged' \subseteq Tiles
    BY <2>1, <2>2
  <2>4. IsFiniteSet(staged')
    <3>1. PICK f : f = [s \in staged |-> Dropped(s)]
      OBVIOUS
    <3>2. f \in Surjection(staged, staged')
      BY <2>1, <3>1 DEF Surjection
    <3> QED
      BY <1>t, <3>2, FS_Surjection
  <2>5. FitKept
    <3> SUFFICES ASSUME StagedFits, position' = position PROVE StagedFits'
      BY DEF FitKept
    <3>1. RackIds' = RackIds
      BY DEF RackIds
    <3>2. c \notin position.board /\ \A s \in staged : s.cell # c
      BY <1>6 DEF Free
    <3>3. ASSUME NEW s \in staged
          PROVE  /\ Dropped(s).cell \notin position.board /\ Dropped(s).id \in RackIds
                 /\ Dropped(s).blank = (position.rack[Dropped(s).id] = Blank)
                 /\ ~Dropped(s).blank => Dropped(s).letter = position.rack[Dropped(s).id]
      BY <2>2, <3>2 DEF StagedFits
    <3>4. ASSUME NEW s \in staged, NEW u \in staged,
                 Dropped(s).cell = Dropped(u).cell \/ Dropped(s).id = Dropped(u).id
          PROVE  Dropped(s) = Dropped(u)
      BY <2>2, <3>2, <3>4 DEF StagedFits
    <3> QED
      BY <2>1, <3>1, <3>3, <3>4 DEF StagedFits
  <2> QED
    BY <1>t, <1>4, <1>6, <2>3, <2>4, <2>5
<1>7. CASE /\ c \in Free(staged) /\ drag.id # Nothing /\ drag.from = Nothing
           /\ drag.id \in TurnIds /\ PutAt(c, drag.id, Nothing)
  <2>1. PICK id \in RackIds : id = drag.id /\ ~Used(id)
    BY <1>7 DEF TurnIds, ComposerInv, DraggedIsUnused
  <2>2. PICK p \in Tiles : p = Placement(c, id, Nothing)
    BY PlacementIs DEF ComposerInv
  <2>3. staged' = staged \cup {p} /\ selected' = Advanced(staged', c)
    BY <1>7, <2>1, <2>2 DEF PutAt
  <2>4. staged' \subseteq Tiles /\ IsFiniteSet(staged')
    BY <1>t, <2>3, FS_AddElement
  <2>5. selected' \in Cells
    BY <1>t, <2>3, AdvancedIs
  <2>6. FitKept
    BY <1>7, <2>1, <2>2, <2>3, OneMoreFits DEF FitKept, ComposerInv
  <2> QED
    BY <1>4, <2>4, <2>5, <2>6
<1> QED
  BY <1>5, <1>6, <1>7 DEF DropOnCell, DropFits

LEMMA OrderKeeps ==
    ASSUME ComposerInv, Shuffle \/ \E id \in RackIds : DropOnTile(id)
    PROVE  ComposerInv' /\ FitKept
<1> USE DEF mode, mouse, remote
<1>1. UNCHANGED <<position, staged, selected, override, exchanging, marked, held>>
  BY DEF DropOnTile, Shuffle
<1>2. /\ drag' \in Drags
      /\ drag'.id = Nothing \/ drag' = drag
  BY DEF DropOnTile, Shuffle, ComposerInv, ComposerTypeOK, Drags
<1>3. order' \in Seq(Nat) /\ RackIsWhole'
  <2>1. PICK n \in Nat : /\ n = Len(position.rack) /\ n = Len(order)
                         /\ ToSet(order) = 1 .. n /\ RackIds = 1 .. n /\ RackIds' = 1 .. n
    BY <1>1 DEF ComposerInv, ComposerTypeOK, RackIsWhole, RackIds
  <2>2. order' \in Seq(Nat) /\ Len(order') = n /\ ToSet(order') = 1 .. n
    <3>1. ASSUME NEW id \in RackIds, DropOnTile(id)
          PROVE  order' \in Seq(Nat) /\ Len(order') = n /\ ToSet(order') = 1 .. n
      BY <2>1, <3>1, ReorderedIsWhole DEF DropOnTile, ComposerInv, ComposerTypeOK
    <3>2. CASE Shuffle
      BY <2>1, <3>2, ShuffledIsWhole DEF Shuffle
    <3> QED
      BY <3>1, <3>2
  <2> QED
    BY <1>1, <2>1, <2>2 DEF RackIsWhole
<1>4. ComposerTypeOK'
  BY <1>1, <1>2, <1>3 DEF ComposerInv, ComposerTypeOK
<1>5. ExchangeOrPlace' /\ DraggedIsUnused'
  BY <1>1, <1>2 DEF ComposerInv, ExchangeOrPlace, DraggedIsUnused, Used
<1> QED
  BY <1>1, <1>3, <1>4, <1>5, FewerFit DEF ComposerInv, FitKept

\* The composition is thrown away: by the button, by entering the exchange
\* mode, or with an answer.
LEMMA ModeKeeps ==
    ASSUME ComposerInv, EnterExchange \/ LeaveExchange \/ ClearStaged
    PROVE  ComposerInv' /\ FitKept
<1> USE DEF mode, mouse, remote
<1>1. /\ UNCHANGED <<position, order, held>> /\ staged' \in {{}, staged}
      /\ drag' \in Drags /\ (drag'.id = Nothing \/ (drag' = drag /\ staged' = staged))
      /\ selected' \in {Nothing, selected} /\ override' \in {Nothing, override}
      /\ exchanging' \in BOOLEAN
  BY DEF EnterExchange, LeaveExchange, ClearStaged, Reset, ComposerInv, ComposerTypeOK, Drags
<1>2. ComposerTypeOK'
  BY <1>1, FS_EmptySet DEF ComposerInv, ComposerTypeOK
<1>3. ExchangeOrPlace'
  BY DEF EnterExchange, LeaveExchange, ClearStaged, Reset, ComposerInv, ExchangeOrPlace
<1>4. RackIsWhole' /\ DraggedIsUnused'
  BY <1>1 DEF ComposerInv, RackIsWhole, RackIds, DraggedIsUnused, Used
<1>5. FitKept
  BY <1>1, FewerFit DEF FitKept
<1> QED
  BY <1>2, <1>3, <1>4, <1>5 DEF ComposerInv

\* What an update or an answer shows.
LEMMA ShownIsWhole ==
    ASSUME ComposerInv, NEW board \in Boards, NEW rack \in Racks, NEW mine \in BOOLEAN,
           Show([board |-> board, rack |-> rack, mine |-> mine])
    PROVE  /\ position' \in [board : Boards, rack : Racks, mine : BOOLEAN]
           /\ order' \in Seq(Nat) /\ RackIsWhole'
<1>1. PICK n \in Nat : n = Len(rack) /\ DOMAIN rack = 1 .. n
  BY ComposerAssumption
<1>2. position' \in [board : Boards, rack : Racks, mine : BOOLEAN] /\ position'.rack = rack
  BY DEF Show
<1>3. RackIds' = 1 .. n
  BY <1>1, <1>2 DEF RackIds
<1>4. CASE Len(order) # n
  <2>1. order' = [i \in 1 .. n |-> i]
    BY <1>1, <1>4 DEF Show, Ordered
  <2>2. order' \in Seq(Nat) /\ Len(order') = n /\ DOMAIN order' = 1 .. n
    BY <2>1
  <2>3. ToSet(order') = 1 .. n
    BY <2>1, <2>2 DEF ToSet
  <2> QED
    BY <1>1, <1>2, <1>3, <2>2, <2>3 DEF RackIsWhole
<1>5. CASE Len(order) = n
  <2>1. order' = order
    BY <1>1, <1>5 DEF Show, Ordered
  <2>2. ToSet(order) = 1 .. n /\ order \in Seq(Nat)
    BY <1>5 DEF ComposerInv, ComposerTypeOK, RackIsWhole, RackIds
  <2> QED
    BY <1>1, <1>2, <1>3, <1>5, <2>1, <2>2 DEF RackIsWhole
<1> QED
  BY <1>4, <1>5

LEMMA TurnKeeps ==
    ASSUME ComposerInv, Turns
    PROVE  ComposerInv' /\ FitKept
<1> USE DEF mode, mouse
<1>1. CASE Submit \/ Pass \/ ConfirmExchange \/ Fail
  <2>1. UNCHANGED <<position, staged, selected, override, exchanging, marked, order, drag, held>>
    BY <1>1 DEF Submit, Pass, ConfirmExchange, Fail, SendTurn
  <2>2. ComposerTypeOK' /\ ExchangeOrPlace' /\ RackIsWhole' /\ DraggedIsUnused'
    BY <2>1 DEF ComposerInv, ComposerTypeOK, ExchangeOrPlace, RackIsWhole, RackIds,
                DraggedIsUnused, Used
  <2> QED
    BY <2>1, <2>2, FewerFit DEF ComposerInv, FitKept
<1>2. CASE UpdateComes
  <2>1. UNCHANGED <<staged, selected, override, exchanging, marked, drag, held>>
    BY <1>2 DEF UpdateComes
  <2>2. PICK board \in Boards, rack \in Racks, mine \in BOOLEAN :
           Show([board |-> board, rack |-> rack, mine |-> mine])
    BY <1>2 DEF UpdateComes
  <2>3. /\ position' \in [board : Boards, rack : Racks, mine : BOOLEAN]
        /\ order' \in Seq(Nat) /\ RackIsWhole'
    BY <2>2, ShownIsWhole
  <2>4. ComposerTypeOK'
    BY <2>1, <2>3 DEF ComposerInv, ComposerTypeOK
  <2>5. ExchangeOrPlace' /\ DraggedIsUnused'
    BY <2>1 DEF ComposerInv, ExchangeOrPlace, DraggedIsUnused, Used
  <2> QED
    BY <2>1, <2>3, <2>4, <2>5, FewerFit DEF ComposerInv, FitKept
<1>3. CASE AnswerComes
  <2>1. /\ staged' = {} /\ selected' = Nothing /\ override' = Nothing /\ marked' = {}
        /\ exchanging' = FALSE /\ held' = held
    BY <1>3 DEF AnswerComes, Reset
  <2>2. drag' \in Drags /\ drag'.id = Nothing
    BY <1>3 DEF AnswerComes, Reset, ComposerInv, ComposerTypeOK, Drags
  <2>3. /\ position' \in [board : Boards, rack : Racks, mine : BOOLEAN]
        /\ order' \in Seq(Nat) /\ RackIsWhole'
    <3>1. CASE UNCHANGED <<position, order>>
      BY <3>1 DEF ComposerInv, ComposerTypeOK, RackIsWhole, RackIds
    <3>2. CASE ~UNCHANGED <<position, order>>
      <4>1. PICK board \in Boards, rack \in Racks, mine \in BOOLEAN :
               Show([board |-> board, rack |-> rack, mine |-> mine])
        BY <1>3, <3>2 DEF AnswerComes
      <4> QED
        BY <4>1, ShownIsWhole
    <3> QED
      BY <3>1, <3>2
  <2>4. ComposerTypeOK'
    BY <2>1, <2>2, <2>3, FS_EmptySet DEF ComposerInv, ComposerTypeOK
  <2>5. ExchangeOrPlace' /\ DraggedIsUnused'
    BY <2>1, <2>2 DEF ExchangeOrPlace, DraggedIsUnused
  <2>6. FitKept
    BY <2>1 DEF FitKept, StagedFits
  <2> QED
    BY <2>3, <2>4, <2>5, <2>6 DEF ComposerInv
<1> QED
  BY <1>1, <1>2, <1>3 DEF Turns

LEMMA ComposerInitKeeps == ComposerInit => ComposerInv
<1> SUFFICES ASSUME ComposerInit PROVE ComposerInv
  OBVIOUS
<1>1. PICK board \in Boards, rack \in Racks, mine \in BOOLEAN :
         /\ position = [board |-> board, rack |-> rack, mine |-> mine]
         /\ order = [i \in DOMAIN rack |-> i]
  BY DEF ComposerInit
<1>2. PICK n \in Nat : n = Len(rack) /\ DOMAIN rack = 1 .. n
  BY ComposerAssumption
<1>3. order \in Seq(Nat) /\ Len(order) = n /\ DOMAIN order = 1 .. n
  BY <1>1, <1>2
<1>4. ToSet(order) = 1 .. n
  BY <1>1, <1>2, <1>3 DEF ToSet
<1>5. RackIsWhole
  BY <1>1, <1>2, <1>3, <1>4 DEF RackIsWhole, RackIds
<1>6. NoDrag \in Drags /\ NoDrag.id = Nothing
  BY DEF NoDrag, Drags
<1>7. ComposerTypeOK
  BY <1>1, <1>3, <1>6, FS_EmptySet DEF ComposerInit, ComposerTypeOK
<1>8. ExchangeOrPlace /\ DraggedIsUnused
  BY <1>6 DEF ComposerInit, ExchangeOrPlace, DraggedIsUnused
<1> QED
  BY <1>5, <1>7, <1>8 DEF ComposerInv

LEMMA ComposerStepKeeps ==
    ASSUME ComposerInv, [ComposerNext]_composerVars
    PROVE  ComposerInv' /\ FitKept
<1>1. CASE Keys
  BY <1>1, KeyKeeps, OrderKeeps, ModeKeeps
<1>2. CASE Mouse
  BY <1>2, ClickOnBoardKeeps, ClickOnRackKeeps, DragKeeps, DropKeeps, OrderKeeps, ModeKeeps DEF Mouse, OnBoard, OnRack
<1>3. CASE Turns
  BY <1>3, TurnKeeps
<1>4. CASE UNCHANGED composerVars
  <2>1. ComposerTypeOK' /\ ExchangeOrPlace' /\ RackIsWhole' /\ DraggedIsUnused'
    BY <1>4 DEF composerVars, mode, ComposerInv, ComposerTypeOK, ExchangeOrPlace, RackIsWhole,
                RackIds, DraggedIsUnused, Used
  <2> QED
    BY <1>4, <2>1, FewerFit DEF composerVars, ComposerInv, FitKept
<1> QED
  BY <1>1, <1>2, <1>3, <1>4 DEF ComposerNext

-----------------------------------------------------------------------------
(* Composer: the theorems.                                                 *)

\* The composer's state is sound: nothing is staged while tiles are marked for
\* exchange, the rack is displayed with every tile once, and a tile dragged off
\* it is not staged before it is dropped.
THEOREM ComposerConsistent == ComposerSpec => []ComposerInv
<1>1. ComposerInv /\ [ComposerNext]_composerVars => ComposerInv'
  BY ComposerStepKeeps
<1> QED
  BY <1>1, ComposerInitKeeps, PTL DEF ComposerSpec

\* No key, click or drop spoils a composition that fits, sets aside that
\* placing and exchanging exclude each other, or loses a tile of the rack.
THEOREM CompositionsKeepFit == ComposerSpec => HandlersKeepFit
<1>1. ComposerInv /\ [ComposerNext]_composerVars =>
         /\ StagedFits /\ position' = position => StagedFits'
         /\ ExchangeOrPlace' /\ RackIsWhole'
  BY ComposerStepKeeps DEF FitKept, ComposerInv
<1> QED
  BY <1>1, ComposerConsistent, PTL DEF ComposerSpec, HandlersKeepFit

\* What is requested is what is staged, whichever way the word reads.
THEOREM RequestsAreStaged == ComposerSpec => []RequestIsStaged
<1>1. ComposerInv => RequestIsStaged
  BY RequestIsSound DEF ComposerInv
<1> QED
  BY <1>1, ComposerConsistent, PTL

\* Once a tile has been typed and the cursor has moved on, Backspace meets a
\* staged tile and takes back one, on any board and in any arrangement.
THEOREM TypingCanBeUndone == ComposerSpec => []TypingIsUndone
<1>1. ComposerInv => TypingIsUndone
  BY TypingIsSafe DEF ComposerInv
<1> QED
  BY <1>1, ComposerConsistent, PTL
=============================================================================
