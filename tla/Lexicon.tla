------------------------------ MODULE Lexicon ------------------------------
(***************************************************************************)
(* The dictionary (rules-shared/src/tiered.rs): the words in order, an     *)
(* index over the prefixes that many words share, its entries packed into  *)
(* one number each, and a cursor that spells a word letter by letter,      *)
(* through the index and then within a range of words.                     *)
(*                                                                         *)
(* A word is a sequence of characters.  A letter, what is on a tile, has   *)
(* one or two.  Positions count from 1 here, and the widths of the packed  *)
(* fields are parameters.                                                  *)
(***************************************************************************)
EXTENDS Integers, Sequences, FiniteSets, SequencesExt

CONSTANTS
    Alphabet,       \* the letters, in order
    Grapheme,       \* the characters of each letter
    LeafLenBits,    \* the bits of a packed length, of a leaf
    IndexLenBits,   \* and of an index node,
    SizeBits        \* and of length and start together

Letters == Range(Alphabet)

\* The characters, in the order of the letters that have only one.
Characters ==
    FlattenSeq([i \in DOMAIN Alphabet |->
        IF Len(Grapheme[Alphabet[i]]) = 1 THEN Grapheme[Alphabet[i]] ELSE <<>>])

ASSUME LexiconAssumption ==
    /\ Alphabet \in Seq(Letters) /\ IsInjective(Alphabet)
    /\ DOMAIN Grapheme = Letters /\ IsInjective(Grapheme)
    /\ \A l \in Letters : Grapheme[l] \in Seq(Letters) /\ Len(Grapheme[l]) \in {1, 2}
    \* Each character of a letter is a letter of its own, and is called by its name.
    /\ \A l \in Letters : \A i \in DOMAIN Grapheme[l] :
          Grapheme[Grapheme[l][i]] = <<Grapheme[l][i]>>
    /\ {LeafLenBits, IndexLenBits} \subseteq 1 .. SizeBits - 1
    /\ SizeBits \in 2 .. 30 /\ Len(Alphabet) < 2 ^ IndexLenBits

-----------------------------------------------------------------------------
(* from_encoded.                                                           *)

Place(c) == CHOOSE i \in DOMAIN Characters : Characters[i] = c
Precedes(v, w) ==
    \/ IsStrictPrefix(v, w)
    \/ \E n \in DOMAIN v \cap DOMAIN w :
         /\ \A i \in 1 .. n - 1 : v[i] = w[i]
         /\ Place(v[n]) < Place(w[n])

\* The words that can be played, in order.
Arena(words) ==
    LET kept == {w \in words : Len(w) >= 2 /\ Range(w) \subseteq Range(Characters)}
    IN  [i \in 1 .. Cardinality(kept) |->
            CHOOSE w \in kept : Cardinality({v \in kept : Precedes(v, w)}) = i - 1]

\* An entry: how many words or edges there are, from where, and whether the
\* prefix is a word itself.
Empty == [kind |-> "empty"]
Child(kind, start, len, isWord) ==
    [kind |-> kind, start |-> start, len |-> len, isWord |-> isWord]

LenBits(kind) == IF kind = "leaf" THEN LeafLenBits ELSE IndexLenBits

\* pack: no length is 0, so the number 0 is free for Empty.
Pack(child) ==
    IF child = Empty THEN 0
    ELSE LET kind == IF child.kind = "leaf" THEN 2 ELSE 0
             isWord == IF child.isWord THEN 1 ELSE 0
             startBits == SizeBits - LenBits(child.kind)
         IN  (kind + isWord) * 2 ^ SizeBits + child.len * 2 ^ startBits + (child.start - 1)
Unpack(packed) ==
    LET flags == packed \div 2 ^ SizeBits
        kind == IF flags >= 2 THEN "leaf" ELSE "index"
        startBits == SizeBits - LenBits(kind)
    IN  IF packed = 0 THEN Empty
        ELSE Child(kind, (packed % 2 ^ startBits) + 1,
                   (packed \div 2 ^ startBits) % 2 ^ LenBits(kind), flags % 2 = 1)

\* The words that begin with a prefix, which stand together, and the characters
\* that go on from it.
Group(arena, prefix) == {i \in DOMAIN arena : IsPrefix(prefix, arena[i])}
Onward(arena, prefix) ==
    FlattenSeq([i \in DOMAIN Characters |->
        IF Group(arena, Append(prefix, Characters[i])) = {} THEN <<>> ELSE <<Characters[i]>>])

\* The prefixes with more words than a leaf may have are the nodes, breadth-first.
Nodes(arena, maxLeaf) ==
    LET prefixes == UNION {{SubSeq(w, 1, n) : n \in 2 .. Len(w)} : w \in Range(arena)}
        large == {p \in prefixes : Cardinality(Group(arena, p)) > maxLeaf}
        before(p, q) == Len(p) < Len(q) \/ (Len(p) = Len(q) /\ Precedes(p, q))
    IN  [n \in 1 .. Cardinality(large) |->
            CHOOSE p \in large : Cardinality({q \in large : before(q, p)}) = n - 1]

\* The edges: those of each node in turn, so that a node's stand together.
Edges(arena, nodes) ==
    FlattenSeq([n \in DOMAIN nodes |->
        LET onward == Onward(arena, nodes[n])
        IN  [i \in DOMAIN onward |-> Append(nodes[n], onward[i])]])

\* What points at the words with a prefix: a leaf, or the node's run of edges.
Entry(arena, nodes, edges, prefix) ==
    LET group == Group(arena, prefix)
        onward == Onward(arena, prefix)
        isWord == Len(arena[Min(group)]) = Len(prefix)
    IN  CASE group = {} -> Empty
          [] prefix \in Range(nodes) ->
               Child("index",
                     CHOOSE e \in DOMAIN edges : edges[e] = Append(prefix, onward[1]),
                     Len(onward), isWord)
          [] OTHER -> Child("leaf", Min(group), Cardinality(group), isWord)

\* A slot for every two characters, and the edges below: their last character
\* and what they point at.  A range of more than maxScan words is bisected.
Dictionary(words, maxLeaf, maxScan) ==
    LET arena == Arena(words)
        nodes == Nodes(arena, maxLeaf)
        edges == Edges(arena, nodes)
        packed(prefix) == Pack(Entry(arena, nodes, edges, prefix))
    IN  [arena |-> arena,
         dense |-> [two \in Range(Characters) \X Range(Characters) |-> packed(two)],
         edgeLetters |-> [e \in DOMAIN edges |-> edges[e][Len(edges[e])]],
         edgeChildren |-> [e \in DOMAIN edges |-> packed(edges[e])],
         maxScan |-> maxScan]

\* The lists that can be written with the characters, of words that can be
\* played: what normalise leaves of a list.
Spellable(words) ==
    IsFiniteSet(words) /\ \A w \in words : w \in Seq(Range(Characters)) /\ Len(w) >= 2

\* Of these, and of the sizes of a leaf, those that from_encoded asserts fit the
\* packed fields.
Indexable(words, maxLeaf) ==
    /\ Spellable(words) /\ maxLeaf \in 1 .. 2 ^ LeafLenBits - 1
    /\ Cardinality(words) <= 2 ^ (SizeBits - LeafLenBits)
    /\ Len(Edges(Arena(words), Nodes(Arena(words), maxLeaf))) <= 2 ^ (SizeBits - IndexLenBits)

-----------------------------------------------------------------------------
(* The cursor.                                                             *)

Root == [at |-> "start"]
First(c) == [at |-> "first", char |-> c]
Node(start, fanout, depth) ==
    [at |-> "node", start |-> start, fanout |-> fanout, depth |-> depth]
Within(from, len, depth) == [at |-> "range", from |-> from, len |-> len, depth |-> depth]

Stuck == [stuck |-> TRUE]
Stepped(cursor, isWord) == [cursor |-> cursor, isWord |-> isWord]

StepFrom(packed, depth) ==
    LET child == Unpack(packed)
    IN  CASE child.kind = "empty" -> Stuck
          [] child.kind = "index" -> Stepped(Node(child.start, child.len, depth), child.isWord)
          [] child.kind = "leaf" -> Stepped(Within(child.start, child.len, depth), child.isWord)

\* The character of a word at a depth, 0 past its end.
CharAt(dict, i, depth) ==
    IF Len(dict.arena[i]) > depth THEN Place(dict.arena[i][depth + 1]) ELSE 0

\* partition_point: bisects for the first index whose character at the depth is
\* none of these.
Partition(dict, lo, hi, depth, chars) ==
    LET point[r \in (lo .. hi) \X (lo .. hi)] ==
            LET l == r[1]
                h == r[2]
                mid == l + (h - l) \div 2
            IN  IF l >= h THEN l
                ELSE IF CharAt(dict, mid, depth) \in chars THEN point[<<mid + 1, h>>]
                ELSE point[<<l, mid>>]
    IN  point[<<lo, hi>>]

\* A short range is scanned until a greater character turns up.
Scanned(dict, cursor, c) ==
    {i \in cursor.from .. cursor.from + cursor.len - 1 :
        /\ CharAt(dict, i, cursor.depth) = c
        /\ \A j \in cursor.from .. i : CharAt(dict, j, cursor.depth) <= c}

\* Mutant: the search starts with the words that are longer than the prefix.
BisectedPastWord(dict, cursor, c) ==
    LET hi == cursor.from + cursor.len
        lo == Min({cursor.from + 1, hi})
        start == Partition(dict, lo, hi, cursor.depth, 0 .. c - 1)
    IN  start .. Partition(dict, start, hi, cursor.depth, {c}) - 1

MatchesFrom(dict, start, hi, depth, c) == start .. Partition(dict, start, hi, depth, {c}) - 1
Bisected(dict, cursor, c) ==
    LET lo == cursor.from
        hi == cursor.from + cursor.len
    IN  MatchesFrom(dict, Partition(dict, lo, hi, cursor.depth, 0 .. c - 1), hi, cursor.depth, c)

\* narrow_range, to the words found.
NarrowTo(dict, cursor, found) ==
    LET first == Min(found)
        depth == cursor.depth + 1
    IN  IF found = {} THEN Stuck
        ELSE Stepped(Within(first, Max(found) - first + 1, depth),
                     Len(dict.arena[first]) = depth)
Narrow(dict, cursor, c) ==
    NarrowTo(dict, cursor,
        IF cursor.len <= dict.maxScan THEN Scanned(dict, cursor, Place(c))
        ELSE Bisected(dict, cursor, Place(c)))

AlongEdge(dict, cursor, c) ==
    LET run == cursor.start .. cursor.start + cursor.fanout - 1
        matching == {e \in run : dict.edgeLetters[e] = c}
    IN  IF matching = {} THEN Stuck
        ELSE StepFrom(dict.edgeChildren[Min(matching)], cursor.depth + 1)

AdvanceChar(dict, cursor, c) ==
    CASE cursor.at = "start" -> Stepped(First(c), FALSE)
      [] cursor.at = "first" -> StepFrom(dict.dense[<<cursor.char, c>>], 2)
      [] cursor.at = "node" -> AlongEdge(dict, cursor, c)
      [] cursor.at = "range" -> Narrow(dict, cursor, c)

\* advance: a letter of two characters takes two steps, and the last one says
\* whether a word has been spelt.
AdvanceOn(dict, step, c) ==
    IF step = Stuck THEN Stuck ELSE AdvanceChar(dict, step.cursor, c)
Advance(dict, step, l) ==
    LET along[k \in 0 .. Len(Grapheme[l])] ==
            IF k = 0 THEN step ELSE AdvanceOn(dict, along[k - 1], Grapheme[l][k])
    IN  along[Len(Grapheme[l])]

\* From where a prefix has led, and from the root.
WalkOn(dict, step, l) == IF step = Stuck THEN Stuck ELSE Advance(dict, step, l)
WalkFrom(dict, step, letters) ==
    LET along[k \in 0 .. Len(letters)] ==
            IF k = 0 THEN step ELSE WalkOn(dict, along[k - 1], letters[k])
    IN  along[Len(letters)]
Walk(dict, letters) == WalkFrom(dict, Stepped(Root, FALSE), letters)

AtWord(step) == step # Stuck /\ step.isWord
Spells(dict, letters) == AtWord(Walk(dict, letters))

\* contains, and allowed_letters of the square between two runs of letters, the
\* first of which is walked once.
Spelling(letters) == FlattenSeq([i \in DOMAIN letters |-> Grapheme[letters[i]]])
HasWord(dict, letters) == Len(Spelling(letters)) >= 2 /\ Spells(dict, letters)
LettersFrom(dict, step, after) ==
    IF step = Stuck THEN {}
    ELSE {l \in Letters : AtWord(WalkFrom(dict, step, <<l>> \o after))}
AllowedLetters(dict, before, after) == LettersFrom(dict, Walk(dict, before), after)

-----------------------------------------------------------------------------
(* The reference: a list of words that is bisected at every character      *)
(* (WordListDictionary), and every letter tried in turn.                   *)

SortedOn(dict, step, c) ==
    IF step = Stuck THEN Stuck
    ELSE NarrowTo(dict, step.cursor, Bisected(dict, step.cursor, Place(c)))
SortedWalk(dict, letters) ==
    LET chars == Spelling(letters)
        along[k \in 0 .. Len(chars)] ==
            IF k = 0 THEN Stepped(Within(1, Len(dict.arena), 0), FALSE)
            ELSE SortedOn(dict, along[k - 1], chars[k])
    IN  along[Len(chars)]
TriedLetters(words, before, after) ==
    {l \in Letters : Spelling(before \o <<l>> \o after) \in words}

-----------------------------------------------------------------------------
Spellings(longest) == UNION {[1 .. n -> Letters] : n \in 1 .. longest}

\* Whatever is spelt, with whichever tiles: the cursor gets stuck as soon as no
\* word goes on that way and not before, and knows a word when it has spelt one;
\* and it knows what fits between two runs of letters.
FindsTheWords(dict, words, longest) ==
    \A letters \in Spellings(longest) :
      LET spelt == Spelling(letters)
      IN  Len(spelt) >= 2 =>
            /\ Walk(dict, letters) # Stuck <=> \E w \in words : IsPrefix(spelt, w)
            /\ HasWord(dict, letters) <=> spelt \in words
            /\ \A k \in DOMAIN letters :
                 LET before == SubSeq(letters, 1, k - 1)
                     after == SubSeq(letters, k + 1, Len(letters))
                 IN  AllowedLetters(dict, before, after) = TriedLetters(words, before, after)

\* So does the reference.
ReferenceFinds(dict, words, longest) ==
    \A letters \in Spellings(longest) : \A walk \in {SortedWalk(dict, letters)} :
      LET spelt == Spelling(letters)
      IN  /\ walk # Stuck <=> \E w \in words : IsPrefix(spelt, w)
          /\ walk # Stuck => (walk.isWord <=> spelt \in words)
=============================================================================
