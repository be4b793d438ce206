-------------------------- MODULE Accounts_proofs --------------------------
(* Theorems about Accounts, for every number of accounts, links, calls and *)
(* permits.                                                                *)
EXTENDS Accounts, FiniteSetTheorems, SequenceTheorems, TLAPS

-----------------------------------------------------------------------------
(* What a call has yet to do.                                              *)

StepNames ==
    {"hash", "insert", "open", "verify", "find", "store", "revoke", "look", "rename",
     "clear", "issue", "consume"}

\* A rest of a plan begins where the plan goes on, and so does its tail.
LEMMA RestOfPlan ==
    ASSUME NEW plan \in Seq(StepNames), NEW todo \in Suffixes(plan) \ {<< >>}
    PROVE  \E n \in 1 .. Len(plan) :
              /\ Head(todo) = plan[n] /\ Len(todo) = Len(plan) - n + 1
              /\ Len(todo) # 1 =>
                    /\ Tail(todo) \in Suffixes(plan) \ {<< >>}
                    /\ Head(Tail(todo)) = plan[n + 1]
              /\ \A e : Contains(todo, e) <=> \E i \in n .. Len(plan) : plan[i] = e
<1>1. PICK n \in 1 .. Len(plan) : todo = SubSeq(plan, n, Len(plan))
  BY DEF Suffixes
<1>2. /\ todo \in Seq(StepNames) /\ Len(todo) = Len(plan) - n + 1
      /\ \A i \in 1 .. Len(todo) : todo[i] = plan[n + i - 1]
  BY <1>1
<1>3. Head(todo) = plan[n]
  BY <1>2
<1>4. \A e : Contains(todo, e) <=> \E i \in n .. Len(plan) : plan[i] = e
  <2>1. ASSUME NEW i \in n .. Len(plan)
        PROVE  i - n + 1 \in 1 .. Len(todo) /\ todo[i - n + 1] = plan[i]
    BY <1>2, <2>1
  <2>2. ASSUME NEW i \in 1 .. Len(todo)
        PROVE  n + i - 1 \in n .. Len(plan) /\ todo[i] = plan[n + i - 1]
    BY <1>2, <2>2
  <2> QED
    BY <2>1, <2>2, Zenon DEF Contains
<1>5. /\ Tail(todo) \in Seq(StepNames) /\ Len(Tail(todo)) = Len(todo) - 1
      /\ \A i \in 1 .. Len(Tail(todo)) : Tail(todo)[i] = plan[n + i]
  BY <1>2
<1>7. ASSUME Len(todo) # 1
      PROVE  /\ Tail(todo) \in Suffixes(plan) \ {<< >>}
             /\ Head(Tail(todo)) = plan[n + 1]
  <2>1. n + 1 \in 1 .. Len(plan)
    BY <1>2, <1>7
  <2>2. Tail(todo) = SubSeq(plan, n + 1, Len(plan))
    <3>1. /\ SubSeq(plan, n + 1, Len(plan)) \in Seq(StepNames)
          /\ Len(SubSeq(plan, n + 1, Len(plan))) = Len(plan) - n
          /\ \A i \in 1 .. Len(plan) - n : SubSeq(plan, n + 1, Len(plan))[i] = plan[n + i]
      BY <2>1
    <3>2. Len(Tail(todo)) = Len(plan) - n
      BY <1>2, <1>5
    <3> QED
      BY <1>5, <3>1, <3>2, SeqEqual
  <2>3. Tail(todo) # << >>
    <3>1. Len(Tail(todo)) # 0
      BY <1>2, <1>5, <1>7
    <3> QED
      BY <1>5, <3>1, EmptySeq
  <2>4. Tail(todo) \in Suffixes(plan)
    BY <2>1, <2>2, Zenon DEF Suffixes
  <2>5. Head(Tail(todo)) = plan[n + 1]
    BY <1>2, <1>5, <1>7
  <2> QED
    BY <2>3, <2>4, <2>5
<1> QED
  BY <1>2, <1>3, <1>4, <1>7

LEMMA StepsByKind ==
    /\ DOMAIN Steps = {"register", "login", "change", "rename", "forgot", "reset",
                       "signout", "assist"}
    /\ Steps["register"] = <<"hash", "insert", "open">>
    /\ Steps["login"] = <<"verify", "open">>
    /\ Steps["change"] = <<"find", "verify", "hash", "store", "revoke">>
    /\ Steps["rename"] = <<"look", "rename">>
    /\ Steps["forgot"] = <<"clear", "issue">>
    /\ Steps["reset"] = <<"hash", "store", "consume", "revoke">>
    /\ Steps["signout"] = <<"revoke">>
    /\ Steps["assist"] = <<"hash", "store">>
  BY DEF Steps, ChangeSteps, ResetSteps

LEMMA PlansAreSequences ==
    ASSUME NEW kind \in DOMAIN Steps PROVE Steps[kind] \in Seq(StepNames)
<1>1. /\ <<"hash", "insert", "open">> \in Seq(StepNames)
      /\ <<"verify", "open">> \in Seq(StepNames)
      /\ <<"look", "rename">> \in Seq(StepNames)
      /\ <<"clear", "issue">> \in Seq(StepNames)
      /\ <<"revoke">> \in Seq(StepNames)
      /\ <<"hash", "store">> \in Seq(StepNames)
  BY DEF StepNames
<1>2. /\ <<"find", "verify", "hash", "store", "revoke">> \in Seq(StepNames)
      /\ <<"hash", "store", "consume", "revoke">> \in Seq(StepNames)
  BY DEF StepNames
<1> QED
  BY <1>1, <1>2, StepsByKind

\* The kind of a call from its next step, and the step after it.
FollowsItsPlan(kind, todo) ==
    /\ Len(todo) # 1 => Tail(todo) \in Suffixes(Steps[kind]) \ {<< >>}
    /\ Head(todo) = "hash" =>
         /\ kind \in {"register", "change", "reset", "assist"} /\ Len(todo) # 1
         /\ Head(Tail(todo)) = IF kind = "register" THEN "insert" ELSE "store"
    /\ Head(todo) = "verify" =>
         /\ kind \in {"login", "change"} /\ Len(todo) # 1
         /\ Head(Tail(todo)) = IF kind = "login" THEN "open" ELSE "hash"
    /\ Head(todo) = "insert" =>
         kind = "register" /\ Len(todo) # 1 /\ Head(Tail(todo)) = "open"
    /\ Head(todo) = "open" => kind \in {"register", "login"} /\ Len(todo) = 1
    /\ Head(todo) = "find" =>
         kind = "change" /\ Len(todo) # 1 /\ Head(Tail(todo)) = "verify"
    /\ Head(todo) = "store" =>
         /\ kind \in {"change", "reset", "assist"}
         /\ kind = "assist" <=> Len(todo) = 1
         /\ kind = "change" => Head(Tail(todo)) = "revoke"
         /\ kind = "reset" => Head(Tail(todo)) = "consume"
    /\ Head(todo) = "consume" =>
         kind = "reset" /\ Len(todo) # 1 /\ Head(Tail(todo)) = "revoke"
    /\ Head(todo) = "revoke" =>
         kind \in {"change", "reset", "signout"} /\ Len(todo) = 1
    /\ Head(todo) = "look" =>
         kind = "rename" /\ Len(todo) # 1 /\ Head(Tail(todo)) = "rename"
    /\ Head(todo) = "rename" => kind = "rename" /\ Len(todo) = 1
    /\ Head(todo) = "clear" =>
         kind = "forgot" /\ Len(todo) # 1 /\ Head(Tail(todo)) = "issue"
    /\ Head(todo) = "issue" => kind = "forgot" /\ Len(todo) = 1
    /\ kind \in {"change", "reset"} =>
         /\ Contains(todo, "revoke")
         /\ Contains(todo, "store") <=> Head(todo) \notin {"consume", "revoke"}

LEMMA StepOfPlan ==
    ASSUME NEW kind \in DOMAIN Steps, NEW todo \in Suffixes(Steps[kind]) \ {<< >>}
    PROVE  FollowsItsPlan(kind, todo)
<1>1. PICK n \in 1 .. Len(Steps[kind]) :
         /\ Head(todo) = Steps[kind][n] /\ Len(todo) = Len(Steps[kind]) - n + 1
         /\ Len(todo) # 1 =>
               /\ Tail(todo) \in Suffixes(Steps[kind]) \ {<< >>}
               /\ Head(Tail(todo)) = Steps[kind][n + 1]
         /\ \A e : Contains(todo, e) <=> \E i \in n .. Len(Steps[kind]) : Steps[kind][i] = e
  BY PlansAreSequences, RestOfPlan
<1>2. CASE kind = "register"
  BY <1>1, <1>2, StepsByKind DEF FollowsItsPlan
<1>3. CASE kind = "login"
  BY <1>1, <1>3, StepsByKind DEF FollowsItsPlan
<1>4. CASE kind = "change"
  BY <1>1, <1>4, StepsByKind DEF FollowsItsPlan
<1>5. CASE kind = "rename"
  BY <1>1, <1>5, StepsByKind DEF FollowsItsPlan
<1>6. CASE kind = "forgot"
  BY <1>1, <1>6, StepsByKind DEF FollowsItsPlan
<1>7. CASE kind = "reset"
  BY <1>1, <1>7, StepsByKind, SMTT(30) DEF FollowsItsPlan
<1>8. CASE kind = "signout"
  BY <1>1, <1>8, StepsByKind DEF FollowsItsPlan
<1>9. CASE kind = "assist"
  BY <1>1, <1>9, StepsByKind DEF FollowsItsPlan
<1> QED
  BY <1>2, <1>3, <1>4, <1>5, <1>6, <1>7, <1>8, <1>9, StepsByKind

\* A call begins with the whole of its plan.
LEMMA WholePlan ==
    ASSUME NEW kind \in DOMAIN Steps
    PROVE  Steps[kind] \in Suffixes(Steps[kind]) \ {<< >>}
<1>1. Steps[kind] \in Seq(StepNames) /\ Len(Steps[kind]) >= 1
  <2>1. \E plan : Steps[kind] = plan /\ Len(plan) >= 1
    <3>1. CASE kind = "register"
      <4>1. Steps[kind] = <<"hash", "insert", "open">> /\ Len(<<"hash", "insert", "open">>) >= 1
        BY <3>1, StepsByKind
      <4> QED
        BY <4>1
    <3>2. CASE kind = "login"
      <4>1. Steps[kind] = <<"verify", "open">> /\ Len(<<"verify", "open">>) >= 1
        BY <3>2, StepsByKind
      <4> QED
        BY <4>1
    <3>3. CASE kind = "change"
      <4>1. Steps[kind] = <<"find", "verify", "hash", "store", "revoke">> /\ Len(<<"find", "verify", "hash", "store", "revoke">>) >= 1
        BY <3>3, StepsByKind
      <4> QED
        BY <4>1
    <3>4. CASE kind = "rename"
      <4>1. Steps[kind] = <<"look", "rename">> /\ Len(<<"look", "rename">>) >= 1
        BY <3>4, StepsByKind
      <4> QED
        BY <4>1
    <3>5. CASE kind = "forgot"
      <4>1. Steps[kind] = <<"clear", "issue">> /\ Len(<<"clear", "issue">>) >= 1
        BY <3>5, StepsByKind
      <4> QED
        BY <4>1
    <3>6. CASE kind = "reset"
      <4>1. Steps[kind] = <<"hash", "store", "consume", "revoke">> /\ Len(<<"hash", "store", "consume", "revoke">>) >= 1
        BY <3>6, StepsByKind
      <4> QED
        BY <4>1
    <3>7. CASE kind = "signout"
      <4>1. Steps[kind] = <<"revoke">> /\ Len(<<"revoke">>) >= 1
        BY <3>7, StepsByKind
      <4> QED
        BY <4>1
    <3>8. CASE kind = "assist"
      <4>1. Steps[kind] = <<"hash", "store">> /\ Len(<<"hash", "store">>) >= 1
        BY <3>8, StepsByKind
      <4> QED
        BY <4>1
    <3> QED
      BY <3>1, <3>2, <3>3, <3>4, <3>5, <3>6, <3>7, <3>8, StepsByKind
  <2> QED
    BY <2>1, PlansAreSequences
<1>2. Steps[kind] = SubSeq(Steps[kind], 1, Len(Steps[kind]))
  BY <1>1, SubSeqFull
<1>3. Steps[kind] # << >>
  BY <1>1, EmptySeq
<1>4. Steps[kind] \in Suffixes(Steps[kind])
  <2>1. 1 \in 1 .. Len(Steps[kind])
    BY <1>1
  <2> QED
    BY <1>2, <2>1, Zenon DEF Suffixes
<1> QED
  BY <1>3, <1>4

LEMMA FirstSteps ==
    /\ Head(Steps["register"]) = "hash" /\ Head(Steps["login"]) = "verify"
    /\ Head(Steps["change"]) = "find" /\ Head(Steps["rename"]) = "look"
    /\ Head(Steps["forgot"]) = "clear" /\ Head(Steps["reset"]) = "hash"
    /\ Head(Steps["signout"]) = "revoke" /\ Head(Steps["assist"]) = "hash"
  BY StepsByKind

-----------------------------------------------------------------------------
(* What a step of one call does to the invariant.                          *)

\* What a call that goes on may rest on stays: accounts, their passwords, and
\* how far a reset has come with its link.
Forward ==
    /\ Accounts \subseteq Accounts'
    /\ \A t \in Links : used[t] # "no" => used'[t] # "no" /\ (Spent(t) => Spent(t)')

LEMMA ForwardKeepsOrder ==
    ASSUME Forward, NEW call, call.kind = "reset" => call.link \in Links, InOrder(call)
    PROVE  InOrder(call)'
<1>1. Identified(call) => Identified(call)'
  BY DEF Forward, Identified
<1>2. call.player \in Accounts => call.player \in Accounts'
  BY DEF Forward
<1> QED
  BY <1>1, <1>2 DEF InOrder, Forward

\* One call goes on or ends, and the others stay as they are.
LEMMA OneCallGoesOn ==
    ASSUME IInv, Forward, NEW c \in Callers, NEW next,
           calls' = [calls EXCEPT ![c] = next],
           next = Idle \/ (next \in Calls /\ InOrder(next)' /\ ~next.again)
    PROVE  /\ calls' \in [Callers -> Calls \cup {Idle}]
           /\ CallsAreInOrder'
           /\ \A d \in Callers : calls'[d] # Idle => ~calls'[d].again
<1>1. calls \in [Callers -> Calls \cup {Idle}]
  BY DEF IInv, TypeOK
<1>2. calls' \in [Callers -> Calls \cup {Idle}]
  BY <1>1
<1>3. ASSUME NEW d \in Callers, calls'[d] # Idle
      PROVE  InOrder(calls[d])' /\ ~calls'[d].again
  <2>1. CASE d = c
    <3>1. calls'[d] = next
      BY <1>1, <2>1
    <3> QED
      BY <1>3, <3>1 DEF InOrder, Identified, Spent
  <2>2. CASE d # c
    <3>1. calls'[d] = calls[d] /\ calls[d] # Idle
      BY <1>1, <1>3, <2>2
    <3>2. InOrder(calls[d]) /\ ~calls[d].again
      BY <3>1 DEF IInv, CallsAreInOrder, LinkIsSpentByItsReset
    <3>3. PICK call : call = calls[d]
      OBVIOUS
    <3>4. call.kind = "reset" => call.link \in Links
      BY <3>2, <3>3 DEF InOrder
    <3>5. InOrder(call)'
      BY <3>2, <3>3, <3>4, ForwardKeepsOrder
    <3> QED
      BY <3>1, <3>2, <3>3, <3>5 DEF InOrder, Identified, Spent
  <2> QED
    BY <2>1, <2>2
<1> QED
  BY <1>2, <1>3 DEF CallsAreInOrder

\* A call under way is one of the calls, and follows its plan.
LEMMA CallUnderWay ==
    ASSUME IInv, NEW c \in Callers, calls[c] # Idle
    PROVE  /\ calls[c] \in Calls /\ calls[c].kind \in DOMAIN Steps
           /\ InOrder(calls[c]) /\ ~calls[c].again
           /\ FollowsItsPlan(calls[c].kind, calls[c].todo)
<1>1. calls[c] \in Calls /\ InOrder(calls[c]) /\ ~calls[c].again
  BY DEF IInv, TypeOK, CallsAreInOrder, LinkIsSpentByItsReset
<1>2. calls[c].kind \in DOMAIN Steps
  BY <1>1 DEF Calls
<1>3. calls[c].todo \in Suffixes(Steps[calls[c].kind]) \ {<< >>}
  BY <1>1 DEF InOrder
<1> QED
  BY <1>1, <1>2, <1>3, StepOfPlan

\* The hash of one call begins, ends or goes on, and the permits move with it.
Running(call) == call # Idle /\ call.working
One(b) == IF b THEN 1 ELSE 0

LEMMA PermitsMove ==
    ASSUME IInv, NEW c \in Callers, NEW next,
           calls' = [calls EXCEPT ![c] = next],
           free' \in Nat, orphans' \in Nat,
           free' + orphans' + One(Running(next)) = free + orphans + One(Working(c))
    PROVE  HashingIsBounded' /\ free' \in 0 .. Permits /\ orphans' \in 0 .. Permits
<1> DEFINE W == {d \in Callers : Working(d)}
<1>1. /\ calls \in [Callers -> Calls \cup {Idle}] /\ free \in Nat /\ orphans \in Nat
      /\ free + orphans + Cardinality(W) = Permits /\ Permits \in Nat
  BY AccountsAssumption DEF IInv, TypeOK, HashingIsBounded
<1>2. IsFiniteSet(W) /\ Cardinality(W) \in Nat
  BY AccountsAssumption, FS_Subset, FS_CardinalityType
<1>3. W' = IF Running(next) THEN W \cup {c} ELSE W \ {c}
  <2>1. calls'[c] = next /\ \A d \in Callers : d # c => calls'[d] = calls[d]
    BY <1>1
  <2> QED
    BY <2>1 DEF Working, Running
<1>4. c \in W <=> Working(c)
  OBVIOUS
<1>5. Cardinality(W') + One(Working(c)) = Cardinality(W) + One(Running(next))
  <2>1. CASE Running(next)
    <3>1. Cardinality(W') = IF c \in W THEN Cardinality(W) ELSE Cardinality(W) + 1
      BY <1>2, <1>3, <2>1, FS_AddElement
    <3> QED
      BY <1>2, <1>4, <2>1, <3>1 DEF One
  <2>2. CASE ~Running(next)
    <3>1. Cardinality(W') = IF c \in W THEN Cardinality(W) - 1 ELSE Cardinality(W)
      BY <1>2, <1>3, <2>2, FS_RemoveElement
    <3> QED
      BY <1>2, <1>4, <2>2, <3>1 DEF One
  <2> QED
    BY <2>1, <2>2
<1>6. Cardinality(W') \in Nat
  <2>1. IsFiniteSet(W')
    BY <1>2, <1>3, FS_AddElement, FS_RemoveElement
  <2> QED
    BY <2>1, FS_CardinalityType
<1>7. free' + orphans' + Cardinality(W') = Permits
  <2>1. One(Running(next)) \in Nat /\ One(Working(c)) \in Nat
    BY DEF One
  <2> HIDE DEF W
  <2> QED
    BY <1>1, <1>2, <1>5, <1>6, <2>1
<1> HIDE DEF W
<1>8. free' \in 0 .. Permits /\ orphans' \in 0 .. Permits
  BY <1>1, <1>6, <1>7
<1> QED
  BY <1>7, <1>8 DEF HashingIsBounded, W

\* A call that goes on has its next step before it and is not hashing.
LEMMA GoingOn ==
    ASSUME NEW c \in Callers, NEW call \in Calls,
           Len(call.todo) # 1 => Tail(call.todo) \in Suffixes(Steps[call.kind]),
           Onward(c, call)
    PROVE  \E next \in Calls \cup {Idle} :
              /\ calls' = [calls EXCEPT ![c] = next] /\ ~Running(next)
              /\ Len(call.todo) = 1 => next = Idle
              /\ Len(call.todo) # 1 =>
                    /\ next = [call EXCEPT !.todo = Tail(@), !.working = FALSE]
                    /\ next \in Calls /\ next.todo = Tail(call.todo)
                    /\ next.kind = call.kind /\ next.player = call.player
                    /\ next.name = call.name /\ next.secret = call.secret
                    /\ next.seen = call.seen /\ next.link = call.link
                    /\ next.again = call.again /\ ~next.working
<1>1. CASE Len(call.todo) = 1
  BY <1>1 DEF Onward, Idle, Running
<1>2. CASE Len(call.todo) # 1
  <2>1. PICK next : next = [call EXCEPT !.todo = Tail(@), !.working = FALSE]
    OBVIOUS
  <2>2. Tail(call.todo) \in UNION {Suffixes(Steps[kind]) : kind \in DOMAIN Steps}
    BY <1>2, Zenon DEF Calls
  <2>3. /\ next.todo = Tail(call.todo)
        /\ next.kind = call.kind /\ next.player = call.player
        /\ next.name = call.name /\ next.secret = call.secret
        /\ next.seen = call.seen /\ next.link = call.link
        /\ next.again = call.again /\ next.working = FALSE
        /\ next \in Calls
    BY <2>1, <2>2 DEF Calls
  <2> QED
    BY <1>2, <2>1, <2>3 DEF Onward, Running
<1> QED
  BY <1>1, <1>2

\* The sessions that were current stay so, when the passwords they were opened
\* with are not replaced, and the call that moves is not one between a new
\* password and the end of the sessions.
LEMMA KeysStay ==
    ASSUME IInv, NEW c \in Callers, NEW next,
           calls' = [calls EXCEPT ![c] = next],
           calls[c] # Idle => ~Replacing(calls[c]),
           halfway' = halfway,
           \A s \in sessions' :
              \/ s \in sessions /\ password'[s.player] = password[s.player]
              \/ s.late \/ s.password = password'[s.player]
    PROVE  KeysAreCurrent'
<1>1. ASSUME NEW d \in Callers, calls[d] # Idle, Replacing(calls[d])
      PROVE  calls'[d] = calls[d]
  BY <1>1 DEF IInv, TypeOK
<1>2. ASSUME NEW s \in sessions'
      PROVE  \/ s.password = password'[s.player]
             \/ s.late
             \/ s.player \in halfway'
             \/ \E d \in Callers :
                  calls'[d] # Idle /\ calls'[d].player = s.player /\ Replacing(calls'[d])
  <2>1. \/ s \in sessions /\ password'[s.player] = password[s.player]
        \/ s.late \/ s.password = password'[s.player]
    BY <1>2
  <2>2. CASE \E d \in Callers :
               calls[d] # Idle /\ calls[d].player = s.player /\ Replacing(calls[d])
    BY <1>1, <2>2
  <2>3. CASE ~ \E d \in Callers :
               calls[d] # Idle /\ calls[d].player = s.player /\ Replacing(calls[d])
    BY <2>1, <2>3 DEF IInv, KeysAreCurrent
  <2> QED
    BY <2>2, <2>3
<1> QED
  BY <1>2 DEF KeysAreCurrent, Replacing

\* Steps that leave the rows alone leave what is said of the rows alone.
LEMMA RowsStay ==
    ASSUME UNCHANGED <<rows, history>>, IInv
    PROVE  /\ Forward /\ AccountsHavePasswords' /\ SessionsHaveAccounts'
           /\ LinksHaveAccounts' /\ AnsweredIsSpent'
           /\ \A t \in Links : links'[t].consumed => used'[t] # "no"
  BY DEF rows, history, IInv, Forward, AccountsHavePasswords, SessionsHaveAccounts,
         LinksHaveAccounts, AnsweredIsSpent, Accounts, Spent, LinkIsSpentByItsReset

\* A step of one call that leaves the rows alone.
LEMMA QuietStep ==
    ASSUME IInv, NEW c \in Callers, NEW next,
           calls' = [calls EXCEPT ![c] = next],
           UNCHANGED <<rows, history>>,
           calls[c] # Idle => ~Replacing(calls[c]),
           next = Idle \/ (next \in Calls /\ InOrder(next) /\ ~next.again),
           free' \in Nat, orphans' \in Nat,
           free' + orphans' + One(Running(next)) = free + orphans + One(Working(c))
    PROVE  IInv'
<1>1. /\ Forward /\ AccountsHavePasswords' /\ SessionsHaveAccounts'
      /\ LinksHaveAccounts' /\ AnsweredIsSpent'
      /\ \A t \in Links : links'[t].consumed => used'[t] # "no"
  BY RowsStay
<1>2. next \in Calls /\ InOrder(next) => InOrder(next)'
  BY <1>1, ForwardKeepsOrder DEF InOrder
<1>3. /\ calls' \in [Callers -> Calls \cup {Idle}] /\ CallsAreInOrder'
      /\ \A d \in Callers : calls'[d] # Idle => ~calls'[d].again
  BY <1>1, <1>2, OneCallGoesOn
<1>4. HashingIsBounded' /\ free' \in 0 .. Permits /\ orphans' \in 0 .. Permits
  BY PermitsMove
<1>5. KeysAreCurrent'
  BY KeysStay DEF rows, history
<1>6. TypeOK'
  BY <1>3, <1>4 DEF IInv, TypeOK, rows, history, Calls
<1> QED
  BY <1>1, <1>3, <1>4, <1>5, <1>6 DEF IInv, LinkIsSpentByItsReset

-----------------------------------------------------------------------------
(* The handlers up to their first await.                                   *)

\* A new call has its whole plan before it, and holds no permit.
Fresh(call, kind) ==
    /\ call.todo = Steps[kind] /\ call.kind = kind
    /\ call.todo \in Suffixes(Steps[kind]) \ {<< >>}
    /\ call.working = FALSE /\ call.again = FALSE

LEMMA NewCalls ==
    ASSUME NEW kind \in DOMAIN Steps
    PROVE  NewCall(kind) \in Calls /\ Fresh(NewCall(kind), kind) /\ NewCall(kind).seen = None
<1>1. Steps[kind] \in UNION {Suffixes(Steps[k]) : k \in DOMAIN Steps}
  BY WholePlan, Zenon
<1> QED
  BY <1>1, WholePlan DEF NewCall, Calls, Fresh

LEMMA BeginsInOrder ==
    ASSUME IInv, NEW c \in Callers, NEW call \in Calls,
           Begins(c, call), UNCHANGED <<rows, free, orphans, history>>,
           InOrder(call), ~call.again, ~call.working
    PROVE  IInv'
<1>1. calls[c] = Idle /\ calls' = [calls EXCEPT ![c] = call]
  BY DEF Begins
<1>2. ~Working(c) /\ ~Running(call)
  BY <1>1 DEF Working, Running
<1>3. free' \in Nat /\ orphans' \in Nat
      /\ free' + orphans' + One(Running(call)) = free + orphans + One(Working(c))
  BY <1>2 DEF IInv, TypeOK, One
<1> QED
  BY <1>1, <1>3, QuietStep

LEMMA RegisterKeeps ==
    ASSUME IInv, NEW c \in Callers, Register(c) PROVE IInv'
<1>1. PICK n \in Names, s \in Passwords :
         Begins(c, [NewCall("register") EXCEPT !.name = n, !.secret = s])
  BY DEF Register
<1>2. n \in Names /\ s \in Passwords
  OBVIOUS
<1>3. PICK plan : plan = NewCall("register") /\ plan \in Calls /\ Fresh(plan, "register")
  BY NewCalls, StepsByKind
<1>4. PICK call : call = [plan EXCEPT !.name = n, !.secret = s]
  OBVIOUS
<1>5. /\ call \in Calls /\ call.kind = plan.kind /\ call.todo = plan.todo
      /\ call.working = plan.working /\ call.again = plan.again
      /\ call.name = n /\ call.secret = s
  BY <1>2, <1>3, <1>4 DEF Calls
<1>6. Fresh(call, "register")
  BY <1>2, <1>3, <1>5, Zenon DEF Fresh
<1>7. Head(call.todo) = "hash"
  BY <1>6, FirstSteps, Zenon DEF Fresh
<1>8. InOrder(call)
  BY <1>2, <1>5, <1>6, <1>7 DEF InOrder, Fresh
<1> QED
  BY <1>1, <1>3, <1>4, <1>5, <1>6, <1>8, BeginsInOrder DEF Register, Fresh

LEMMA LoginKeeps ==
    ASSUME IInv, NEW c \in Callers, Login(c) PROVE IInv'
<1>1. PICK plan : /\ plan = NewCall("login") /\ plan \in Calls
                  /\ Fresh(plan, "login") /\ plan.seen = None
  BY NewCalls, StepsByKind
<1>2. ASSUME NEW call \in Calls, Begins(c, call), Fresh(call, "login"),
             Identified(call) \/ call.seen = None
      PROVE  IInv'
  <2>1. Head(call.todo) = "verify"
    BY <1>2, FirstSteps, Zenon DEF Fresh
  <2>2. InOrder(call)
    BY <1>2, <2>1 DEF InOrder, Fresh
  <2> QED
    BY <1>2, <2>2, BeginsInOrder DEF Login, Fresh
<1>3. CASE Begins(c, NewCall("login"))
  BY <1>1, <1>2, <1>3
<1>4. ASSUME NEW p \in Accounts,
             Begins(c, [NewCall("login") EXCEPT !.player = p, !.seen = password[p]])
      PROVE  IInv'
  <2>1. PICK call : call = [plan EXCEPT !.player = p, !.seen = password[p]]
    OBVIOUS
  <2>2. p \in Ids /\ password[p] \in Passwords
    BY DEF IInv, AccountsHavePasswords, Accounts
  <2>3. /\ call \in Calls /\ call.kind = plan.kind /\ call.todo = plan.todo
        /\ call.working = plan.working /\ call.again = plan.again
        /\ call.player = p /\ call.seen = password[p]
    BY <1>1, <2>1, <2>2 DEF Calls
  <2>4. Fresh(call, "login")
    BY <1>1, <2>3, Zenon DEF Fresh
  <2>5. Identified(call)
    BY <2>2, <2>3 DEF Identified
  <2> QED
    BY <1>1, <1>2, <1>4, <2>1, <2>3, <2>4, <2>5
<1> QED
  BY <1>3, <1>4 DEF Login

LEMMA ChangePasswordKeeps ==
    ASSUME IInv, NEW c \in Callers, ChangePassword(c) PROVE IInv'
<1>1. PICK s \in sessions, w \in Passwords :
         Begins(c, [NewCall("change") EXCEPT !.player = s.player, !.secret = w])
  BY DEF ChangePassword
<1>2. s.player \in Accounts /\ s.player \in Ids
  BY DEF IInv, SessionsHaveAccounts, Accounts
<1>3. PICK plan : plan = NewCall("change") /\ plan \in Calls /\ Fresh(plan, "change")
  BY NewCalls, StepsByKind
<1>4. PICK call : call = [plan EXCEPT !.player = s.player, !.secret = w]
  OBVIOUS
<1>5. /\ call \in Calls /\ call.kind = plan.kind /\ call.todo = plan.todo
      /\ call.working = plan.working /\ call.again = plan.again
      /\ call.player = s.player /\ call.secret = w
  BY <1>2, <1>3, <1>4 DEF Calls
<1>6. Fresh(call, "change")
  BY <1>2, <1>3, <1>5, Zenon DEF Fresh
<1>7. Head(call.todo) = "find"
  BY <1>6, FirstSteps, Zenon DEF Fresh
<1>8. InOrder(call)
  BY <1>2, <1>5, <1>6, <1>7 DEF InOrder, Fresh
<1> QED
  BY <1>1, <1>3, <1>4, <1>5, <1>6, <1>8, BeginsInOrder DEF ChangePassword, Fresh

LEMMA UpdateDetailsKeeps ==
    ASSUME IInv, NEW c \in Callers, UpdateDetails(c) PROVE IInv'
<1>1. PICK s \in sessions, n \in Names :
         Begins(c, [NewCall("rename") EXCEPT !.player = s.player, !.name = n])
  BY DEF UpdateDetails
<1>2. s.player \in Accounts /\ s.player \in Ids
  BY DEF IInv, SessionsHaveAccounts, Accounts
<1>3. PICK plan : plan = NewCall("rename") /\ plan \in Calls /\ Fresh(plan, "rename")
  BY NewCalls, StepsByKind
<1>4. PICK call : call = [plan EXCEPT !.player = s.player, !.name = n]
  OBVIOUS
<1>5. /\ call \in Calls /\ call.kind = plan.kind /\ call.todo = plan.todo
      /\ call.working = plan.working /\ call.again = plan.again
      /\ call.player = s.player /\ call.name = n
  BY <1>2, <1>3, <1>4 DEF Calls
<1>6. Fresh(call, "rename")
  BY <1>2, <1>3, <1>5, Zenon DEF Fresh
<1>7. Head(call.todo) = "look"
  BY <1>6, FirstSteps, Zenon DEF Fresh
<1>8. InOrder(call)
  BY <1>2, <1>5, <1>6, <1>7 DEF InOrder, Fresh
<1> QED
  BY <1>1, <1>3, <1>4, <1>5, <1>6, <1>8, BeginsInOrder DEF UpdateDetails, Fresh

LEMMA RequestResetKeeps ==
    ASSUME IInv, NEW c \in Callers, RequestReset(c) PROVE IInv'
<1>1. PICK p \in Accounts :
         Begins(c, [NewCall("forgot") EXCEPT !.player = p])
  BY DEF RequestReset
<1>2. p \in Accounts /\ p \in Ids
  BY DEF Accounts
<1>3. PICK plan : plan = NewCall("forgot") /\ plan \in Calls /\ Fresh(plan, "forgot")
  BY NewCalls, StepsByKind
<1>4. PICK call : call = [plan EXCEPT !.player = p]
  OBVIOUS
<1>5. /\ call \in Calls /\ call.kind = plan.kind /\ call.todo = plan.todo
      /\ call.working = plan.working /\ call.again = plan.again
      /\ call.player = p
  BY <1>2, <1>3, <1>4 DEF Calls
<1>6. Fresh(call, "forgot")
  BY <1>2, <1>3, <1>5, Zenon DEF Fresh
<1>7. Head(call.todo) = "clear"
  BY <1>6, FirstSteps, Zenon DEF Fresh
<1>8. InOrder(call)
  BY <1>2, <1>5, <1>6, <1>7 DEF InOrder, Fresh
<1> QED
  BY <1>1, <1>3, <1>4, <1>5, <1>6, <1>8, BeginsInOrder DEF RequestReset, Fresh

\* A link that is good has not been answered, so no reset begins again with it.
LEMMA ResetPasswordKeeps ==
    ASSUME IInv, NEW c \in Callers, ResetPassword(c) PROVE IInv'
<1>1. PICK t \in Links, w \in Passwords :
         /\ Good(links[t])
         /\ Begins(c, [NewCall("reset") EXCEPT !.player = links[t].player, !.link = t,
                   !.secret = w, !.again = used[t] = "answered"])
  BY DEF ResetPassword
<1>2. used[t] # "answered" /\ links[t].player \in Accounts /\ links[t].player \in Ids
  BY <1>1 DEF Good, IInv, AnsweredIsSpent, Spent, LinksHaveAccounts, Accounts
<1>3. PICK plan : plan = NewCall("reset") /\ plan \in Calls /\ Fresh(plan, "reset")
  BY NewCalls, StepsByKind
<1>4. PICK call : call = [plan EXCEPT !.player = links[t].player, !.link = t,
                   !.secret = w, !.again = used[t] = "answered"]
  OBVIOUS
<1>5. /\ call \in Calls /\ call.kind = plan.kind /\ call.todo = plan.todo
      /\ call.working = plan.working /\ call.again = (used[t] = "answered")
      /\ call.player = links[t].player /\ call.link = t /\ call.secret = w
  BY <1>2, <1>3, <1>4 DEF Calls
<1>6. Fresh(call, "reset")
  BY <1>2, <1>3, <1>5, Zenon DEF Fresh
<1>7. Head(call.todo) = "hash"
  BY <1>6, FirstSteps, Zenon DEF Fresh
<1>8. InOrder(call)
  BY <1>2, <1>5, <1>6, <1>7 DEF InOrder, Fresh
<1> QED
  BY <1>1, <1>3, <1>4, <1>5, <1>6, <1>8, BeginsInOrder DEF ResetPassword, Fresh

LEMMA AdminSignOutKeeps ==
    ASSUME IInv, NEW c \in Callers, AdminSignOut(c) PROVE IInv'
<1>1. PICK p \in Accounts :
         Begins(c, [NewCall("signout") EXCEPT !.player = p])
  BY DEF AdminSignOut
<1>2. p \in Accounts /\ p \in Ids
  BY DEF Accounts
<1>3. PICK plan : plan = NewCall("signout") /\ plan \in Calls /\ Fresh(plan, "signout")
  BY NewCalls, StepsByKind
<1>4. PICK call : call = [plan EXCEPT !.player = p]
  OBVIOUS
<1>5. /\ call \in Calls /\ call.kind = plan.kind /\ call.todo = plan.todo
      /\ call.working = plan.working /\ call.again = plan.again
      /\ call.player = p
  BY <1>2, <1>3, <1>4 DEF Calls
<1>6. Fresh(call, "signout")
  BY <1>2, <1>3, <1>5, Zenon DEF Fresh
<1>7. Head(call.todo) = "revoke"
  BY <1>6, FirstSteps, Zenon DEF Fresh
<1>8. InOrder(call)
  BY <1>2, <1>5, <1>6, <1>7 DEF InOrder, Fresh
<1> QED
  BY <1>1, <1>3, <1>4, <1>5, <1>6, <1>8, BeginsInOrder DEF AdminSignOut, Fresh

LEMMA AdminResetPasswordKeeps ==
    ASSUME IInv, NEW c \in Callers, AdminResetPassword(c) PROVE IInv'
<1>1. PICK p \in Accounts, w \in Passwords :
         Begins(c, [NewCall("assist") EXCEPT !.player = p, !.secret = w])
  BY DEF AdminResetPassword
<1>2. p \in Accounts /\ p \in Ids
  BY DEF Accounts
<1>3. PICK plan : plan = NewCall("assist") /\ plan \in Calls /\ Fresh(plan, "assist")
  BY NewCalls, StepsByKind
<1>4. PICK call : call = [plan EXCEPT !.player = p, !.secret = w]
  OBVIOUS
<1>5. /\ call \in Calls /\ call.kind = plan.kind /\ call.todo = plan.todo
      /\ call.working = plan.working /\ call.again = plan.again
      /\ call.player = p /\ call.secret = w
  BY <1>2, <1>3, <1>4 DEF Calls
<1>6. Fresh(call, "assist")
  BY <1>2, <1>3, <1>5, Zenon DEF Fresh
<1>7. Head(call.todo) = "hash"
  BY <1>6, FirstSteps, Zenon DEF Fresh
<1>8. InOrder(call)
  BY <1>2, <1>5, <1>6, <1>7 DEF InOrder, Fresh
<1> QED
  BY <1>1, <1>3, <1>4, <1>5, <1>6, <1>8, BeginsInOrder DEF AdminResetPassword, Fresh

-----------------------------------------------------------------------------
(* Password work.                                                          *)

LEMMA CallAt ==
    ASSUME IInv, NEW c \in Callers, NEW step, At(c, step)
    PROVE  \E call \in Calls :
              /\ call = calls[c] /\ call # Idle /\ Head(call.todo) = step
              /\ InOrder(call) /\ ~call.again /\ FollowsItsPlan(call.kind, call.todo)
              /\ step \notin {"hash", "verify"} => ~Running(call)
              /\ Working(c) <=> Running(call)
              /\ Replacing(call) <=> /\ call.kind \in {"change", "reset"}
                                     /\ step \in {"consume", "revoke"}
<1>1. PICK call \in Calls :
         /\ call = calls[c] /\ call # Idle /\ Head(call.todo) = step
         /\ InOrder(call) /\ ~call.again /\ FollowsItsPlan(call.kind, call.todo)
  BY CallUnderWay DEF At
<1>2. step \notin {"hash", "verify"} => ~Running(call)
  BY <1>1, Zenon DEF InOrder, Running
<1>3. Working(c) <=> Running(call)
  BY <1>1, Zenon DEF Working, Running
<1>4. Replacing(call) <=> /\ call.kind \in {"change", "reset"}
                          /\ step \in {"consume", "revoke"}
  <2>1. call.kind \in {"change", "reset"} =>
           /\ Contains(call.todo, "revoke")
           /\ Contains(call.todo, "store") <=> step \notin {"consume", "revoke"}
    BY <1>1, Zenon DEF FollowsItsPlan
  <2> QED
    BY <2>1, Zenon DEF Replacing
<1> QED
  BY <1>1, <1>2, <1>3, <1>4

LEMMA AcquireKeeps ==
    ASSUME IInv, NEW c \in Callers, Acquire(c) PROVE IInv'
<1>1. PICK step \in {"hash", "verify"} : At(c, step)
  BY DEF Acquire, Hashes
<1>2. PICK call \in Calls :
         /\ call = calls[c] /\ call # Idle /\ Head(call.todo) = step
         /\ InOrder(call) /\ ~call.again /\ ~Running(call) /\ ~Replacing(call)
  BY <1>1, CallAt DEF Acquire
<1>3. PICK next : next = [call EXCEPT !.working = TRUE]
  OBVIOUS
<1>4. /\ next \in Calls /\ next.todo = call.todo /\ next.kind = call.kind
      /\ next.working = TRUE /\ next.again = call.again /\ next.player = call.player
      /\ next.name = call.name /\ next.secret = call.secret /\ next.seen = call.seen
      /\ next.link = call.link
  BY <1>3 DEF Calls
<1>5. InOrder(next)
  BY <1>1, <1>2, <1>4 DEF InOrder, Identified
<1>6. next # Idle
  BY <1>4, StepsByKind DEF Calls, Idle
<1>7. calls' = [calls EXCEPT ![c] = next]
  BY <1>2, <1>3 DEF Acquire
<1>8. free' \in Nat /\ orphans' \in Nat
      /\ free' + orphans' + One(Running(next)) = free + orphans + One(Working(c))
  BY <1>4, <1>6 DEF Acquire, IInv, TypeOK, One, Running
<1> QED
  BY <1>2, <1>4, <1>5, <1>7, <1>8, QuietStep DEF Acquire

LEMMA BusyKeeps ==
    ASSUME IInv, NEW c \in Callers, Busy(c) PROVE IInv'
<1>1. PICK step \in {"hash", "verify"} : At(c, step)
  BY DEF Busy, Hashes
<1>2. ~Replacing(calls[c])
  BY <1>1, CallAt
<1>3. free' \in Nat /\ orphans' \in Nat
      /\ free' + orphans' + One(Running(Idle)) = free + orphans + One(Working(c))
  BY DEF Busy, IInv, TypeOK, One, Running
<1>4. calls' = [calls EXCEPT ![c] = Idle]
  BY DEF Busy, Refused
<1> QED
  BY <1>2, <1>3, <1>4, QuietStep DEF Busy

LEMMA HashKeeps ==
    ASSUME IInv, NEW c \in Callers, Hash(c) PROVE IInv'
<1>1. PICK call \in Calls :
         /\ call = calls[c] /\ call # Idle /\ Head(call.todo) = "hash"
         /\ InOrder(call) /\ ~call.again /\ FollowsItsPlan(call.kind, call.todo)
         /\ ~Replacing(call)
  BY CallAt DEF Hash
<1>2. /\ call.kind \in {"register", "change", "reset", "assist"} /\ Len(call.todo) # 1
      /\ Head(Tail(call.todo)) = IF call.kind = "register" THEN "insert" ELSE "store"
      /\ Tail(call.todo) \in Suffixes(Steps[call.kind]) \ {<< >>}
  BY <1>1, Zenon DEF FollowsItsPlan
<1>3. PICK next \in Calls :
         /\ calls' = [calls EXCEPT ![c] = next] /\ ~Running(next)
         /\ next.todo = Tail(call.todo) /\ next.kind = call.kind
         /\ next.player = call.player /\ next.name = call.name
         /\ next.secret = call.secret /\ next.link = call.link
         /\ next.again = call.again /\ ~next.working
  BY <1>1, <1>2, GoingOn DEF Hash, Proceeds
<1>4. InOrder(next)
  BY <1>1, <1>2, <1>3 DEF InOrder
<1>5. free' \in Nat /\ orphans' \in Nat
      /\ free' + orphans' + One(Running(next)) = free + orphans + One(Working(c))
  BY <1>3 DEF Hash, IInv, TypeOK, One
<1> QED
  BY <1>1, <1>3, <1>4, <1>5, QuietStep DEF Hash

LEMMA VerifyKeeps ==
    ASSUME IInv, NEW c \in Callers, Verify(c) PROVE IInv'
<1>1. PICK call \in Calls :
         /\ call = calls[c] /\ call # Idle /\ Head(call.todo) = "verify"
         /\ InOrder(call) /\ ~call.again /\ FollowsItsPlan(call.kind, call.todo)
         /\ ~Replacing(call)
  BY CallAt DEF Verify
<1>2. /\ call.kind \in {"login", "change"} /\ Len(call.todo) # 1
      /\ Head(Tail(call.todo)) = IF call.kind = "login" THEN "open" ELSE "hash"
      /\ Tail(call.todo) \in Suffixes(Steps[call.kind]) \ {<< >>}
  BY <1>1, Zenon DEF FollowsItsPlan
<1>3. ASSUME NEW next, ~Running(next)
      PROVE  free' \in Nat /\ orphans' \in Nat
             /\ free' + orphans' + One(Running(next)) = free + orphans + One(Working(c))
  BY <1>3 DEF Verify, IInv, TypeOK, One
<1>4. CASE Refused(c)
  <2>1. ~Running(Idle) /\ calls' = [calls EXCEPT ![c] = Idle]
    BY <1>4 DEF Running, Refused
  <2> QED
    BY <1>1, <1>3, <2>1, QuietStep DEF Verify
<1>5. ASSUME NEW tried \in Passwords, calls[c].seen = tried,
             Onward(c, [calls[c] EXCEPT !.seen = IF calls[c].kind = "login" THEN @ ELSE None])
      PROVE  IInv'
  <2>1. PICK known : known = [call EXCEPT !.seen = IF call.kind = "login" THEN @ ELSE None]
    OBVIOUS
  <2>2. /\ known \in Calls /\ known.todo = call.todo /\ known.kind = call.kind
        /\ known.again = call.again /\ known.player = call.player
        /\ known.secret = call.secret
        /\ known.kind = "login" => known.seen = call.seen
    BY <1>1, <2>1 DEF Calls
  <2>3. PICK next \in Calls :
           /\ calls' = [calls EXCEPT ![c] = next] /\ ~Running(next)
           /\ next.todo = Tail(call.todo) /\ next.kind = call.kind
           /\ next.player = call.player /\ next.secret = call.secret
           /\ next.kind = "login" => next.seen = call.seen
           /\ next.again = call.again /\ ~next.working
    <3>1. Onward(c, known)
      BY <1>1, <1>5, <2>1
    <3>2. /\ known \in Calls /\ Len(known.todo) # 1
          /\ Tail(known.todo) \in Suffixes(Steps[known.kind])
      BY <1>2, <2>2
    <3>3. PICK next \in Calls :
             /\ calls' = [calls EXCEPT ![c] = next] /\ ~Running(next)
             /\ next.todo = Tail(known.todo) /\ next.kind = known.kind
             /\ next.player = known.player /\ next.secret = known.secret
             /\ next.seen = known.seen /\ next.again = known.again /\ ~next.working
      BY <3>1, <3>2, GoingOn
    <3> QED
      BY <2>2, <3>3, Zenon
  <2>4. call.seen # None
    BY <1>1, <1>5, AccountsAssumption
  <2>5. InOrder(next)
    BY <1>1, <1>2, <2>3, <2>4 DEF InOrder, Identified
  <2> QED
    BY <1>1, <1>3, <2>3, <2>5, QuietStep DEF Verify
<1> QED
  BY <1>4, <1>5 DEF Verify

-----------------------------------------------------------------------------
(* The statements.                                                         *)

\* What is said of the rows alone.
RowsTyped ==
    /\ name \in [Ids -> Names \cup {None}] /\ password \in [Ids -> Passwords \cup {None}]
    /\ sessions \subseteq [player : Ids, password : Passwords, late : BOOLEAN]
    /\ links \in [Links -> [player : Ids \cup {None}, expired : BOOLEAN, consumed : BOOLEAN]]
    /\ halfway \subseteq Ids /\ used \in [Links -> {"no", "stored", "answered"}]
RowsInOrder ==
    /\ RowsTyped
    /\ AccountsHavePasswords /\ SessionsHaveAccounts /\ LinksHaveAccounts
    /\ AnsweredIsSpent
    /\ \A t \in Links : links[t].consumed => used[t] # "no"

\* A step of one call that is not hashing.
LEMMA StatementKeeps ==
    ASSUME IInv, NEW c \in Callers, NEW next,
           calls' = [calls EXCEPT ![c] = next],
           ~Working(c), ~Running(next), UNCHANGED <<free, orphans>>,
           next = Idle \/ (next \in Calls /\ InOrder(next)' /\ ~next.again),
           Forward, RowsInOrder', KeysAreCurrent'
    PROVE  IInv'
<1>1. /\ calls' \in [Callers -> Calls \cup {Idle}] /\ CallsAreInOrder'
      /\ \A d \in Callers : calls'[d] # Idle => ~calls'[d].again
  BY OneCallGoesOn
<1>2. free' \in Nat /\ orphans' \in Nat
      /\ free' + orphans' + One(Running(next)) = free + orphans + One(Working(c))
  BY DEF IInv, TypeOK, One
<1>3. HashingIsBounded' /\ free' \in 0 .. Permits /\ orphans' \in 0 .. Permits
  BY <1>2, PermitsMove
<1> QED
  BY <1>1, <1>3 DEF IInv, TypeOK, RowsInOrder, RowsTyped, LinkIsSpentByItsReset

LEMMA RowsAreInOrder == ASSUME IInv PROVE RowsInOrder
  BY DEF IInv, TypeOK, RowsInOrder, RowsTyped, LinkIsSpentByItsReset

LEMMA FindKeeps ==
    ASSUME IInv, NEW c \in Callers, Find(c) PROVE IInv'
<1>1. PICK call \in Calls :
         /\ call = calls[c] /\ call # Idle /\ Head(call.todo) = "find"
         /\ InOrder(call) /\ ~call.again /\ FollowsItsPlan(call.kind, call.todo)
         /\ ~Working(c) /\ ~Replacing(call)
  BY CallAt DEF Find
<1>2. /\ call.kind = "change" /\ Len(call.todo) # 1 /\ Head(Tail(call.todo)) = "verify"
      /\ Tail(call.todo) \in Suffixes(Steps[call.kind]) \ {<< >>}
  BY <1>1, Zenon DEF FollowsItsPlan
<1>3. call.player \in Accounts /\ password[call.player] \in Passwords
  BY <1>1, <1>2 DEF InOrder, IInv, AccountsHavePasswords
<1>4. PICK known : known = [call EXCEPT !.seen = password[call.player]]
  OBVIOUS
<1>5. /\ known \in Calls /\ known.todo = call.todo /\ known.kind = call.kind
      /\ known.again = call.again /\ known.player = call.player
      /\ known.secret = call.secret
  BY <1>1, <1>3, <1>4 DEF Calls
<1>6. Onward(c, known) /\ Len(known.todo) # 1 /\ Tail(known.todo) \in Suffixes(Steps[known.kind])
  BY <1>1, <1>2, <1>4, <1>5 DEF Find
<1>7. PICK next \in Calls :
         /\ calls' = [calls EXCEPT ![c] = next] /\ ~Running(next)
         /\ next.todo = Tail(known.todo) /\ next.kind = known.kind
         /\ next.player = known.player /\ next.secret = known.secret
         /\ next.again = known.again /\ ~next.working
  BY <1>5, <1>6, GoingOn
<1>8. InOrder(next)
  BY <1>1, <1>2, <1>3, <1>5, <1>7 DEF InOrder
<1>9. free' \in Nat /\ orphans' \in Nat
      /\ free' + orphans' + One(Running(next)) = free + orphans + One(Working(c))
  BY <1>1, <1>7 DEF Find, Keep, IInv, TypeOK, One
<1> QED
  BY <1>1, <1>5, <1>7, <1>8, <1>9, QuietStep DEF Find

LEMMA LookKeeps ==
    ASSUME IInv, NEW c \in Callers, Look(c) PROVE IInv'
<1>1. PICK call \in Calls :
         /\ call = calls[c] /\ call # Idle /\ Head(call.todo) = "look"
         /\ InOrder(call) /\ ~call.again /\ FollowsItsPlan(call.kind, call.todo)
         /\ ~Working(c) /\ ~Replacing(call)
  BY CallAt DEF Look
<1>2. /\ call.kind = "rename" /\ Len(call.todo) # 1 /\ Head(Tail(call.todo)) = "rename"
      /\ Tail(call.todo) \in Suffixes(Steps[call.kind]) \ {<< >>}
  BY <1>1, Zenon DEF FollowsItsPlan
<1>3. ASSUME NEW next, ~Running(next)
      PROVE  free' \in Nat /\ orphans' \in Nat
             /\ free' + orphans' + One(Running(next)) = free + orphans + One(Working(c))
  BY <1>1, <1>3 DEF Look, Keep, IInv, TypeOK, One
<1>4. CASE Refused(c)
  <2>1. ~Running(Idle) /\ calls' = [calls EXCEPT ![c] = Idle]
    BY <1>4 DEF Running, Refused
  <2> QED
    BY <1>1, <1>3, <2>1, QuietStep DEF Look
<1>5. CASE Proceeds(c)
  <2>1. PICK next \in Calls :
           /\ calls' = [calls EXCEPT ![c] = next] /\ ~Running(next)
           /\ next.todo = Tail(call.todo) /\ next.kind = call.kind
           /\ next.player = call.player /\ next.name = call.name
           /\ next.again = call.again /\ ~next.working
    BY <1>1, <1>2, <1>5, GoingOn, ZenonT(40) DEF Proceeds
  <2>2. InOrder(next)
    BY <1>1, <1>2, <2>1 DEF InOrder
  <2> QED
    BY <1>1, <1>3, <2>1, <2>2, QuietStep DEF Look
<1> QED
  BY <1>4, <1>5 DEF Look

LEMMA InsertKeeps ==
    ASSUME IInv, NEW c \in Callers, Insert(c) PROVE IInv'
<1>1. PICK call \in Calls :
         /\ call = calls[c] /\ call # Idle /\ Head(call.todo) = "insert"
         /\ InOrder(call) /\ ~call.again /\ FollowsItsPlan(call.kind, call.todo)
         /\ ~Working(c) /\ ~Replacing(call)
  BY CallAt DEF Insert
<1>2. /\ call.kind = "register" /\ Len(call.todo) # 1 /\ Head(Tail(call.todo)) = "open"
      /\ Tail(call.todo) \in Suffixes(Steps[call.kind]) \ {<< >>}
  BY <1>1, Zenon DEF FollowsItsPlan
<1>3. call.name \in Names /\ call.secret \in Passwords
  BY <1>1, <1>2 DEF InOrder
<1>4. CASE Refused(c) /\ UNCHANGED <<name, password>>
  <2>1. ~Running(Idle) /\ calls' = [calls EXCEPT ![c] = Idle]
    BY <1>4 DEF Running, Refused
  <2>2. UNCHANGED <<rows, history>>
    BY <1>4 DEF Insert, rows, history
  <2>3. free' \in Nat /\ orphans' \in Nat
        /\ free' + orphans' + One(Running(Idle)) = free + orphans + One(Working(c))
    BY <1>1, <2>1 DEF Insert, Keep, IInv, TypeOK, One
  <2> QED
    BY <1>1, <2>1, <2>2, <2>3, QuietStep
<1>5. ASSUME NEW p \in Ids \ Accounts,
             name' = [name EXCEPT ![p] = call.name],
             password' = [password EXCEPT ![p] = call.secret],
             Onward(c, [call EXCEPT !.player = p, !.name = None, !.secret = None,
                                    !.seen = call.secret])
      PROVE  IInv'
  <2>1. PICK known : known = [call EXCEPT !.player = p, !.name = None, !.secret = None,
                                          !.seen = call.secret]
    OBVIOUS
  <2>2. /\ known \in Calls /\ known.todo = call.todo /\ known.kind = call.kind
        /\ known.again = call.again /\ known.player = p /\ known.seen = call.secret
    BY <1>3, <2>1 DEF Calls
  <2>3. Onward(c, known) /\ Len(known.todo) # 1
        /\ Tail(known.todo) \in Suffixes(Steps[known.kind])
    BY <1>2, <1>5, <2>1, <2>2
  <2>4. PICK next \in Calls :
           /\ calls' = [calls EXCEPT ![c] = next] /\ ~Running(next)
           /\ next.todo = Tail(known.todo) /\ next.kind = known.kind
           /\ next.player = known.player /\ next.seen = known.seen
           /\ next.again = known.again /\ ~next.working
    BY <2>2, <2>3, GoingOn
  <2>5. /\ name \in [Ids -> Names \cup {None}] /\ password \in [Ids -> Passwords \cup {None}]
        /\ None \notin Names /\ name[p] = None
    BY AccountsAssumption DEF IInv, TypeOK, Accounts
  <2>6. Accounts' = Accounts \cup {p}
    BY <1>3, <1>5, <2>5 DEF Accounts
  <2>7. UNCHANGED <<sessions, links, history>>
    BY DEF Insert
  <2>8. Forward
    BY <2>6, <2>7 DEF Forward, Spent, history
  <2>9. InOrder(next)'
    BY <1>2, <1>3, <2>2, <2>4, <2>6 DEF InOrder, Identified
  <2>10. AccountsHavePasswords'
    BY <1>3, <1>5, <2>5, <2>6 DEF IInv, AccountsHavePasswords, Accounts
  <2>11. RowsInOrder'
    BY <1>3, <1>5, <2>5, <2>6, <2>7, <2>10, RowsAreInOrder
    DEF RowsInOrder, RowsTyped, SessionsHaveAccounts, LinksHaveAccounts, AnsweredIsSpent,
        Spent, history
  <2>12. \A s \in sessions' : s \in sessions /\ password'[s.player] = password[s.player]
    BY <1>5, <2>5, <2>7 DEF IInv, SessionsHaveAccounts, Accounts
  <2>13. KeysAreCurrent'
    BY <1>1, <2>4, <2>7, <2>12, KeysStay DEF history
  <2> QED
    BY <1>1, <2>2, <2>4, <2>8, <2>9, <2>11, <2>13, StatementKeeps DEF Insert, Keep
<1> QED
  BY <1>1, <1>4, <1>5 DEF Insert

LEMMA OpenKeeps ==
    ASSUME IInv, NEW c \in Callers, Open(c) PROVE IInv'
<1>1. PICK call \in Calls :
         /\ call = calls[c] /\ call # Idle /\ Head(call.todo) = "open"
         /\ InOrder(call) /\ ~call.again /\ FollowsItsPlan(call.kind, call.todo)
         /\ ~Working(c) /\ ~Replacing(call)
  BY CallAt DEF Open
<1>2. call.kind \in {"register", "login"} /\ Len(call.todo) = 1
  BY <1>1, Zenon DEF FollowsItsPlan
<1>3. call.player \in Accounts /\ call.player \in Ids /\ call.seen \in Passwords
  BY <1>1, <1>2 DEF InOrder, Identified, Accounts
<1>4. calls' = [calls EXCEPT ![c] = Idle] /\ ~Running(Idle)
  <2>1. PICK next : calls' = [calls EXCEPT ![c] = next] /\ next = Idle /\ ~Running(next)
    BY <1>1, <1>2, GoingOn DEF Open, Proceeds
  <2> QED
    BY <2>1
<1>5. PICK row : row = [player |-> call.player, password |-> call.seen,
                        late |-> call.seen # password[call.player]]
  OBVIOUS
<1>6. sessions' = sessions \cup {row} /\ UNCHANGED <<name, password, links, history>>
  BY <1>1, <1>5 DEF Open
<1>7. Forward
  BY <1>6 DEF Forward, Accounts, Spent, history
<1>8. RowsInOrder'
  <2>1. /\ row \in [player : Ids, password : Passwords, late : BOOLEAN]
        /\ row.player \in Accounts
    BY <1>3, <1>5
  <2>2. RowsTyped'
    BY <1>6, <2>1, RowsAreInOrder DEF RowsInOrder, RowsTyped, history
  <2>3. Accounts' = Accounts
    BY <1>6 DEF Accounts
  <2>4. AccountsHavePasswords' /\ SessionsHaveAccounts'
    BY <1>6, <2>1, <2>3 DEF IInv, AccountsHavePasswords, SessionsHaveAccounts
  <2> QED
    BY <1>6, <2>2, <2>3, <2>4, RowsAreInOrder
    DEF RowsInOrder, LinksHaveAccounts, AnsweredIsSpent, Spent, history
<1>9. row.late \/ row.password = password'[row.player]
  <2>1. /\ row.player = call.player /\ row.password = call.seen
        /\ row.late = (call.seen # password[call.player])
    BY <1>5
  <2>2. CASE call.seen = password[call.player]
    BY <1>6, <2>1, <2>2
  <2>3. CASE call.seen # password[call.player]
    BY <2>1, <2>3, Zenon
  <2> QED
    BY <2>2, <2>3
<1>10. KeysAreCurrent'
  <2>1. \A s \in sessions' :
           \/ s \in sessions /\ password'[s.player] = password[s.player]
           \/ s.late \/ s.password = password'[s.player]
    BY <1>6, <1>9
  <2>2. halfway' = halfway
    BY <1>6 DEF history
  <2> QED
    BY <1>1, <1>4, <2>1, <2>2, KeysStay
<1> QED
  BY <1>1, <1>4, <1>7, <1>8, <1>10, StatementKeeps DEF Open, Keep

LEMMA RenameKeeps ==
    ASSUME IInv, NEW c \in Callers, Rename(c) PROVE IInv'
<1>1. PICK call \in Calls :
         /\ call = calls[c] /\ call # Idle /\ Head(call.todo) = "rename"
         /\ InOrder(call) /\ ~call.again /\ FollowsItsPlan(call.kind, call.todo)
         /\ ~Working(c) /\ ~Replacing(call)
  BY CallAt DEF Rename
<1>2. call.kind = "rename"
  BY <1>1, Zenon DEF FollowsItsPlan
<1>3. call.player \in Accounts /\ call.name \in Names
  BY <1>1, <1>2 DEF InOrder
<1>4. calls' = [calls EXCEPT ![c] = Idle] /\ ~Running(Idle)
  BY DEF Rename, Refused, Running
<1>5. /\ name' = name \/ name' = [name EXCEPT ![call.player] = call.name]
      /\ UNCHANGED <<password, sessions, links, history>>
  BY <1>1 DEF Rename
<1>6. Accounts' = Accounts /\ name' \in [Ids -> Names \cup {None}]
  BY <1>3, <1>5, AccountsAssumption DEF Accounts, IInv, TypeOK
<1>7. Forward
  BY <1>5, <1>6 DEF Forward, Spent, history
<1>8. RowsInOrder'
  BY <1>5, <1>6, RowsAreInOrder
  DEF RowsInOrder, RowsTyped, AccountsHavePasswords, SessionsHaveAccounts,
      LinksHaveAccounts, AnsweredIsSpent, Spent, history
<1>9. KeysAreCurrent'
  BY <1>1, <1>4, <1>5, KeysStay DEF history
<1> QED
  BY <1>1, <1>4, <1>7, <1>8, <1>9, StatementKeeps DEF Rename, Keep

\* A new password: the sessions opened with the old one are current no more,
\* but the call has yet to end them, or never will.
LEMMA StoreKeeps ==
    ASSUME IInv, NEW c \in Callers, Store(c) PROVE IInv'
<1>1. PICK call \in Calls :
         /\ call = calls[c] /\ call # Idle /\ Head(call.todo) = "store"
         /\ InOrder(call) /\ ~call.again /\ FollowsItsPlan(call.kind, call.todo)
         /\ ~Working(c) /\ ~Replacing(call)
  BY CallAt DEF Store
<1>2. /\ call.kind \in {"change", "reset", "assist"}
      /\ call.kind = "assist" <=> Len(call.todo) = 1
      /\ call.kind = "change" => Head(Tail(call.todo)) = "revoke"
      /\ call.kind = "reset" => Head(Tail(call.todo)) = "consume"
      /\ Len(call.todo) # 1 => Tail(call.todo) \in Suffixes(Steps[call.kind]) \ {<< >>}
  BY <1>1, Zenon DEF FollowsItsPlan
<1>3. /\ call.player \in Accounts /\ call.player \in Ids /\ call.secret \in Passwords
      /\ call.kind = "reset" => call.link \in Links
  BY <1>1, <1>2 DEF InOrder, Accounts
<1>4. PICK next \in Calls \cup {Idle} :
         /\ calls' = [calls EXCEPT ![c] = next] /\ ~Running(next)
         /\ Len(call.todo) = 1 => next = Idle
         /\ Len(call.todo) # 1 =>
              /\ next \in Calls /\ next.todo = Tail(call.todo) /\ next.kind = call.kind
              /\ next.player = call.player /\ next.secret = call.secret
              /\ next.link = call.link /\ next.again = call.again /\ ~next.working
  BY <1>1, <1>2, GoingOn DEF Store, Proceeds
<1>5. /\ password' = [password EXCEPT ![call.player] = call.secret]
      /\ halfway' = IF call.kind = "assist" THEN halfway \cup {call.player} ELSE halfway
      /\ used' = IF call.kind = "reset" /\ used[call.link] = "no"
                 THEN [used EXCEPT ![call.link] = "stored"] ELSE used
      /\ UNCHANGED <<name, sessions, links>>
  BY <1>1 DEF Store
<1>6. /\ password \in [Ids -> Passwords \cup {None}]
      /\ used \in [Links -> {"no", "stored", "answered"}] /\ halfway \subseteq Ids
      /\ calls \in [Callers -> Calls \cup {Idle}]
  BY DEF IInv, TypeOK
<1>7. Accounts' = Accounts
  BY <1>5 DEF Accounts
<1>8. /\ used' \in [Links -> {"no", "stored", "answered"}]
      /\ \A t \in Links : /\ used[t] # "no" => used'[t] = used[t]
                          /\ used'[t] = "answered" => used[t] = "answered"
      /\ call.kind = "reset" => used'[call.link] # "no"
  BY <1>3, <1>5, <1>6
<1>9. Forward
  BY <1>5, <1>7, <1>8 DEF Forward, Spent
<1>10. AccountsHavePasswords'
  BY <1>3, <1>5, <1>6, <1>7 DEF IInv, AccountsHavePasswords, Accounts
<1>11. RowsInOrder'
  <2>1. RowsTyped'
    BY <1>3, <1>5, <1>6, <1>8, RowsAreInOrder DEF RowsInOrder, RowsTyped
  <2> QED
    BY <1>5, <1>7, <1>8, <1>10, <2>1, RowsAreInOrder
    DEF RowsInOrder, SessionsHaveAccounts, LinksHaveAccounts, AnsweredIsSpent, Spent
<1>12. next # Idle => InOrder(next)'
  BY <1>1, <1>2, <1>3, <1>4, <1>7, <1>8 DEF InOrder
<1>13. ASSUME call.kind # "assist"
       PROVE  next # Idle /\ next.player = call.player /\ Replacing(next)
  <2>1. /\ next \in Calls /\ next.todo = Tail(call.todo) /\ next.kind = call.kind
        /\ next.player = call.player
    BY <1>2, <1>4, <1>13
  <2>2. next.kind \in DOMAIN Steps /\ next.kind \in {"change", "reset"}
    BY <1>2, <1>13, <2>1 DEF Calls
  <2>3. /\ next.todo \in Suffixes(Steps[next.kind]) \ {<< >>}
        /\ Head(next.todo) \in {"consume", "revoke"}
    BY <1>2, <1>13, <2>1
  <2>4. FollowsItsPlan(next.kind, next.todo)
    BY <2>2, <2>3, StepOfPlan
  <2>5. Replacing(next)
    BY <2>2, <2>3, <2>4, Zenon DEF FollowsItsPlan, Replacing
  <2>6. next # Idle
    BY <2>2, StepsByKind DEF Idle
  <2> QED
    BY <2>1, <2>5, <2>6
<1>14. KeysAreCurrent'
  <2>1. \A s \in sessions : s.player \in Ids
    BY DEF IInv, TypeOK
  <2>2. ASSUME NEW s \in sessions, s.player = call.player
        PROVE  \/ s.player \in halfway'
               \/ \E d \in Callers :
                    calls'[d] # Idle /\ calls'[d].player = s.player /\ Replacing(calls'[d])
    <3>1. calls'[c] = next
      BY <1>4, <1>6
    <3> QED
      BY <1>5, <1>13, <2>2, <3>1
  <2>3. ASSUME NEW s \in sessions, s.player # call.player
        PROVE  \/ s.password = password'[s.player]
               \/ s.late
               \/ s.player \in halfway'
               \/ \E d \in Callers :
                    calls'[d] # Idle /\ calls'[d].player = s.player /\ Replacing(calls'[d])
    <3>1. password'[s.player] = password[s.player]
      BY <1>5, <1>6, <2>1, <2>3
    <3>2. halfway \subseteq halfway'
      BY <1>5
    <3>3. ASSUME NEW d \in Callers, calls[d] # Idle, calls[d].player = s.player,
                 Replacing(calls[d])
          PROVE  calls'[d] = calls[d]
      BY <1>1, <1>4, <1>6, <2>3, <3>3
    <3>4. CASE \E d \in Callers :
                 calls[d] # Idle /\ calls[d].player = s.player /\ Replacing(calls[d])
      BY <3>3, <3>4
    <3>5. CASE ~ \E d \in Callers :
                 calls[d] # Idle /\ calls[d].player = s.player /\ Replacing(calls[d])
      BY <3>1, <3>2, <3>5 DEF IInv, KeysAreCurrent
    <3> QED
      BY <3>4, <3>5
  <2> QED
    BY <1>5, <2>2, <2>3, Zenon DEF KeysAreCurrent, Replacing
<1> QED
  BY <1>1, <1>2, <1>4, <1>9, <1>11, <1>12, <1>14, StatementKeeps DEF Store, Keep

LEMMA ConsumeKeeps ==
    ASSUME IInv, NEW c \in Callers, Consume(c) PROVE IInv'
<1>1. PICK call \in Calls :
         /\ call = calls[c] /\ call # Idle /\ Head(call.todo) = "consume"
         /\ InOrder(call) /\ ~call.again /\ FollowsItsPlan(call.kind, call.todo)
         /\ ~Working(c)
  BY CallAt DEF Consume
<1>2. /\ call.kind = "reset" /\ Len(call.todo) # 1 /\ Head(Tail(call.todo)) = "revoke"
      /\ Tail(call.todo) \in Suffixes(Steps[call.kind]) \ {<< >>}
  BY <1>1, Zenon DEF FollowsItsPlan
<1>3. /\ call.player \in Accounts /\ call.secret \in Passwords
      /\ call.link \in Links /\ used[call.link] # "no"
  BY <1>1, <1>2 DEF InOrder
<1>4. PICK next \in Calls :
         /\ calls' = [calls EXCEPT ![c] = next] /\ ~Running(next)
         /\ next.todo = Tail(call.todo) /\ next.kind = call.kind
         /\ next.player = call.player /\ next.secret = call.secret
         /\ next.link = call.link /\ next.again = call.again /\ ~next.working
  BY <1>1, <1>2, GoingOn, ZenonT(40) DEF Consume, Proceeds
<1>5. /\ links' = [links EXCEPT ![call.link].consumed = @ \/ links[call.link].player # None]
      /\ UNCHANGED <<name, password, sessions, history>>
  BY <1>1 DEF Consume
<1>6. links \in [Links -> [player : Ids \cup {None}, expired : BOOLEAN, consumed : BOOLEAN]]
  BY DEF IInv, TypeOK
<1>7. /\ links' \in [Links -> [player : Ids \cup {None}, expired : BOOLEAN, consumed : BOOLEAN]]
      /\ \A t \in Links : /\ links'[t].player = links[t].player
                          /\ t # call.link => links'[t].consumed = links[t].consumed
      /\ links'[call.link].consumed
            = (links[call.link].consumed \/ links[call.link].player # None)
  BY <1>3, <1>5, <1>6
<1>8. /\ \A t \in Links : Spent(t) => Spent(t)'
      /\ Spent(call.link)'
  BY <1>3, <1>7, Zenon DEF Spent
<1>9. Accounts' = Accounts /\ Forward
  BY <1>5, <1>8 DEF Accounts, Forward, history
<1>10. \A t \in Links : links'[t].consumed => used'[t] # "no"
  <2>1. ASSUME NEW t \in Links, links'[t].consumed PROVE used[t] # "no"
    BY <1>3, <1>7, <2>1, RowsAreInOrder DEF RowsInOrder
  <2> QED
    BY <1>5, <2>1 DEF history
<1>11. RowsInOrder'
  <2>1. RowsTyped'
    BY <1>5, <1>7, RowsAreInOrder DEF RowsInOrder, RowsTyped, history
  <2>2. AnsweredIsSpent'
    BY <1>5, <1>8, RowsAreInOrder DEF RowsInOrder, AnsweredIsSpent, history
  <2> QED
    BY <1>5, <1>7, <1>9, <1>10, <2>1, <2>2, RowsAreInOrder
    DEF RowsInOrder, AccountsHavePasswords, SessionsHaveAccounts, LinksHaveAccounts, history
<1>12. InOrder(next)'
  BY <1>1, <1>2, <1>3, <1>4, <1>5, <1>8, <1>9 DEF InOrder, history
<1>13. Replacing(next) /\ next # Idle
  <2>1. next.kind \in DOMAIN Steps
    BY DEF Calls
  <2>2. FollowsItsPlan(next.kind, next.todo) /\ Head(next.todo) = "revoke"
    BY <1>2, <1>4, <2>1, StepOfPlan
  <2>3. Replacing(next)
    BY <1>2, <1>4, <2>2, Zenon DEF FollowsItsPlan, Replacing
  <2> QED
    BY <2>1, <2>3, StepsByKind DEF Idle
<1>14. KeysAreCurrent'
  <2>1. calls'[c] = next /\ \A d \in Callers : d # c => calls'[d] = calls[d]
    BY <1>4 DEF IInv, TypeOK
  <2>2. ASSUME NEW s, NEW d \in Callers, calls[d] # Idle, calls[d].player = s,
               Replacing(calls[d])
        PROVE  \E e \in Callers :
                  calls'[e] # Idle /\ calls'[e].player = s /\ Replacing(calls'[e])
    BY <1>1, <1>4, <1>13, <2>1, <2>2
  <2>3. ASSUME NEW s \in sessions
        PROVE  \/ s.password = password[s.player]
               \/ s.late
               \/ s.player \in halfway
               \/ \E d \in Callers :
                    calls'[d] # Idle /\ calls'[d].player = s.player /\ Replacing(calls'[d])
    <3>1. PICK p : p = s.player
      OBVIOUS
    <3> QED
      BY <2>2, <3>1 DEF IInv, KeysAreCurrent
  <2> QED
    BY <1>5, <2>3 DEF KeysAreCurrent, Replacing, history
<1> QED
  BY <1>1, <1>4, <1>9, <1>11, <1>12, <1>14, StatementKeeps DEF Consume, Keep

\* The sessions are ended, whichever they are.
LEMMA RevokeKeeps ==
    ASSUME IInv, NEW c \in Callers, Revoke(c) PROVE IInv'
<1>1. PICK call \in Calls :
         /\ call = calls[c] /\ call # Idle /\ Head(call.todo) = "revoke"
         /\ InOrder(call) /\ ~call.again /\ FollowsItsPlan(call.kind, call.todo)
         /\ ~Working(c)
  BY CallAt DEF Revoke
<1>2. call.kind \in {"change", "reset", "signout"} /\ Len(call.todo) = 1
  BY <1>1, Zenon DEF FollowsItsPlan
<1>3. /\ call.player \in Accounts
      /\ call.kind = "reset" => call.link \in Links /\ used[call.link] # "no" /\ Spent(call.link)
  BY <1>1, <1>2 DEF InOrder
<1>4. calls' = [calls EXCEPT ![c] = Idle] /\ ~Running(Idle)
  <2>1. PICK next : calls' = [calls EXCEPT ![c] = next] /\ next = Idle /\ ~Running(next)
    BY <1>1, <1>2, GoingOn DEF Revoke, Proceeds
  <2> QED
    BY <2>1
<1>5. /\ sessions' = {s \in sessions : s.player # call.player}
      /\ halfway' = halfway \ {call.player}
      /\ used' = IF call.kind = "reset" THEN [used EXCEPT ![call.link] = "answered"] ELSE used
      /\ UNCHANGED <<name, password, links>>
  BY <1>1 DEF Revoke
<1>6. /\ used \in [Links -> {"no", "stored", "answered"}] /\ halfway \subseteq Ids
      /\ calls \in [Callers -> Calls \cup {Idle}]
  BY DEF IInv, TypeOK
<1>7. /\ used' \in [Links -> {"no", "stored", "answered"}]
      /\ \A t \in Links : /\ used[t] # "no" => used'[t] # "no"
                          /\ used'[t] = "answered" => used[t] = "answered" \/ Spent(t)
  BY <1>3, <1>5, <1>6
<1>8. Accounts' = Accounts /\ \A t \in Links : Spent(t)' <=> Spent(t)
  BY <1>5 DEF Accounts, Spent
<1>9. Forward
  BY <1>7, <1>8 DEF Forward
<1>10. RowsInOrder'
  <2>1. RowsTyped'
    BY <1>5, <1>6, <1>7, RowsAreInOrder DEF RowsInOrder, RowsTyped
  <2>2. AnsweredIsSpent'
    BY <1>7, <1>8, RowsAreInOrder DEF RowsInOrder, AnsweredIsSpent
  <2> QED
    BY <1>5, <1>7, <1>8, <2>1, <2>2, RowsAreInOrder
    DEF RowsInOrder, AccountsHavePasswords, SessionsHaveAccounts, LinksHaveAccounts
<1>11. KeysAreCurrent'
  <2>1. \A d \in Callers : d # c => calls'[d] = calls[d]
    BY <1>4, <1>6
  <2>2. ASSUME NEW s \in sessions, s.player # call.player
        PROVE  \/ s.password = password[s.player]
               \/ s.late
               \/ s.player \in halfway'
               \/ \E d \in Callers :
                    calls'[d] # Idle /\ calls'[d].player = s.player /\ Replacing(calls'[d])
    <3>1. CASE \E d \in Callers :
                 calls[d] # Idle /\ calls[d].player = s.player /\ Replacing(calls[d])
      BY <1>1, <2>1, <2>2, <3>1
    <3>2. CASE ~ \E d \in Callers :
                 calls[d] # Idle /\ calls[d].player = s.player /\ Replacing(calls[d])
      BY <1>5, <2>2, <3>2 DEF IInv, KeysAreCurrent
    <3> QED
      BY <3>1, <3>2
  <2> QED
    BY <1>5, <2>2 DEF KeysAreCurrent, Replacing
<1> QED
  BY <1>1, <1>4, <1>9, <1>10, <1>11, StatementKeeps DEF Revoke, Keep

LEMMA ClearKeeps ==
    ASSUME IInv, NEW c \in Callers, Clear(c) PROVE IInv'
<1>1. PICK call \in Calls :
         /\ call = calls[c] /\ call # Idle /\ Head(call.todo) = "clear"
         /\ InOrder(call) /\ ~call.again /\ FollowsItsPlan(call.kind, call.todo)
         /\ ~Working(c) /\ ~Replacing(call)
  <2>1. At(c, "clear")
    BY Zenon DEF Clear
  <2> QED
    BY <2>1, CallAt
<1>2. /\ call.kind = "forgot" /\ Len(call.todo) # 1 /\ Head(Tail(call.todo)) = "issue"
      /\ Tail(call.todo) \in Suffixes(Steps[call.kind]) \ {<< >>}
  BY <1>1, Zenon DEF FollowsItsPlan
<1>3. call.player \in Accounts
  BY <1>1, <1>2 DEF InOrder
<1>4. PICK next \in Calls :
         /\ calls' = [calls EXCEPT ![c] = next] /\ ~Running(next)
         /\ next.todo = Tail(call.todo) /\ next.kind = call.kind
         /\ next.player = call.player /\ next.again = call.again /\ ~next.working
  BY <1>1, <1>2, GoingOn, ZenonT(40) DEF Clear, Proceeds
<1>5. /\ links' = [t \in Links |->
                     IF links[t].player = call.player /\ ~links[t].consumed
                     THEN [links[t] EXCEPT !.player = None, !.expired = FALSE] ELSE links[t]]
      /\ UNCHANGED <<name, password, sessions, history>>
  BY <1>1 DEF Clear
<1>6. links \in [Links -> [player : Ids \cup {None}, expired : BOOLEAN, consumed : BOOLEAN]]
  BY DEF IInv, TypeOK
<1>7. /\ links' \in [Links -> [player : Ids \cup {None}, expired : BOOLEAN, consumed : BOOLEAN]]
      /\ \A t \in Links : /\ links'[t].player \in {links[t].player, None}
                          /\ links'[t].consumed = links[t].consumed
  BY <1>5, <1>6
<1>8. \A t \in Links : Spent(t) => Spent(t)'
  BY <1>7 DEF Spent
<1>9. Accounts' = Accounts /\ Forward
  BY <1>5, <1>8 DEF Accounts, Forward, history
<1>10. RowsInOrder'
  <2>1. RowsTyped'
    BY <1>5, <1>7, RowsAreInOrder DEF RowsInOrder, RowsTyped, history
  <2>2. AnsweredIsSpent' /\ LinksHaveAccounts'
    BY <1>5, <1>7, <1>8, <1>9, RowsAreInOrder
    DEF RowsInOrder, AnsweredIsSpent, LinksHaveAccounts, history
  <2>3. \A t \in Links : links'[t].consumed => used'[t] # "no"
    BY <1>5, <1>7, RowsAreInOrder DEF RowsInOrder, history
  <2> QED
    BY <1>5, <1>9, <2>1, <2>2, <2>3, RowsAreInOrder
    DEF RowsInOrder, AccountsHavePasswords, SessionsHaveAccounts
<1>11. InOrder(next)'
  BY <1>1, <1>2, <1>3, <1>4, <1>9 DEF InOrder
<1>12. KeysAreCurrent'
  BY <1>1, <1>4, <1>5, KeysStay DEF history
<1> QED
  BY <1>1, <1>4, <1>9, <1>10, <1>11, <1>12, StatementKeeps DEF Clear, Keep

LEMMA IssueKeeps ==
    ASSUME IInv, NEW c \in Callers, Issue(c) PROVE IInv'
<1>1. PICK call \in Calls :
         /\ call = calls[c] /\ call # Idle /\ Head(call.todo) = "issue"
         /\ InOrder(call) /\ ~call.again /\ FollowsItsPlan(call.kind, call.todo)
         /\ ~Working(c) /\ ~Replacing(call)
  BY CallAt DEF Issue
<1>2. call.kind = "forgot" /\ Len(call.todo) = 1
  BY <1>1, Zenon DEF FollowsItsPlan
<1>3. call.player \in Accounts /\ call.player \in Ids
  BY <1>1, <1>2 DEF InOrder, Accounts
<1>4. calls' = [calls EXCEPT ![c] = Idle] /\ ~Running(Idle)
  <2>1. PICK next : calls' = [calls EXCEPT ![c] = next] /\ next = Idle /\ ~Running(next)
    BY <1>1, <1>2, GoingOn DEF Issue, Proceeds
  <2> QED
    BY <2>1
<1>5. PICK t \in Links :
         /\ links[t].player = None /\ used[t] = "no"
         /\ links' = [links EXCEPT ![t].player = call.player]
  BY <1>1 DEF Issue
<1>6. UNCHANGED <<name, password, sessions, history>>
  BY DEF Issue
<1>7. links \in [Links -> [player : Ids \cup {None}, expired : BOOLEAN, consumed : BOOLEAN]]
  BY DEF IInv, TypeOK
<1>8. /\ links' \in [Links -> [player : Ids \cup {None}, expired : BOOLEAN, consumed : BOOLEAN]]
      /\ \A u \in Links : /\ u # t => links'[u] = links[u]
                          /\ links'[u].player \in {links[u].player, call.player}
                          /\ links'[u].consumed = links[u].consumed
  BY <1>3, <1>5, <1>7
<1>9. \A u \in Links : used[u] # "no" => (Spent(u) => Spent(u)')
  BY <1>5, <1>8 DEF Spent
<1>10. Accounts' = Accounts /\ Forward
  BY <1>6, <1>9 DEF Accounts, Forward, history
<1>11. RowsInOrder'
  <2>1. RowsTyped'
    BY <1>6, <1>8, RowsAreInOrder DEF RowsInOrder, RowsTyped, history
  <2>2. AnsweredIsSpent' /\ LinksHaveAccounts'
    BY <1>3, <1>6, <1>8, <1>9, <1>10, RowsAreInOrder
    DEF RowsInOrder, AnsweredIsSpent, LinksHaveAccounts, history
  <2>3. \A u \in Links : links'[u].consumed => used'[u] # "no"
    BY <1>6, <1>8, RowsAreInOrder DEF RowsInOrder, history
  <2> QED
    BY <1>6, <1>10, <2>1, <2>2, <2>3, RowsAreInOrder
    DEF RowsInOrder, AccountsHavePasswords, SessionsHaveAccounts
<1>12. KeysAreCurrent'
  BY <1>1, <1>4, <1>6, KeysStay DEF history
<1> QED
  BY <1>1, <1>4, <1>10, <1>11, <1>12, StatementKeeps DEF Issue, Keep

-----------------------------------------------------------------------------
(* What moves without a call, and what goes wrong.                         *)

\* No call moves.
LEMMA CallsStay ==
    ASSUME IInv, UNCHANGED calls, Forward
    PROVE  /\ CallsAreInOrder' /\ \A d \in Callers : calls'[d] # Idle => ~calls'[d].again
           /\ {d \in Callers : Working(d)}' = {d \in Callers : Working(d)}
<1>1. ASSUME NEW d \in Callers, calls[d] # Idle
      PROVE  InOrder(calls[d])' /\ ~calls[d].again
  <2>1. InOrder(calls[d]) /\ ~calls[d].again
    BY <1>1 DEF IInv, CallsAreInOrder, LinkIsSpentByItsReset
  <2>2. PICK call : call = calls[d]
    OBVIOUS
  <2>3. InOrder(call)'
    BY <2>1, <2>2, ForwardKeepsOrder DEF InOrder
  <2> QED
    BY <2>1, <2>2, <2>3 DEF InOrder, Identified, Spent
<1> QED
  BY <1>1 DEF CallsAreInOrder, Working

LEMMA SessionEndsKeeps == ASSUME IInv, SessionEnds PROVE IInv'
<1>1. /\ sessions' \subseteq sessions
      /\ UNCHANGED <<name, password, links, calls, free, orphans, history>>
  BY DEF SessionEnds
<1>2. Forward
  BY <1>1 DEF Forward, Accounts, Spent, history
<1>3. CallsAreInOrder' /\ HashingIsBounded'
      /\ \A d \in Callers : calls'[d] # Idle => ~calls'[d].again
  BY <1>1, <1>2, CallsStay DEF HashingIsBounded, IInv
<1>4. RowsInOrder'
  BY <1>1, RowsAreInOrder
  DEF RowsInOrder, RowsTyped, AccountsHavePasswords, SessionsHaveAccounts,
      LinksHaveAccounts, AnsweredIsSpent, Spent, Accounts, history
<1>5. KeysAreCurrent'
  BY <1>1 DEF IInv, KeysAreCurrent, Replacing, history
<1>6. TypeOK'
  BY <1>1, <1>4 DEF IInv, TypeOK, RowsInOrder, RowsTyped, Calls
<1> QED
  BY <1>3, <1>4, <1>5, <1>6 DEF IInv, RowsInOrder, LinkIsSpentByItsReset

LEMMA LinkExpiresKeeps == ASSUME IInv, LinkExpires PROVE IInv'
<1>1. PICK t \in Links : links' = [links EXCEPT ![t].expired = TRUE]
  BY DEF LinkExpires
<1>2. UNCHANGED <<name, password, sessions, calls, free, orphans, history>>
  BY DEF LinkExpires
<1>3. links \in [Links -> [player : Ids \cup {None}, expired : BOOLEAN, consumed : BOOLEAN]]
  BY DEF IInv, TypeOK
<1>4. /\ links' \in [Links -> [player : Ids \cup {None}, expired : BOOLEAN, consumed : BOOLEAN]]
      /\ \A u \in Links : /\ links'[u].player = links[u].player
                          /\ links'[u].consumed = links[u].consumed
  BY <1>1, <1>3
<1>5. Accounts' = Accounts /\ \A u \in Links : Spent(u)' <=> Spent(u)
  BY <1>2, <1>4 DEF Accounts, Spent
<1>6. Forward
  BY <1>2, <1>5 DEF Forward, history
<1>7. CallsAreInOrder' /\ HashingIsBounded'
      /\ \A d \in Callers : calls'[d] # Idle => ~calls'[d].again
  BY <1>2, <1>6, CallsStay DEF HashingIsBounded, IInv
<1>8. RowsInOrder'
  <2>1. RowsTyped'
    BY <1>2, <1>4, RowsAreInOrder DEF RowsInOrder, RowsTyped, history
  <2> QED
    BY <1>2, <1>4, <1>5, <2>1, RowsAreInOrder
    DEF RowsInOrder, AccountsHavePasswords, SessionsHaveAccounts, LinksHaveAccounts,
        AnsweredIsSpent, history
<1>9. KeysAreCurrent'
  BY <1>2 DEF IInv, KeysAreCurrent, Replacing, history
<1>10. TypeOK'
  BY <1>2, <1>8 DEF IInv, TypeOK, RowsInOrder, RowsTyped, Calls
<1> QED
  BY <1>7, <1>8, <1>9, <1>10 DEF IInv, RowsInOrder, LinkIsSpentByItsReset

LEMMA OrphanEndsKeeps == ASSUME IInv, OrphanEnds PROVE IInv'
<1>1. UNCHANGED <<rows, history>> /\ UNCHANGED calls
  BY DEF OrphanEnds
<1>2. Forward /\ RowsInOrder'
  BY <1>1, RowsStay, RowsAreInOrder DEF RowsInOrder, RowsTyped, rows, history
<1>3. /\ CallsAreInOrder' /\ \A d \in Callers : calls'[d] # Idle => ~calls'[d].again
      /\ {d \in Callers : Working(d)}' = {d \in Callers : Working(d)}
  BY <1>1, <1>2, CallsStay
<1>4. PICK n : n = Cardinality({d \in Callers : Working(d)})
  OBVIOUS
<1>5. n \in Nat /\ free + orphans + n = Permits /\ Permits \in Nat
  <2>1. IsFiniteSet({d \in Callers : Working(d)})
    BY AccountsAssumption, FS_Subset
  <2> QED
    BY <1>4, <2>1, FS_CardinalityType, AccountsAssumption DEF IInv, HashingIsBounded
<1>6. free' + orphans' + n = Permits /\ free' \in 0 .. Permits /\ orphans' \in 0 .. Permits
  BY <1>5 DEF OrphanEnds, IInv, TypeOK
<1>7. HashingIsBounded'
  BY <1>3, <1>4, <1>6 DEF HashingIsBounded
<1>8. KeysAreCurrent'
  BY <1>1 DEF IInv, KeysAreCurrent, Replacing, rows, history
<1>9. TypeOK'
  BY <1>1, <1>2, <1>6 DEF IInv, TypeOK, RowsInOrder, RowsTyped, Calls
<1> QED
  BY <1>2, <1>3, <1>7, <1>8, <1>9 DEF IInv, RowsInOrder, LinkIsSpentByItsReset

\* A call that fails between a new password and the end of the sessions leaves
\* the account half way; a hash it was running keeps its permit.
LEMMA CallFailsKeeps ==
    ASSUME IInv, NEW c \in Callers, CallFails(c) PROVE IInv'
<1>1. /\ calls[c] # Idle /\ calls' = [calls EXCEPT ![c] = Idle]
      /\ UNCHANGED rows /\ used' = used /\ ~Running(Idle)
  BY DEF CallFails, Refused, Running
<1>2. PICK call \in Calls : call = calls[c] /\ InOrder(call)
  BY <1>1, CallUnderWay
<1>3. Replacing(call) => call.player \in Accounts
  BY <1>2 DEF InOrder, Replacing
<1>4. halfway' = halfway \cup {calls[d].player : d \in {e \in {c} : Replacing(calls[e])}}
  BY DEF CallFails, Abandoned
<1>5. halfway' = IF Replacing(call) THEN halfway \cup {call.player} ELSE halfway
  BY <1>2, <1>4
<1>6. Accounts' = Accounts /\ Accounts \subseteq Ids
  BY <1>1 DEF Accounts, rows
<1>7. Forward
  BY <1>1, <1>6 DEF Forward, Spent, rows
<1>8. RowsInOrder'
  <2>1. RowsTyped'
    BY <1>1, <1>3, <1>5, <1>6, RowsAreInOrder DEF RowsInOrder, RowsTyped, rows
  <2> QED
    BY <1>1, <1>6, <2>1, RowsAreInOrder
    DEF RowsInOrder, AccountsHavePasswords, SessionsHaveAccounts, LinksHaveAccounts,
        AnsweredIsSpent, Spent, rows
<1>9. /\ CallsAreInOrder' /\ \A d \in Callers : calls'[d] # Idle => ~calls'[d].again
      /\ calls' \in [Callers -> Calls \cup {Idle}]
  BY <1>1, <1>7, OneCallGoesOn
<1>10. HashingIsBounded' /\ free' \in 0 .. Permits /\ orphans' \in 0 .. Permits
  <2>1. free \in Nat /\ orphans \in Nat
    BY DEF IInv, TypeOK
  <2>2. CASE Working(c)
    <3>1. /\ free' \in Nat /\ orphans' \in Nat
          /\ free' + orphans' + One(Running(Idle)) = free + orphans + One(Working(c))
      BY <1>1, <2>1, <2>2 DEF CallFails, Left, One
    <3> QED
      BY <1>1, <3>1, PermitsMove
  <2>3. CASE ~Working(c)
    <3>1. /\ free' \in Nat /\ orphans' \in Nat
          /\ free' + orphans' + One(Running(Idle)) = free + orphans + One(Working(c))
      BY <1>1, <2>1, <2>3 DEF CallFails, Keep, One
    <3> QED
      BY <1>1, <3>1, PermitsMove
  <2> QED
    BY <2>2, <2>3
<1>11. KeysAreCurrent'
  <2>1. \A d \in Callers : d # c => calls'[d] = calls[d]
    BY <1>1 DEF IInv, TypeOK
  <2>2. ASSUME NEW s \in sessions
        PROVE  \/ s.password = password[s.player]
               \/ s.late
               \/ s.player \in halfway'
               \/ \E d \in Callers :
                    calls'[d] # Idle /\ calls'[d].player = s.player /\ Replacing(calls'[d])
    <3>1. CASE \E d \in Callers :
                 calls[d] # Idle /\ calls[d].player = s.player /\ Replacing(calls[d])
      <4>1. PICK d \in Callers :
               calls[d] # Idle /\ calls[d].player = s.player /\ Replacing(calls[d])
        BY <3>1
      <4>2. CASE d = c
        BY <1>2, <1>5, <4>1, <4>2
      <4>3. CASE d # c
        BY <2>1, <4>1, <4>3
      <4> QED
        BY <4>2, <4>3
    <3>2. CASE ~ \E d \in Callers :
                 calls[d] # Idle /\ calls[d].player = s.player /\ Replacing(calls[d])
      BY <1>5, <3>2 DEF IInv, KeysAreCurrent
    <3> QED
      BY <3>1, <3>2
  <2> QED
    BY <1>1, <2>2 DEF KeysAreCurrent, Replacing, rows
<1>12. TypeOK'
  BY <1>8, <1>9, <1>10 DEF TypeOK, RowsInOrder, RowsTyped
<1> QED
  BY <1>8, <1>9, <1>10, <1>11, <1>12 DEF IInv, RowsInOrder, LinkIsSpentByItsReset

LEMMA CrashKeeps == ASSUME IInv, Crash PROVE IInv'
<1>1. /\ calls' = [c \in Callers |-> Idle] /\ UNCHANGED rows /\ used' = used
      /\ free' = Permits /\ orphans' = 0
  BY DEF Crash
<1>2. halfway' = halfway \cup
         {calls[c].player : c \in {d \in {e \in Callers : calls[e] # Idle} : Replacing(calls[d])}}
  BY DEF Crash, Abandoned
<1>3. ASSUME NEW c \in Callers, calls[c] # Idle, Replacing(calls[c])
      PROVE  calls[c].player \in Ids
  BY <1>3, CallUnderWay DEF InOrder, Replacing, Accounts
<1>4. RowsInOrder'
  <2>1. RowsTyped'
    BY <1>1, <1>2, <1>3, RowsAreInOrder DEF RowsInOrder, RowsTyped, rows
  <2> QED
    BY <1>1, <2>1, RowsAreInOrder
    DEF RowsInOrder, AccountsHavePasswords, SessionsHaveAccounts, LinksHaveAccounts,
        AnsweredIsSpent, Spent, Accounts, rows
<1>5. /\ CallsAreInOrder' /\ \A d \in Callers : calls'[d] # Idle => ~calls'[d].again
      /\ calls' \in [Callers -> Calls \cup {Idle}]
  BY <1>1 DEF CallsAreInOrder
<1>6. HashingIsBounded'
  <2>1. {c \in Callers : Working(c)}' = {}
    BY <1>1 DEF Working
  <2>2. Cardinality({}) = 0
    BY FS_EmptySet
  <2> QED
    BY <1>1, <2>1, <2>2, AccountsAssumption, SMTT(30) DEF HashingIsBounded
<1>7. KeysAreCurrent'
  BY <1>1, <1>2 DEF IInv, KeysAreCurrent, rows
<1>8. TypeOK'
  BY <1>1, <1>4, <1>5, AccountsAssumption DEF TypeOK, RowsInOrder, RowsTyped
<1> QED
  BY <1>4, <1>5, <1>6, <1>7, <1>8 DEF IInv, RowsInOrder, LinkIsSpentByItsReset

-----------------------------------------------------------------------------
(* The invariant holds at first and after every step.                      *)

LEMMA InitConsistent == Init => IInv
<1> SUFFICES ASSUME Init PROVE IInv
  OBVIOUS
<1>1. TypeOK
  BY AccountsAssumption DEF Init, TypeOK
<1>2. Accounts = {}
  BY DEF Init, Accounts
<1>3. /\ AccountsHavePasswords /\ SessionsHaveAccounts /\ LinksHaveAccounts
      /\ AnsweredIsSpent /\ CallsAreInOrder
  BY <1>2 DEF Init, AccountsHavePasswords, SessionsHaveAccounts, LinksHaveAccounts,
              AnsweredIsSpent, CallsAreInOrder
<1>4. KeysAreCurrent /\ LinkIsSpentByItsReset
  BY DEF Init, KeysAreCurrent, LinkIsSpentByItsReset
<1>5. HashingIsBounded
  <2>1. {c \in Callers : Working(c)} = {}
    BY DEF Init, Working
  <2>2. Cardinality({}) = 0
    BY FS_EmptySet
  <2>3. free = Permits /\ orphans = 0 /\ Permits \in Nat
    BY AccountsAssumption DEF Init
  <2> QED
    BY <2>1, <2>2, <2>3 DEF HashingIsBounded
<1> QED
  BY <1>1, <1>3, <1>4, <1>5 DEF IInv

LEMMA NextConsistent == IInv /\ [Next]_vars => IInv'
<1> SUFFICES ASSUME IInv, [Next]_vars PROVE IInv'
  OBVIOUS
<1>1. ASSUME NEW c \in Callers,
             \/ Register(c) \/ Login(c) \/ ChangePassword(c) \/ UpdateDetails(c)
             \/ RequestReset(c) \/ ResetPassword(c) \/ AdminSignOut(c) \/ AdminResetPassword(c)
      PROVE  IInv'
  BY <1>1, RegisterKeeps, LoginKeeps, ChangePasswordKeeps, UpdateDetailsKeeps,
     RequestResetKeeps, ResetPasswordKeeps, AdminSignOutKeeps, AdminResetPasswordKeeps, Zenon
<1>2. ASSUME NEW c \in Callers,
             \/ Acquire(c) \/ Busy(c) \/ Hash(c) \/ Verify(c)
             \/ Insert(c) \/ Open(c) \/ Find(c) \/ Store(c) \/ Consume(c) \/ Revoke(c)
             \/ Look(c) \/ Rename(c) \/ Clear(c) \/ Issue(c)
             \/ CallFails(c)
      PROVE  IInv'
  BY <1>2, AcquireKeeps, BusyKeeps, HashKeeps, VerifyKeeps, InsertKeeps, OpenKeeps,
     FindKeeps, StoreKeeps, ConsumeKeeps, RevokeKeeps, LookKeeps, RenameKeeps, ClearKeeps,
     IssueKeeps, CallFailsKeeps, Zenon
<1>3. CASE OrphanEnds \/ SessionEnds \/ LinkExpires \/ Crash
  BY <1>3, OrphanEndsKeeps, SessionEndsKeeps, LinkExpiresKeeps, CrashKeeps
<1>4. CASE UNCHANGED vars
  <2>1. UNCHANGED <<rows, history>> /\ UNCHANGED calls /\ UNCHANGED <<free, orphans>>
    BY <1>4 DEF vars, rows, history
  <2>2. Forward /\ RowsInOrder'
    BY <2>1, RowsStay, RowsAreInOrder DEF RowsInOrder, RowsTyped, rows, history
  <2>3. CallsAreInOrder' /\ HashingIsBounded'
        /\ \A d \in Callers : calls'[d] # Idle => ~calls'[d].again
    BY <2>1, <2>2, CallsStay DEF HashingIsBounded, IInv
  <2>4. KeysAreCurrent'
    BY <2>1 DEF IInv, KeysAreCurrent, Replacing, rows, history
  <2>5. TypeOK'
    BY <2>1, <2>2 DEF IInv, TypeOK, RowsInOrder, RowsTyped, Calls
  <2> QED
    BY <2>2, <2>3, <2>4, <2>5 DEF IInv, RowsInOrder, LinkIsSpentByItsReset
<1> QED
  BY <1>1, <1>2, <1>3, <1>4, Zenon DEF Next

\* Every state the account statements can reach, however the calls overlap,
\* fail and are dropped, satisfies the inductive invariant.
THEOREM Consistent == Spec => []IInv
<1> QED
  BY InitConsistent, NextConsistent, PTL DEF Spec

\* Rows, calls and permits stay what they are declared to be.
THEOREM TypeCorrect == Spec => []TypeOK
<1>1. IInv => TypeOK
  BY DEF IInv
<1> QED
  BY <1>1, Consistent, PTL

\* However changes, resets and logins overlap, and wherever they fail, a session
\* was opened with the account's password, or is one of the four exceptions
\* (update_player_password, invalidate_sessions_for_player).
THEOREM KeysStayCurrent == Spec => []KeysAreCurrent
<1>1. IInv => KeysAreCurrent
  BY DEF IInv
<1> QED
  BY <1>1, Consistent, PTL

\* A link is spent only after the password it was for is stored, and after an
\* answered reset none begins with it (reset_password).
THEOREM LinksAreSpentOnce == Spec => []LinkIsSpentByItsReset
<1>1. IInv => LinkIsSpentByItsReset
  BY DEF IInv
<1> QED
  BY <1>1, Consistent, PTL

\* Permits are never lost or made, so no more hashes run than there are permits,
\* whichever callers go away (with_hash_permit).
THEOREM HashesAreBounded == Spec => []HashingIsBounded
<1>1. IInv => HashingIsBounded
  BY DEF IInv
<1> QED
  BY <1>1, Consistent, PTL
=============================================================================
