----------------------------- MODULE AgentsProofs -----------------------------
(***************************************************************************)
(* Theorems about @berthos/agents, for any values of the constants: the    *)
(* run of the tool-use loop, the calls on a Computer, crews, and an agent  *)
(* behind HTTP.  Each is proved from an inductive invariant of its own; the*)
(* last section states, of the parts side by side, the properties that the *)
(* runs of MCAgents check.                                                 *)
(***************************************************************************)
EXTENDS MCAgents, SequenceTheorems, FiniteSetTheorems, FunctionTheorems, WellFoundedInduction, TLAPS


-----------------------------------------------------------------------------
(* Induction on the natural numbers, for sets.                             *)

LEMMA Least ==
  ASSUME NEW T, T \subseteq Nat, T # {}
  PROVE  \E i \in T : \A j \in T : i <= j
  <1> DEFINE R == OpToRel(<, Nat)
  <1>1. IsWellFoundedOn(R, Nat)
    BY NatLessThanWellFounded
  <1>2. \E i \in T : \A j \in T : ~ (<<j, i>> \in R)
    <2> HIDE DEF R
    <2> QED
      BY <1>1, WFMin
  <1>3. PICK i \in T : \A j \in T : ~ (<<j, i>> \in R)
    BY <1>2
  <1>4. ASSUME NEW j \in T PROVE i <= j
    <2>1. i \in Nat /\ j \in Nat /\ <<j, i>> \in Nat \X Nat
      OBVIOUS
    <2>2. j < i => <<j, i>> \in R
      BY <2>1 DEF OpToRel
    <2> HIDE DEF R
    <2> QED
      BY <1>3, <2>1, <2>2
  <1> QED
    BY <1>4

LEMMA SetInduction ==
  ASSUME NEW B, 0 \in B, \A n \in Nat : n \in B => n + 1 \in B
  PROVE  Nat \subseteq B
  <1> SUFFICES ASSUME Nat \ B # {} PROVE FALSE
    OBVIOUS
  <1>1. PICK m \in Nat \ B : \A j \in Nat \ B : m <= j
    BY Least
  <1>2. m # 0 /\ m - 1 \in Nat /\ ~ (m <= m - 1)
    OBVIOUS
  <1>3. m - 1 \in B
    BY <1>1, <1>2
  <1> QED
    BY <1>2, <1>3

-----------------------------------------------------------------------------
(* The filter of pendingToolCalls().                                       *)

KeepStep(g, n, ids, answered) ==
  IF n = 0 THEN <<>>
  ELSE IF ids[n] \in answered THEN g[n - 1] ELSE Append(g[n - 1], ids[n])

Keeps(g, ids, answered, m) == g = [n \in 0 .. m |-> KeepStep(g, n, ids, answered)]

LEMMA KeepsExists ==
  ASSUME NEW ids, NEW answered
  PROVE  \A m \in Nat : \E g : Keeps(g, ids, answered, m)
  <1> DEFINE B == {m \in Nat : \E g : Keeps(g, ids, answered, m)}
  <1>1. 0 \in B
    <2> DEFINE g == [n \in 0 .. 0 |-> <<>>]
    <2>1. Keeps(g, ids, answered, 0)
      BY DEF Keeps, KeepStep
    <2> QED
      BY <2>1
  <1>2. ASSUME NEW m \in Nat, NEW g, Keeps(g, ids, answered, m)
        PROVE  \E h : Keeps(h, ids, answered, m + 1)
    <2> DEFINE h == [n \in 0 .. m + 1 |-> IF n = m + 1 THEN KeepStep(g, m + 1, ids, answered) ELSE g[n]]
    <2>1. ASSUME NEW n \in 0 .. m + 1 PROVE KeepStep(h, n, ids, answered) = KeepStep(g, n, ids, answered)
      <3>1. CASE n = 0
        BY <3>1 DEF KeepStep
      <3>2. CASE n # 0
        <4>1. n - 1 \in 0 .. m + 1 /\ n - 1 # m + 1
          BY <3>2
        <4>2. h[n - 1] = g[n - 1]
          BY <4>1
        <4> HIDE DEF h
        <4> QED
          BY <3>2, <4>2 DEF KeepStep
      <3> QED
        BY <3>1, <3>2
    <2>2. ASSUME NEW n \in 0 .. m + 1 PROVE h[n] = KeepStep(g, n, ids, answered)
      <3>1. CASE n = m + 1
        BY <3>1
      <3>2. CASE n # m + 1
        <4>1. n \in 0 .. m
          BY <3>2
        <4>2. g[n] = KeepStep(g, n, ids, answered)
          BY <1>2, <4>1 DEF Keeps
        <4> QED
          BY <3>2, <4>2
      <3> QED
        BY <3>1, <3>2
    <2>3. h = [n \in 0 .. m + 1 |-> h[n]]
      OBVIOUS
    <2> HIDE DEF h
    <2>4. Keeps(h, ids, answered, m + 1)
      BY <2>1, <2>2, <2>3 DEF Keeps
    <2> QED
      BY <2>4
  <1>3. \A m \in Nat : m \in B => m + 1 \in B
    BY <1>2
  <1> HIDE DEF B
  <1>4. Nat \subseteq B
    BY <1>1, <1>3, SetInduction
  <1> QED
    BY <1>4 DEF B

\* The filter's steps.
LEMMA UnansweredSteps ==
  ASSUME NEW ids, NEW answered, Len(ids) \in Nat
  PROVE  \E g : /\ Unanswered(ids, answered) = g[Len(ids)]
                /\ g[0] = <<>>
                /\ \A n \in 1 .. Len(ids) :
                     g[n] = IF ids[n] \in answered THEN g[n - 1] ELSE Append(g[n - 1], ids[n])
  <1> DEFINE k == CHOOSE g : Keeps(g, ids, answered, Len(ids))
  <1>1. Keeps(k, ids, answered, Len(ids))
    BY KeepsExists
  <1>2. Unanswered(ids, answered) = k[Len(ids)]
    BY DEF Unanswered, Keeps, KeepStep
  <1> HIDE DEF k
  <1>3. \A n \in 0 .. Len(ids) : k[n] = KeepStep(k, n, ids, answered)
    BY <1>1 DEF Keeps
  <1>4. k[0] = <<>>
    BY <1>3 DEF KeepStep
  <1>5. \A n \in 1 .. Len(ids) :
          k[n] = IF ids[n] \in answered THEN k[n - 1] ELSE Append(k[n - 1], ids[n])
    <2> SUFFICES ASSUME NEW n \in 1 .. Len(ids)
                 PROVE  k[n] = IF ids[n] \in answered THEN k[n - 1] ELSE Append(k[n - 1], ids[n])
      OBVIOUS
    <2>1. n \in 0 .. Len(ids) /\ n # 0
      OBVIOUS
    <2> QED
      BY <1>3, <2>1 DEF KeepStep
  <1> QED
    BY <1>2, <1>4, <1>5

\* What is left has no answer, is one of the calls, and stays apart.
LEMMA UnansweredLeft ==
  ASSUME NEW S, NEW ids \in Seq(S), NEW answered
  PROVE  LET u == Unanswered(ids, answered) IN
         /\ u \in Seq(S)
         /\ \A k \in 1 .. Len(u) : u[k] \notin answered /\ \E i \in 1 .. Len(ids) : u[k] = ids[i]
         /\ (\A i, j \in 1 .. Len(ids) : ids[i] = ids[j] => i = j) =>
              \A k, l \in 1 .. Len(u) : u[k] = u[l] => k = l
  <1>1. Len(ids) \in Nat /\ \A n \in 1 .. Len(ids) : ids[n] \in S
    BY LenProperties, ElementOfSeq
  <1>2. PICK g : /\ Unanswered(ids, answered) = g[Len(ids)]
                 /\ g[0] = <<>>
                 /\ \A n \in 1 .. Len(ids) :
                      g[n] = IF ids[n] \in answered THEN g[n - 1] ELSE Append(g[n - 1], ids[n])
    <2>1. Len(ids) \in Nat
      BY <1>1
    <2> QED
      BY <2>1, UnansweredSteps
  <1> DEFINE Good(s, n) ==
        /\ s \in Seq(S)
        /\ \A k \in 1 .. Len(s) : s[k] \notin answered /\ \E i \in 1 .. n : s[k] = ids[i]
        /\ (\A i, j \in 1 .. Len(ids) : ids[i] = ids[j] => i = j) =>
             \A k, l \in 1 .. Len(s) : s[k] = s[l] => k = l
  <1> DEFINE B == {n \in Nat : n <= Len(ids) => Good(g[n], n)}
  <1>3. 0 \in B
    <2>1. <<>> \in Seq(S) /\ Len(<<>>) = 0
      BY EmptySeq
    <2>2. Good(<<>>, 0)
      BY <2>1
    <2> HIDE DEF Good
    <2> QED
      BY <1>2, <2>2
  <1>4. ASSUME NEW n \in Nat, n + 1 <= Len(ids), Good(g[n], n)
        PROVE  Good(g[n + 1], n + 1)
    <2> DEFINE s == g[n]
               x == ids[n + 1]
    <2>1. n + 1 \in 1 .. Len(ids) /\ n \in Nat /\ (n + 1) - 1 = n /\ x \in S
      BY <1>1, <1>4
    <2>2. g[n + 1] = IF x \in answered THEN s ELSE Append(s, x)
      BY <1>2, <2>1
    <2>3. s \in Seq(S) /\ Len(s) \in Nat
      BY <1>4, LenProperties
    <2>4. \A k \in 1 .. Len(s) : s[k] \notin answered /\ \E i \in 1 .. n + 1 : s[k] = ids[i]
      <3>1. 1 .. n \subseteq 1 .. n + 1
        OBVIOUS
      <3> QED
        BY <1>4, <3>1
    <2> HIDE DEF s, x
    <2>5. CASE x \in answered
      BY <1>4, <2>2, <2>4, <2>5 DEF s
    <2>6. CASE x \notin answered
      <3> DEFINE t == Append(s, x)
      <3>1. /\ t \in Seq(S) /\ Len(t) = Len(s) + 1 /\ t[Len(s) + 1] = x
            /\ \A k \in 1 .. Len(s) : t[k] = s[k]
        BY <2>1, <2>3, AppendProperties
      <3>2. g[n + 1] = t
        BY <2>2, <2>6
      <3> HIDE DEF t
      <3>3. \A k \in 1 .. Len(t) : k \in 1 .. Len(s) \/ k = Len(s) + 1
        BY <2>3, <3>1
      <3>4. n + 1 \in 1 .. n + 1 /\ x = ids[n + 1]
        BY <2>1 DEF x
      <3>5. \A k \in 1 .. Len(t) : t[k] \notin answered /\ \E i \in 1 .. n + 1 : t[k] = ids[i]
        BY <2>4, <2>6, <3>1, <3>3, <3>4
      <3>6. ASSUME \A i, j \in 1 .. Len(ids) : ids[i] = ids[j] => i = j,
                   NEW k \in 1 .. Len(t), NEW l \in 1 .. Len(t), t[k] = t[l]
            PROVE  k = l
        <4>1. \A i \in 1 .. n : i \in 1 .. Len(ids) /\ i # n + 1
          BY <1>1, <2>1
        <4>2. \A m \in 1 .. Len(s) : s[m] # x
          <5> SUFFICES ASSUME NEW m \in 1 .. Len(s), s[m] = x PROVE FALSE
            OBVIOUS
          <5>1. PICK i \in 1 .. n : s[m] = ids[i]
            BY <1>4 DEF s
          <5> QED
            BY <2>1, <3>4, <3>6, <4>1, <5>1
        <4>3. CASE k \in 1 .. Len(s) /\ l \in 1 .. Len(s)
          BY <1>4, <3>1, <3>6, <4>3 DEF s
        <4> QED
          BY <3>1, <3>3, <3>6, <4>2, <4>3
      <3> QED
        BY <3>1, <3>2, <3>5, <3>6
    <2> QED
      BY <2>5, <2>6
  <1> HIDE DEF Good
  <1>5. \A n \in Nat : n \in B => n + 1 \in B
    <2> SUFFICES ASSUME NEW n \in Nat, n \in B, n + 1 <= Len(ids) PROVE Good(g[n + 1], n + 1)
      OBVIOUS
    <2>1. n <= Len(ids)
      BY <1>1
    <2> QED
      BY <1>4, <2>1
  <1>6. Good(g[Len(ids)], Len(ids))
    <2> HIDE DEF B
    <2>1. Nat \subseteq B
      BY <1>3, <1>5, SetInduction
    <2> QED
      BY <1>1, <2>1 DEF B
  <1> QED
    BY <1>2, <1>6 DEF Good

\* Where the first m calls are answered and no other, the others are left.
Split(ids, answered, m) ==
  /\ m \in 0 .. Len(ids)
  /\ \A i \in 1 .. m : ids[i] \in answered
  /\ \A i \in m + 1 .. Len(ids) : ids[i] \notin answered

LEMMA UnansweredRest ==
  ASSUME NEW S, NEW ids \in Seq(S), NEW answered, NEW m, Split(ids, answered, m),
         NEW u, u = Unanswered(ids, answered)
  PROVE  /\ u \in Seq(S) /\ Len(u) = Len(ids) - m
         /\ \A k \in 1 .. Len(u) : u[k] = ids[m + k]
  <1>0. /\ m \in 0 .. Len(ids)
        /\ \A i \in 1 .. m : ids[i] \in answered
        /\ \A i \in m + 1 .. Len(ids) : ids[i] \notin answered
    BY DEF Split
  <1>1. Len(ids) \in Nat /\ m \in Nat /\ \A n \in 1 .. Len(ids) : ids[n] \in S
    BY <1>0, LenProperties, ElementOfSeq
  <1>2. PICK g : /\ Unanswered(ids, answered) = g[Len(ids)]
                 /\ g[0] = <<>>
                 /\ \A n \in 1 .. Len(ids) :
                      g[n] = IF ids[n] \in answered THEN g[n - 1] ELSE Append(g[n - 1], ids[n])
    BY <1>1, UnansweredSteps
  <1> DEFINE Good(s, n) ==
        /\ s \in Seq(S)
        /\ Len(s) = IF n <= m THEN 0 ELSE n - m
        /\ \A k \in 1 .. Len(s) : s[k] = ids[m + k]
  <1> DEFINE B == {n \in Nat : n <= Len(ids) => Good(g[n], n)}
  <1>3. 0 \in B
    <2>1. <<>> \in Seq(S) /\ Len(<<>>) = 0
      BY EmptySeq
    <2>2. Good(<<>>, 0)
      BY <1>1, <2>1
    <2> HIDE DEF Good
    <2> QED
      BY <1>2, <2>2
  <1>4. ASSUME NEW n \in Nat, n + 1 <= Len(ids), Good(g[n], n)
        PROVE  Good(g[n + 1], n + 1)
    <2> DEFINE s == g[n]
               x == ids[n + 1]
    <2>1. n + 1 \in 1 .. Len(ids) /\ n \in Nat /\ (n + 1) - 1 = n /\ x \in S
      BY <1>1, <1>4
    <2>2. g[n + 1] = IF x \in answered THEN s ELSE Append(s, x)
      BY <1>2, <2>1
    <2>3. s \in Seq(S) /\ Len(s) \in Nat /\ (Len(s) = IF n <= m THEN 0 ELSE n - m)
          /\ \A k \in 1 .. Len(s) : s[k] = ids[m + k]
      BY <1>4, LenProperties
    <2>4. x \in answered <=> n + 1 <= m
      <3>1. n + 1 <= m => n + 1 \in 1 .. m
        BY <1>1
      <3>2. ~(n + 1 <= m) => n + 1 \in m + 1 .. Len(ids)
        BY <1>1, <1>4
      <3> QED
        BY <1>0, <3>1, <3>2
    <2>5. x = ids[n + 1]
      OBVIOUS
    <2> HIDE DEF s, x
    <2>6. CASE n + 1 <= m
      BY <1>1, <2>2, <2>3, <2>4, <2>6
    <2>7. CASE ~(n + 1 <= m)
      <3> DEFINE t == Append(s, x)
      <3>1. /\ t \in Seq(S) /\ Len(t) = Len(s) + 1 /\ t[Len(s) + 1] = x
            /\ \A k \in 1 .. Len(s) : t[k] = s[k]
        BY <2>1, <2>3, AppendProperties
      <3>2. g[n + 1] = t
        BY <2>2, <2>4, <2>7
      <3> HIDE DEF t
      <3>3. Len(s) = n - m /\ Len(t) = n + 1 - m /\ m + (Len(s) + 1) = n + 1
        BY <1>1, <2>3, <2>7, <3>1, SMTT(30)
      <3>4. \A k \in 1 .. Len(t) : k \in 1 .. Len(s) \/ k = Len(s) + 1
        BY <2>3, <3>1
      <3>5. \A k \in 1 .. Len(t) : t[k] = ids[m + k]
        BY <2>3, <2>5, <3>1, <3>3, <3>4
      <3> QED
        BY <1>1, <2>7, <3>1, <3>2, <3>3, <3>5
    <2> QED
      BY <2>6, <2>7
  <1> HIDE DEF Good
  <1>5. \A n \in Nat : n \in B => n + 1 \in B
    <2> SUFFICES ASSUME NEW n \in Nat, n \in B, n + 1 <= Len(ids) PROVE Good(g[n + 1], n + 1)
      OBVIOUS
    <2>1. n <= Len(ids)
      BY <1>1
    <2> QED
      BY <1>4, <2>1
  <1>6. Good(g[Len(ids)], Len(ids))
    <2> HIDE DEF B
    <2>1. Nat \subseteq B
      BY <1>3, <1>5, SetInduction
    <2> QED
      BY <1>1, <2>1 DEF B
  <1>7. Len(ids) <= m => Len(ids) - m = 0
    BY <1>0, <1>1
  <1> QED
    BY <1>0, <1>1, <1>2, <1>6, <1>7 DEF Good

-----------------------------------------------------------------------------
(* Histories: their types, what they answer and the calls they know of.    *)

LEMMA Messages ==
  /\ User \in Message
  /\ \A ids \in Seq(Nat) : Assistant(ids) \in Message
  /\ Assistant(<<>>) \in Message
  /\ \A id \in Nat : Result(id) \in Message
  <1>1. <<>> \in Seq(Nat)
    BY EmptySeq
  <1> QED
    BY <1>1 DEF User, Assistant, Result, Message

\* Every message of ms is one of old or one of new.
Made(ms, old, new) == \A i \in DOMAIN ms : ms[i] \in new \/ \E j \in DOMAIN old : ms[i] = old[j]

KnownMessage(n, m) ==
  /\ \A k \in DOMAIN m.calls : m.calls[k] \in 1 .. n
  /\ \A k, l \in DOMAIN m.calls : m.calls[k] = m.calls[l] => k = l
  /\ m.role = "tool" => m.id \in 1 .. n
\* The calls a history makes or answers have been given an id.
Known(n, ms) == \A i \in DOMAIN ms : KnownMessage(n, ms[i])

LEMMA MadeKnown ==
  ASSUME NEW n, NEW ms, NEW old, NEW new, Made(ms, old, new), Known(n, old),
         \A m \in new : KnownMessage(n, m)
  PROVE  Known(n, ms)
  BY DEF Made, Known

LEMMA MadeAnswers ==
  ASSUME NEW ms, NEW old, NEW new, NEW S, Made(ms, old, new),
         \A m \in new : m.role = "tool" => m.id \in S
  PROVE  Answered(ms) \subseteq Answered(old) \cup S
  BY DEF Made, Answered

LEMMA AnsweredKnown ==
  ASSUME NEW n, NEW ms, Known(n, ms)
  PROVE  Answered(ms) \subseteq 1 .. n
  BY DEF Known, KnownMessage, Answered

LEMMA KnownLater ==
  ASSUME NEW n \in Nat, NEW m \in Nat, n <= m, NEW ms, Known(n, ms)
  PROVE  Known(m, ms)
  <1>1. 1 .. n \subseteq 1 .. m
    OBVIOUS
  <1> QED
    BY <1>1 DEF Known, KnownMessage

LEMMA PlainKnown ==
  ASSUME NEW n
  PROVE  /\ KnownMessage(n, User) /\ KnownMessage(n, Assistant(<<>>))
         /\ User.role # "tool" /\ \A ids : Assistant(ids).role # "tool"
         /\ Known(n, <<>>) /\ Answered(<<>>) = {}
  <1>1. DOMAIN <<>> = {}
    BY EmptySeq, LenProperties
  <1> QED
    BY <1>1 DEF KnownMessage, User, Assistant, Known, Answered

LEMMA MadeByAppend ==
  ASSUME NEW ms \in Seq(Message), NEW m \in Message
  PROVE  /\ Append(ms, m) \in Seq(Message)
         /\ Made(Append(ms, m), ms, {m})
  <1> DEFINE t == Append(ms, m)
  <1>1. /\ t \in Seq(Message) /\ Len(t) = Len(ms) + 1 /\ Len(ms) \in Nat
        /\ \A i \in 1 .. Len(ms) : t[i] = ms[i]
        /\ t[Len(ms) + 1] = m
        /\ DOMAIN t = 1 .. Len(t) /\ DOMAIN ms = 1 .. Len(ms)
    BY AppendProperties, LenProperties
  <1> HIDE DEF t
  <1>2. Made(t, ms, {m})
    BY <1>1 DEF Made
  <1> QED
    BY <1>1, <1>2 DEF t

LEMMA MadeByConcat ==
  ASSUME NEW ms \in Seq(Message), NEW more \in Seq(Message), NEW new,
         \A i \in 1 .. Len(more) : more[i] \in new
  PROVE  /\ ms \o more \in Seq(Message)
         /\ Made(ms \o more, ms, new)
  <1> DEFINE t == ms \o more
  <1>1. /\ t \in Seq(Message) /\ Len(t) = Len(ms) + Len(more)
        /\ Len(ms) \in Nat /\ Len(more) \in Nat
        /\ \A i \in 1 .. Len(ms) + Len(more) : t[i] = IF i <= Len(ms) THEN ms[i] ELSE more[i - Len(ms)]
        /\ DOMAIN t = 1 .. Len(t) /\ DOMAIN ms = 1 .. Len(ms)
    BY ConcatProperties, LenProperties
  <1> HIDE DEF t
  <1>2. Made(t, ms, new)
    <2> SUFFICES ASSUME NEW i \in 1 .. Len(t) PROVE t[i] \in new \/ \E j \in DOMAIN ms : t[i] = ms[j]
      BY <1>1 DEF Made
    <2>1. CASE i <= Len(ms)
      <3>1. i \in 1 .. Len(ms) /\ i \in 1 .. Len(ms) + Len(more)
        BY <1>1, <2>1
      <3>2. t[i] = ms[i] /\ i \in DOMAIN ms
        BY <1>1, <2>1, <3>1
      <3> QED
        BY <3>2
    <2>2. CASE ~(i <= Len(ms))
      <3>1. i - Len(ms) \in 1 .. Len(more)
        BY <1>1, <2>2
      <3> QED
        BY <1>1, <2>2, <3>1
    <2> QED
      BY <2>1, <2>2
  <1> QED
    BY <1>1, <1>2 DEF t

\* A greatest element, as the code's loop from the end finds it.
LEMMA Greatest ==
  ASSUME NEW n \in Nat, NEW T, T \subseteq 1 .. n, T # {}
  PROVE  Max(T) \in T /\ \A j \in T : Max(T) >= j
  <1> DEFINE R == {k \in Nat : k <= n /\ n - k \in T}
  <1>1. R # {}
    <2>1. PICK t \in T : TRUE
      OBVIOUS
    <2>2. n - t \in Nat /\ n - t <= n /\ n - (n - t) = t
      BY <2>1
    <2> QED
      BY <2>1, <2>2
  <1>2. PICK k \in R : \A j \in R : k <= j
    BY <1>1, Least
  <1>3. ASSUME NEW j \in T PROVE n - k >= j
    <2>1. n - j \in Nat /\ n - j <= n /\ n - (n - j) = j
      OBVIOUS
    <2>2. k <= n - j
      BY <1>2, <2>1
    <2> QED
      BY <1>2, <2>2
  <1>4. n - k \in T
    BY <1>2
  <1> QED
    BY <1>3, <1>4 DEF Max

LEMMA Smallest ==
  ASSUME NEW n \in Nat, NEW T, T \subseteq 1 .. n, T # {}
  PROVE  Min(T) \in T /\ \A j \in T : Min(T) <= j
  <1>1. T \subseteq Nat
    OBVIOUS
  <1>2. \E i \in T : \A j \in T : i <= j
    BY <1>1, Least
  <1> QED
    BY <1>2 DEF Min

\* The cut never parts an answer from its call: it falls before a message
\* that is no answer.
LEMMA CutFallsBetweenGroups ==
  ASSUME NEW ms \in Seq(Message), NEW budget
  PROVE  Cut(ms, budget) = 1 \/ (Cut(ms, budget) \in 1 .. Len(ms) /\ ms[Cut(ms, budget)].role # "tool")
  <1> DEFINE starts == {i \in GroupBoundaries(ms) : i + KeepRecent <= Len(ms)}
             fits == {i \in starts : Len(ms) - i + 1 <= budget}
  <1>1. Len(ms) \in Nat /\ DOMAIN ms = 1 .. Len(ms)
    BY LenProperties
  <1>2. starts \subseteq 1 .. Len(ms) /\ fits \subseteq starts
    BY <1>1 DEF GroupBoundaries
  <1>3. \A i \in starts : ms[i].role # "tool"
    BY DEF GroupBoundaries
  <1>4. Cut(ms, budget) = IF Len(ms) <= budget \/ starts = {} THEN 1
                          ELSE IF fits # {} THEN Min(fits) ELSE Max(starts)
    BY DEF Cut
  <1> HIDE DEF starts, fits
  <1>5. fits # {} => Min(fits) \in starts
    BY <1>1, <1>2, Smallest
  <1>6. starts # {} => Max(starts) \in starts
    BY <1>1, <1>2, Greatest
  <1> QED
    BY <1>2, <1>3, <1>4, <1>5, <1>6

LEMMA MadeByCompaction ==
  ASSUME NEW ms \in Seq(Message), NEW budget
  PROVE  /\ CompactMessages(ms, budget) \in Seq(Message)
         /\ Made(CompactMessages(ms, budget), ms, {User})
  <1> DEFINE c == Cut(ms, budget)
             kept == SubSeq(ms, c, Len(ms))
  <1>1. Len(ms) \in Nat /\ DOMAIN ms = 1 .. Len(ms) /\ \A i \in 1 .. Len(ms) : ms[i] \in Message
    BY LenProperties, ElementOfSeq
  <1>2. c \in Nat /\ c >= 1
    BY <1>1, CutFallsBetweenGroups
  <1>3. /\ kept \in Seq(Message)
        /\ Len(kept) = IF c <= Len(ms) THEN Len(ms) - c + 1 ELSE 0
        /\ \A i \in 1 .. Len(ms) - c + 1 : kept[i] = ms[c + i - 1]
    <2>1. c \in Int /\ Len(ms) \in Int /\ \A i \in c .. Len(ms) : ms[i] \in Message
      BY <1>1, <1>2
    <2> HIDE DEF c
    <2> QED
      BY <2>1, SubSeqProperties
  <1>4. DOMAIN kept = 1 .. Len(kept) /\ Len(kept) \in Nat
    BY <1>3, LenProperties
  <1>5. CompactMessages(ms, budget) =
          IF ~Compacts(ms, budget) THEN ms ELSE IF opt.summary THEN <<User>> \o kept ELSE kept
    BY DEF CompactMessages
  <1> HIDE DEF c, kept
  <1>6. \A i \in 1 .. Len(kept) : \E j \in DOMAIN ms : kept[i] = ms[j]
    <2> SUFFICES ASSUME NEW i \in 1 .. Len(kept) PROVE \E j \in DOMAIN ms : kept[i] = ms[j]
      OBVIOUS
    <2>1. i \in 1 .. Len(ms) - c + 1 /\ c + i - 1 \in 1 .. Len(ms)
      BY <1>1, <1>2, <1>3
    <2> QED
      BY <1>1, <1>3, <2>1
  <1>7. Made(kept, ms, {User}) /\ Made(ms, ms, {User})
    BY <1>4, <1>6 DEF Made
  <1>8. <<User>> \o kept \in Seq(Message) /\ Made(<<User>> \o kept, ms, {User})
    <2> DEFINE t == <<User>> \o kept
    <2>1. <<User>> \in Seq(Message) /\ Len(<<User>>) = 1 /\ <<User>>[1] = User
      BY Messages
    <2>2. /\ t \in Seq(Message) /\ Len(t) = 1 + Len(kept)
          /\ \A i \in 1 .. 1 + Len(kept) : t[i] = IF i <= 1 THEN <<User>>[i] ELSE kept[i - 1]
      BY <1>3, <2>1, ConcatProperties
    <2>3. DOMAIN t = 1 .. Len(t)
      BY <2>2, LenProperties
    <2> HIDE DEF t
    <2>4. ASSUME NEW i \in 1 .. Len(t) PROVE t[i] \in {User} \/ \E j \in DOMAIN ms : t[i] = ms[j]
      <3>1. CASE i <= 1
        <4>1. i = 1
          BY <1>4, <2>2, <3>1
        <4> QED
          BY <2>1, <2>2, <3>1, <4>1
      <3>2. CASE ~(i <= 1)
        <4>1. i - 1 \in 1 .. Len(kept)
          BY <1>4, <2>2, <3>2
        <4> QED
          BY <1>6, <2>2, <3>2, <4>1
      <3> QED
        BY <3>1, <3>2
    <2>5. Made(t, ms, {User})
      BY <2>3, <2>4 DEF Made
    <2> QED
      BY <2>2, <2>5 DEF t
  <1> QED
    BY <1>3, <1>5, <1>7, <1>8

\* The calls a fresh process finds open: known, apart, and not answered.
LEMMA PendingCalls ==
  ASSUME NEW ms \in Seq(Message)
  PROVE  LET u == PendingToolCalls(ms) IN
         /\ u \in Seq(Nat)
         /\ \A k \in 1 .. Len(u) : u[k] \notin Answered(ms)
         /\ \A n : Known(n, ms) => /\ \A k \in 1 .. Len(u) : u[k] \in 1 .. n
                                   /\ \A k, l \in 1 .. Len(u) : u[k] = u[l] => k = l
  <1> DEFINE callers == {i \in DOMAIN ms : ms[i].calls # <<>>}
             ids == ms[Max(callers)].calls
  <1>1. Len(ms) \in Nat /\ DOMAIN ms = 1 .. Len(ms) /\ \A i \in 1 .. Len(ms) : ms[i] \in Message
    BY LenProperties, ElementOfSeq
  <1>2. CASE callers = {}
    <2>1. PendingToolCalls(ms) = <<>>
      BY <1>2 DEF PendingToolCalls
    <2>2. <<>> \in Seq(Nat) /\ Len(<<>>) = 0
      BY EmptySeq
    <2> QED
      BY <2>1, <2>2
  <1>3. CASE callers # {}
    <2> DEFINE u == Unanswered(ids, Answered(ms))
    <2>1. PendingToolCalls(ms) = u
      BY <1>3 DEF PendingToolCalls
    <2>2. callers \subseteq 1 .. Len(ms)
      BY <1>1
    <2>3. Max(callers) \in 1 .. Len(ms)
      <3> HIDE DEF callers
      <3> QED
        BY <1>1, <1>3, <2>2, Greatest
    <2>4. ids \in Seq(Nat)
      BY <1>1, <2>3 DEF Message
    <2>5. DOMAIN ids = 1 .. Len(ids)
      BY <2>4, LenProperties
    <2>6. \A n : Known(n, ms) => /\ \A k \in 1 .. Len(ids) : ids[k] \in 1 .. n
                                 /\ \A k, l \in 1 .. Len(ids) : ids[k] = ids[l] => k = l
      BY <1>1, <2>3, <2>5 DEF Known, KnownMessage
    <2> HIDE DEF ids, callers
    <2>7. /\ u \in Seq(Nat)
          /\ \A k \in 1 .. Len(u) : u[k] \notin Answered(ms) /\ \E i \in 1 .. Len(ids) : u[k] = ids[i]
          /\ (\A i, j \in 1 .. Len(ids) : ids[i] = ids[j] => i = j) =>
               \A k, l \in 1 .. Len(u) : u[k] = u[l] => k = l
      BY <2>4, UnansweredLeft
    <2> HIDE DEF u
    <2> QED
      BY <2>1, <2>6, <2>7
  <1> QED
    BY <1>2, <1>3

-----------------------------------------------------------------------------
(* Every variable keeps its type.                                          *)

Checkpoints == [status : Status, turn : Nat, messages : Seq(Message)]
Pcs == {"idle", "top", "llm", "tools", "calling", "saving"}
Savings == [status : Status \cup {"none"}, turn : Nat, then : {"idle", "top", "tools"}, as : Outcome]
Loops == [repairs : Nat, retried : BOOLEAN, baseline : Nat, resumed : BOOLEAN, kept : BOOLEAN]

LEMMA Typed ==
  TypeOK <=>
    /\ opt \in Options /\ pc \in Pcs
    /\ rid \in Nat /\ turn \in Nat /\ asked \in Nat /\ lives \in Nat /\ runs \in 0..opt.runs
    /\ messages \in Seq(Message) /\ session \in Seq(Message)
    /\ todo \in Seq(Nat) /\ ran \in Seq(Nat) /\ deaf \in BOOLEAN
    /\ loop \in Loops
    /\ fired \subseteq {"caller", "deadline"}
    /\ saving \in Savings
    /\ outcome \in Outcome
    /\ store \in [1..opt.runs -> Checkpoints]
  BY DEF TypeOK, Checkpoints, Pcs, Savings, Loops

LEMMA Constants ==
  /\ Fresh \in Loops /\ NoSave \in Savings
  /\ NoCheckpoint \in Checkpoints /\ Torn \in Checkpoints
  /\ \A o \in Options : o.runs \in Nat
  /\ MaxTurns \in Nat
  <1>1. <<>> \in Seq(Message)
    BY EmptySeq
  <1> QED
    BY <1>1, RunAssumption DEF Fresh, Loops, NoSave, Savings, Outcome, NoCheckpoint, Torn, Checkpoints, Status

LEMMA InitTypeOK == Init => TypeOK
  <1> SUFFICES ASSUME Init PROVE TypeOK
    OBVIOUS
  <1>1. <<>> \in Seq(Message) /\ <<>> \in Seq(Nat)
    BY EmptySeq
  <1>2. opt.runs \in Nat
    BY Constants DEF Init
  <1>3. 0 \in 0 .. opt.runs
    BY <1>2
  <1>4. store \in [1 .. opt.runs -> Checkpoints]
    BY Constants DEF Init
  <1>5. "none" \in Outcome /\ "idle" \in Pcs
    BY DEF Outcome, Pcs
  <1> QED
    BY <1>1, <1>3, <1>4, <1>5, Constants, Typed DEF Init

\* A run that stops, at once or after a save, changes nothing else.
Stops ==
  /\ UNCHANGED <<opt, messages, todo, loop, store, session, ran>>
  /\ fired' = fired /\ deaf' = deaf /\ turn' = turn /\ asked' = asked
  /\ pc' \in {"idle", "saving"} /\ saving' \in Savings /\ outcome' \in Outcome
  /\ rid' \in Nat /\ lives' \in Nat /\ runs' \in runs .. opt.runs
  /\ pc' = "saving" => /\ opt.ckpt /\ pc \in {"top", "llm", "calling"} /\ rid' = rid
                       /\ saving'.status \in {"running", "done", "error"} /\ saving'.then = "idle"

LEMMA StopsByCheckpoint ==
  ASSUME TypeOK, NEW t \in Nat, NEW as \in Outcome, Checkpoint("error", t, "idle", as),
         pc \in {"top", "llm", "calling"},
         UNCHANGED <<opt, messages, todo, loop, store, session, ran, fired, deaf, turn, asked, rid, lives, runs>>
  PROVE  Stops
  <1>1. opt \in Options /\ rid \in Nat /\ lives \in Nat /\ runs \in 0 .. opt.runs /\ outcome \in Outcome
    BY Typed
  <1>2. runs \in runs .. opt.runs
    BY <1>1, Constants
  <1>3. CASE opt.ckpt
    <2>1. /\ pc' = "saving" /\ outcome' = outcome
          /\ saving' = [status |-> "error", turn |-> t, then |-> "idle", as |-> as]
      BY <1>3 DEF Checkpoint
    <2>2. saving' \in Savings
      BY <2>1 DEF Savings, Status
    <2> QED
      BY <1>1, <1>2, <1>3, <2>1, <2>2 DEF Stops
  <1>4. CASE ~opt.ckpt
    <2>1. pc' = "idle" /\ outcome' = as /\ saving' = NoSave
      BY <1>4 DEF Checkpoint, Settle
    <2> QED
      BY <1>1, <1>2, <2>1, Constants DEF Stops
  <1> QED
    BY <1>3, <1>4

LEMMA StopsBySettling ==
  ASSUME TypeOK, NEW as \in Outcome, Settle(as), rid' \in Nat, lives' \in Nat, runs' \in runs .. opt.runs,
         UNCHANGED <<opt, messages, todo, loop, store, session, ran, fired, deaf, turn, asked>>
  PROVE  Stops
  BY Constants DEF Stops, Settle

Stopping ==
  \/ RunRefused \/ (\E r \in 1..opt.runs : ResumeSettled(r))
  \/ CancelledAtTop \/ OutOfTurns \/ AnswerRejected \/ LlmFails
  \/ ((ToolFails \/ ToolTimesOut) /\ Aborted) \/ CallCancelled \/ ToolRefused

LEMMA StoppingStops ==
  ASSUME TypeOK, Stopping
  PROVE  Stops
  <1>1. /\ opt \in Options /\ rid \in Nat /\ lives \in Nat /\ runs \in 0 .. opt.runs /\ turn \in Nat
        /\ opt.runs \in Nat /\ MaxTurns \in Nat
    BY Typed, Constants
  <1>2. /\ {"error", "answer", "none", Cause} \subseteq Outcome
        /\ (IF Aborted THEN Cause ELSE "error") \in Outcome
    BY DEF Outcome, Cause
  <1>3. runs \in runs .. opt.runs
    BY <1>1
  <1>4. CASE RunRefused
    <2>1. runs + 1 \in runs .. opt.runs /\ runs + 1 \in Nat
      BY <1>1, <1>4 DEF RunRefused
    <2>2. /\ runs' = runs + 1 /\ rid' = runs + 1 /\ Settle("error") /\ lives' = lives
          /\ UNCHANGED <<opt, messages, todo, loop, store, session, ran, fired, deaf, turn, asked>>
      BY <1>4 DEF RunRefused, durable
    <2> QED
      BY <1>1, <1>2, <2>1, <2>2, StopsBySettling
  <1>5. ASSUME NEW r \in 1 .. opt.runs, ResumeSettled(r) PROVE Stops
    <2> DEFINE as == IF opt.ckpt /\ Readable(store[r]) THEN "answer" ELSE "error"
    <2>1. /\ lives' = lives + 1 /\ rid' = r /\ runs' = runs /\ Settle(as)
          /\ UNCHANGED <<opt, messages, todo, loop, store, session, ran, fired, deaf, turn, asked>>
      BY <1>5 DEF ResumeSettled, durable
    <2>2. r \in Nat /\ lives + 1 \in Nat /\ as \in Outcome
      BY <1>1, <1>2
    <2> HIDE DEF as
    <2> QED
      BY <1>3, <2>1, <2>2, StopsBySettling
  <1>6. CASE CancelledAtTop
    BY <1>1, <1>2, <1>3, <1>6, StopsBySettling DEF CancelledAtTop, durable
  <1>7. CASE LlmFails
    BY <1>1, <1>2, <1>3, <1>7, StopsBySettling DEF LlmFails, durable
  <1>8. CASE OutOfTurns
    BY <1>1, <1>2, <1>8, StopsByCheckpoint DEF OutOfTurns, durable
  <1>9. CASE AnswerRejected
    BY <1>1, <1>2, <1>9, StopsByCheckpoint DEF AnswerRejected, durable
  <1>10. CASE CallCancelled
    BY <1>1, <1>2, <1>10, StopsByCheckpoint DEF CallCancelled, durable
  <1>11. CASE ToolRefused
    BY <1>1, <1>2, <1>11, StopsByCheckpoint DEF ToolRefused, durable
  <1>12. CASE (ToolFails \/ ToolTimesOut) /\ Aborted
    <2>1. /\ pc = "calling" /\ Checkpoint("error", turn, "idle", Cause)
          /\ UNCHANGED <<opt, messages, todo, loop, store, session, ran, fired, deaf, turn, asked, rid, lives, runs>>
      BY <1>12 DEF ToolFails, ToolTimesOut, durable
    <2> QED
      BY <1>1, <1>2, <2>1, StopsByCheckpoint
  <1> QED
    BY <1>4, <1>5, <1>6, <1>7, <1>8, <1>9, <1>10, <1>11, <1>12 DEF Stopping

\* What answering a call does.
Answering == (ToolReturns \/ ((ToolFails \/ ToolTimesOut) /\ ~Aborted))
Answers1 ==
  /\ pc = "calling"
  /\ UNCHANGED <<opt, rid, loop, deaf, fired, asked, store, session, ran, runs, lives>>
  /\ messages' = Append(messages, Result(Head(todo)))
  /\ todo' = Tail(todo)
  /\ turn' \in {turn, turn + 1}
  /\ \/ pc' \in {"tools", "top"} /\ outcome' = outcome /\ saving' = saving
     \/ /\ pc' = "saving" /\ outcome' = outcome /\ opt.ckpt
        /\ \E t \in {turn, turn + 1}, then \in {"top", "tools"} :
             saving' = [status |-> "running", turn |-> t, then |-> then, as |-> "none"]
  /\ (pc' = "top" \/ (pc' = "saving" /\ saving'.then = "top")) => todo' = <<>>
  /\ pc' = "tools" => ~opt.ckpt \/ loop.resumed
  /\ pc' = "top" => ~opt.ckpt

LEMMA AnsweringAnswers ==
  ASSUME Answering
  PROVE  Answers1
  <1>1. /\ pc = "calling" /\ Answer
        /\ UNCHANGED <<opt, rid, loop, deaf, fired, asked, store, session, ran, runs, lives>>
    BY DEF Answering, ToolReturns, ToolFails, ToolTimesOut, durable
  <1>2. messages' = Append(messages, Result(Head(todo))) /\ todo' = Tail(todo)
    BY <1>1 DEF Answer
  <1>3. CASE todo' # <<>> /\ loop.resumed
    BY <1>1, <1>2, <1>3 DEF Answer, Answers1
  <1>4. CASE todo' # <<>> /\ ~loop.resumed
    <2>1. turn' = turn /\ Checkpoint("running", turn, "tools", "none")
      BY <1>1, <1>4 DEF Answer
    <2> QED
      BY <1>1, <1>2, <1>4, <2>1 DEF Answers1, Checkpoint
  <1>5. CASE todo' = <<>>
    <2>1. turn' \in {turn, turn + 1} /\ Checkpoint("running", turn', "top", "none")
      BY <1>1, <1>5 DEF Answer
    <2> QED
      BY <1>1, <1>2, <1>5, <2>1 DEF Answers1, Checkpoint
  <1> QED
    BY <1>3, <1>4, <1>5

\* Steps that touch neither history, nor calls, nor what is stored.
Aside ==
  /\ UNCHANGED <<opt, pc, rid, turn, messages, todo, loop, deaf, saving, outcome, asked, store, session, ran, runs, lives>>
  /\ fired' \subseteq fired \cup {"caller", "deadline"}

LEMMA AsideSteps ==
  ASSUME (\E by \in {"caller", "deadline"} : Fire(by)) \/ Finished \/ UNCHANGED vars
  PROVE  Aside
  BY DEF Aside, Fire, Finished, vars, process, durable

\* The steps of Next, by what they do.
LEMMA NextCases ==
  ASSUME [Next]_vars
  PROVE  \/ Aside \/ Stopping \/ Answering
         \/ Run \/ SaveEnds \/ SaveFails \/ Crash
         \/ (\E r \in 1..opt.runs : Resume(r))
         \/ StartTurn \/ AsksTools \/ Answers \/ Repairs \/ Overflows \/ StartCall
  BY AsideSteps DEF Next, Stopping, Answering

LEMMA EnterTypes ==
  ASSUME NEW r \in Nat, NEW ms \in Seq(Message), NEW t \in Nat, NEW base \in Nat, NEW resumed \in BOOLEAN,
         opt \in Options, Enter(r, ms, t, base, resumed)
  PROVE  /\ rid' \in Nat /\ turn' \in Nat /\ asked' \in Nat
         /\ messages' \in Seq(Message) /\ todo' \in Seq(Nat) /\ deaf' \in BOOLEAN
         /\ loop' \in Loops /\ fired' \subseteq {"caller", "deadline"} /\ saving' \in Savings
         /\ outcome' \in Outcome /\ pc' \in Pcs
  <1>1. opt.session \in BOOLEAN
    BY RunAssumption
  <1>2. /\ rid' = r /\ messages' = ms /\ turn' = t /\ todo' = PendingToolCalls(ms)
        /\ loop' = [Fresh EXCEPT !.baseline = base, !.resumed = resumed /\ todo' # <<>>,
                                 !.kept = opt.session /\ ~resumed]
        /\ pc' = (IF todo' # <<>> THEN "tools" ELSE "top")
        /\ deaf' = FALSE /\ fired' = {} /\ saving' = NoSave /\ outcome' = "none" /\ asked' = 0
    BY DEF Enter
  <1>3. todo' \in Seq(Nat)
    BY <1>2, PendingCalls
  <1>4. loop' = [repairs |-> 0, retried |-> FALSE, baseline |-> base,
                 resumed |-> (resumed /\ todo' # <<>>), kept |-> (opt.session /\ ~resumed)]
    BY <1>2 DEF Fresh
  <1>5. loop' \in Loops
    <2> DEFINE a == resumed /\ todo' # <<>>
               b == opt.session /\ ~resumed
    <2>1. a \in BOOLEAN /\ b \in BOOLEAN
      OBVIOUS
    <2>2. loop' = [repairs |-> 0, retried |-> FALSE, baseline |-> base, resumed |-> a, kept |-> b]
      BY <1>4
    <2> HIDE DEF a, b
    <2> QED
      BY <2>1, <2>2 DEF Loops
  <1> QED
    BY <1>2, <1>3, <1>5, Constants DEF Outcome, Pcs

LEMMA CheckpointTypes ==
  ASSUME TypeOK, NEW status \in {"running", "done", "error"}, NEW t \in Nat,
         NEW then \in {"idle", "top", "tools"}, NEW as \in Outcome, Checkpoint(status, t, then, as)
  PROVE  pc' \in Pcs /\ saving' \in Savings /\ outcome' \in Outcome
  <1>1. [status |-> status, turn |-> t, then |-> then, as |-> as] \in Savings
    BY DEF Savings, Status
  <1>2. saving \in Savings /\ outcome \in Outcome
    BY Typed
  <1> QED
    BY <1>1, <1>2, Constants DEF Checkpoint, Settle, Pcs

LEMMA SavedTypes ==
  ASSUME TypeOK, pc = "saving", saving.status \in {"running", "done", "error"}
  PROVE  Saved \in Checkpoints
  <1>1. messages \in Seq(Message) /\ saving.turn \in Nat
    BY Typed DEF Savings
  <1> QED
    BY <1>1 DEF Saved, Checkpoints, Status

LEMMA Nonempty ==
  ASSUME NEW S, NEW s \in Seq(S), s # <<>>
  PROVE  /\ 1 \in 1 .. Len(s) /\ Head(s) = s[1] /\ Head(s) \in S /\ Len(s) \in Nat
         /\ Tail(s) \in Seq(S) /\ Len(Tail(s)) = Len(s) - 1
         /\ \A i \in 1 .. Len(Tail(s)) : Tail(s)[i] = s[i + 1]
  BY EmptySeq, HeadTailProperties

LEMMA StoreTypes ==
  ASSUME TypeOK, NEW c \in Checkpoints
  PROVE  [store EXCEPT ![rid] = c] \in [1..opt.runs -> Checkpoints]
  BY Typed

\* A save has a status, a call has been asked for, and it has a number.
LEMMA StepTypeOK ==
  ASSUME TypeOK, [Next]_vars, pc = "saving" => saving.status \in {"running", "done", "error"},
         pc = "calling" => todo # <<>>, \A k \in 1 .. Len(todo) : todo[k] \in 1 .. Len(ran)
  PROVE  TypeOK'
  <1> USE DEF durable
  <1>0. TypeOK' <=>
    /\ opt' \in Options /\ pc' \in Pcs
    /\ rid' \in Nat /\ turn' \in Nat /\ asked' \in Nat /\ lives' \in Nat /\ runs' \in 0..opt'.runs
    /\ messages' \in Seq(Message) /\ session' \in Seq(Message)
    /\ todo' \in Seq(Nat) /\ ran' \in Seq(Nat) /\ deaf' \in BOOLEAN
    /\ loop' \in Loops
    /\ fired' \subseteq {"caller", "deadline"}
    /\ saving' \in Savings
    /\ outcome' \in Outcome
    /\ store' \in [1..opt'.runs -> Checkpoints]
    BY DEF TypeOK, Checkpoints, Pcs, Savings, Loops
  <1>1. /\ opt \in Options /\ pc \in Pcs
        /\ rid \in Nat /\ turn \in Nat /\ asked \in Nat /\ lives \in Nat /\ runs \in 0..opt.runs
        /\ messages \in Seq(Message) /\ session \in Seq(Message)
        /\ todo \in Seq(Nat) /\ ran \in Seq(Nat) /\ deaf \in BOOLEAN
        /\ loop \in Loops
        /\ fired \subseteq {"caller", "deadline"}
        /\ saving \in Savings
        /\ outcome \in Outcome
        /\ store \in [1..opt.runs -> Checkpoints]
    BY Typed
  <1>2. /\ opt.runs \in Nat /\ turn + 1 \in Nat /\ asked + 1 \in Nat /\ lives + 1 \in Nat
        /\ "none" \in Outcome /\ "error" \in Outcome /\ "answer" \in Outcome /\ "crashed" \in Outcome
        /\ {"idle", "top", "llm", "tools", "calling", "saving"} \subseteq Pcs
    BY <1>1, Constants DEF Outcome, Pcs
  <1>3. CASE Aside
    <2>1. fired' \subseteq {"caller", "deadline"}
      BY <1>1, <1>3 DEF Aside
    <2> QED
      BY <1>0, <1>1, <1>3, <2>1 DEF Aside
  <1>4. CASE Stopping
    <2>1. Stops
      BY <1>4, StoppingStops
    <2>2. runs' \in 0 .. opt.runs
      BY <1>1, <2>1 DEF Stops
    <2>3. pc' \in Pcs
      BY <2>1 DEF Stops, Pcs
    <2> QED
      BY <1>0, <1>1, <2>1, <2>2, <2>3 DEF Stops
  <1>5. CASE Answering
    <2>1. Answers1
      BY <1>5, AnsweringAnswers
    <2>2. todo # <<>> => Head(todo) \in Nat /\ Tail(todo) \in Seq(Nat)
      BY <1>1, HeadTailProperties
    <2>3. todo # <<>> => messages' \in Seq(Message)
      BY <1>1, <2>1, <2>2, Messages, MadeByAppend DEF Answers1
    <2>4. pc' \in Pcs /\ saving' \in Savings /\ outcome' \in Outcome
      <3>1. \A t \in {turn, turn + 1} : \A then \in {"top", "tools"} :
              [status |-> "running", turn |-> t, then |-> then, as |-> "none"] \in Savings
        BY <1>1, <1>2 DEF Savings, Status
      <3> QED
        BY <1>1, <1>2, <2>1, <3>1 DEF Answers1
    <2> QED
      BY <1>0, <1>1, <1>2, <2>1, <2>2, <2>3, <2>4 DEF Answers1
  <1>6. CASE Run
    <2> DEFINE before == IF opt.session THEN session ELSE <<>>
    <2>1. /\ runs' = runs + 1 /\ runs < opt.runs /\ Enter(runs + 1, Append(before, User), 0, Len(before), FALSE)
          /\ UNCHANGED <<opt, store, session, ran, lives>>
      BY <1>6 DEF Run
    <2>2. before \in Seq(Message) /\ Len(before) \in Nat
      BY <1>1, EmptySeq, LenProperties
    <2>3. Append(before, User) \in Seq(Message)
      BY <2>2, Messages, MadeByAppend
    <2>4. runs + 1 \in Nat /\ runs + 1 \in 0 .. opt.runs
      BY <1>1, <1>2, <2>1
    <2> HIDE DEF before
    <2>5. /\ rid' \in Nat /\ turn' \in Nat /\ asked' \in Nat
          /\ messages' \in Seq(Message) /\ todo' \in Seq(Nat) /\ deaf' \in BOOLEAN
          /\ loop' \in Loops /\ fired' \subseteq {"caller", "deadline"} /\ saving' \in Savings
          /\ outcome' \in Outcome /\ pc' \in Pcs
      BY <1>1, <2>1, <2>2, <2>3, <2>4, EnterTypes
    <2> QED
      BY <1>0, <1>1, <2>1, <2>4, <2>5
  <1>7. ASSUME NEW r \in 1 .. opt.runs, Resume(r) PROVE TypeOK'
    <2>1. /\ lives' = lives + 1 /\ Enter(r, store[r].messages, store[r].turn, 0, TRUE)
          /\ UNCHANGED <<opt, store, session, ran, runs>>
      BY <1>7 DEF Resume
    <2>2. store[r].messages \in Seq(Message) /\ store[r].turn \in Nat /\ r \in Nat
      <3>1. store[r] \in Checkpoints
        BY <1>1
      <3>2. r \in Nat
        BY <1>2
      <3> QED
        BY <3>1, <3>2 DEF Checkpoints
    <2>3. /\ rid' \in Nat /\ turn' \in Nat /\ asked' \in Nat
          /\ messages' \in Seq(Message) /\ todo' \in Seq(Nat) /\ deaf' \in BOOLEAN
          /\ loop' \in Loops /\ fired' \subseteq {"caller", "deadline"} /\ saving' \in Savings
          /\ outcome' \in Outcome /\ pc' \in Pcs
      BY <1>1, <2>1, <2>2, EnterTypes
    <2> QED
      BY <1>0, <1>1, <1>2, <2>1, <2>3
  <1>8. CASE SaveEnds
    <2>1. store' \in [1 .. opt.runs -> Checkpoints]
      BY <1>8, SavedTypes, StoreTypes DEF SaveEnds
    <2>2. saving.then \in {"idle", "top", "tools"} /\ saving.as \in Outcome
      BY <1>1 DEF Savings
    <2>3. pc' \in Pcs /\ saving' \in Savings /\ outcome' \in Outcome
      BY <1>1, <1>2, <1>8, <2>2, Constants DEF SaveEnds, Settle, Pcs
    <2> QED
      BY <1>0, <1>1, <1>8, <2>1, <2>3 DEF SaveEnds
  <1>9. CASE SaveFails
    <2>1. store' \in [1 .. opt.runs -> Checkpoints]
      BY <1>1, <1>9, SavedTypes, StoreTypes DEF SaveFails
    <2>2. pc' \in Pcs /\ saving' \in Savings /\ outcome' \in Outcome
      BY <1>2, <1>9, Constants DEF SaveFails, Settle
    <2> QED
      BY <1>0, <1>1, <1>9, <2>1, <2>2 DEF SaveFails
  <1>10. CASE Crash
    <2>1. store' \in [1 .. opt.runs -> Checkpoints]
      <3>1. CASE pc # "saving"
        BY <1>1, <1>10, <3>1 DEF Crash
      <3>2. CASE pc = "saving"
        <4>1. Saved \in Checkpoints /\ Torn \in Checkpoints
          BY <3>2, SavedTypes, Constants
        <4>2. store' \in {store, [store EXCEPT ![rid] = Saved], [store EXCEPT ![rid] = Torn]}
          BY <1>10, <3>2 DEF Crash
        <4> QED
          BY <1>1, <4>1, <4>2, StoreTypes
      <3> QED
        BY <3>1, <3>2
    <2>2. <<>> \in Seq(Message) /\ <<>> \in Seq(Nat)
      BY EmptySeq
    <2>3. /\ pc' = "idle" /\ outcome' = "crashed" /\ saving' = NoSave
          /\ messages' = <<>> /\ todo' = <<>> /\ loop' = Fresh /\ deaf' = FALSE /\ fired' = {}
          /\ UNCHANGED <<opt, rid, turn, asked, session, ran, runs, lives>>
      BY <1>10 DEF Crash
    <2> QED
      BY <1>0, <1>1, <1>2, <2>1, <2>2, <2>3, Constants
  <1>11. CASE StartTurn
    <2>1. messages' \in Seq(Message)
      BY <1>1, <1>11, MadeByCompaction DEF StartTurn
    <2> QED
      BY <1>0, <1>1, <1>2, <1>11, <2>1 DEF StartTurn
  <1>12. CASE Overflows
    <2>1. messages' \in Seq(Message)
      BY <1>1, <1>12, MadeByCompaction DEF Overflows
    <2>2. loop' \in Loops
      BY <1>1, <1>12 DEF Overflows, Loops
    <2>3. /\ pc' = "top"
          /\ UNCHANGED <<opt, rid, turn, todo, deaf, fired, saving, outcome, asked, store, session, ran, runs, lives>>
      BY <1>12 DEF Overflows
    <2> QED
      BY <1>0, <1>1, <1>2, <2>1, <2>2, <2>3
  <1>13. CASE AsksTools
    <2>1. PICK n \in 1 .. MaxCalls :
            /\ messages' = Append(messages, Assistant([i \in 1 .. n |-> Len(ran) + i]))
            /\ todo' = [i \in 1 .. n |-> Len(ran) + i]
            /\ ran' = ran \o [i \in 1 .. n |-> 0]
      BY <1>13 DEF AsksTools
    <2>2. n \in Nat /\ Len(ran) \in Nat
      BY <1>1, RunAssumption, LenProperties
    <2>3. todo' \in Seq(Nat) /\ [i \in 1 .. n |-> 0] \in Seq(Nat)
      BY <2>1, <2>2, IsASeq
    <2>4. ran' \in Seq(Nat)
      BY <1>1, <2>1, <2>3, ConcatProperties
    <2>5. messages' \in Seq(Message)
      BY <1>1, <2>1, <2>3, Messages, MadeByAppend
    <2>6. loop' \in Loops
      BY <1>1, <1>13 DEF AsksTools, Loops
    <2>7. /\ pc' = "tools"
          /\ UNCHANGED <<opt, rid, turn, deaf, fired, saving, outcome, asked, store, session, runs, lives>>
      BY <1>13 DEF AsksTools
    <2> QED
      BY <1>0, <1>1, <1>2, <2>3, <2>4, <2>5, <2>6, <2>7
  <1>14. CASE Answers
    <2>1. messages' \in Seq(Message)
      BY <1>1, <1>14, Messages, MadeByAppend DEF Answers
    <2>2. session' \in Seq(Message)
      <3>1. Len(messages') \in Nat /\ (\A i \in 1 .. Len(messages') : messages'[i] \in Message) /\ loop.baseline \in Nat
        BY <1>1, <2>1, LenProperties, ElementOfSeq DEF Loops
      <3>2. SubSeq(messages', loop.baseline + 1, Len(messages')) \in Seq(Message)
        <4>1. /\ loop.baseline + 1 \in Int /\ Len(messages') \in Int
              /\ \A i \in loop.baseline + 1 .. Len(messages') : messages'[i] \in Message
          BY <3>1
        <4> QED
          BY <4>1, SubSeqProperties
      <3>3. session' = IF loop.kept THEN session \o SubSeq(messages', loop.baseline + 1, Len(messages')) ELSE session
        BY <1>14 DEF Answers, PersistSession
      <3> QED
        BY <1>1, <3>2, <3>3, ConcatProperties
    <2>3. pc' \in Pcs /\ saving' \in Savings /\ outcome' \in Outcome
      BY <1>1, <1>2, <1>14, CheckpointTypes DEF Answers
    <2> QED
      BY <1>0, <1>1, <1>14, <2>1, <2>2, <2>3 DEF Answers
  <1>15. CASE Repairs
    <2>1. <<Assistant(<<>>), User>> \in Seq(Message)
      BY Messages
    <2>2. messages' \in Seq(Message)
      BY <1>1, <1>15, <2>1, ConcatProperties DEF Repairs
    <2>3. pc' \in Pcs /\ saving' \in Savings /\ outcome' \in Outcome
      BY <1>1, <1>2, <1>15, CheckpointTypes DEF Repairs
    <2>4. loop' \in Loops
      <3>1. loop' = [loop EXCEPT !.repairs = loop.repairs + 1] /\ loop.repairs + 1 \in Nat
        BY <1>1, <1>15, SMTT(30) DEF Repairs, Loops
      <3> QED
        BY <1>1, <3>1 DEF Loops
    <2>5. /\ turn' = turn + 1
          /\ UNCHANGED <<opt, rid, todo, deaf, fired, asked, store, session, ran, runs, lives>>
      BY <1>15 DEF Repairs
    <2> QED
      BY <1>0, <1>1, <1>2, <2>2, <2>3, <2>4, <2>5
  <1>16. CASE StartCall
    <2>1. ran' \in Seq(Nat)
      <3>1. Head(todo) \in 1 .. Len(ran)
        BY <1>1, <1>16, Nonempty DEF StartCall
      <3>2. /\ ran[Head(todo)] + 1 \in Nat
            /\ ran' = [ran EXCEPT ![Head(todo)] = ran[Head(todo)] + 1]
        BY <1>1, <1>16, <3>1, ElementOfSeq DEF StartCall
      <3> QED
        BY <1>1, <3>1, <3>2, ExceptSeq
    <2>2. deaf' \in BOOLEAN
      BY <1>16 DEF StartCall, Aborted
    <2> QED
      BY <1>0, <1>1, <1>2, <1>16, <2>1, <2>2 DEF StartCall
  <1> QED
    BY <1>3, <1>4, <1>5, <1>6, <1>7, <1>8, <1>9, <1>10, <1>11, <1>12, <1>13, <1>14, <1>15, <1>16, NextCases

-----------------------------------------------------------------------------
(* What RecordedNeverRerun and ProgressSaved need: the calls to be made are *)
(* known, apart, and answered neither in memory nor in the checkpoint; and  *)
(* between two saves at most one answer has been added.                     *)

HistoriesKnown ==
  /\ Known(Len(ran), messages) /\ Known(Len(ran), session)
  /\ \A r \in 1 .. opt.runs : Known(Len(ran), store[r].messages)

TodoOK ==
  /\ \A k \in 1 .. Len(todo) : todo[k] \in 1 .. Len(ran) /\ todo[k] \notin Answered(messages)
  /\ \A k, l \in 1 .. Len(todo) : todo[k] = todo[l] => k = l
  /\ ~Ended => \A k \in 1 .. Len(todo) : todo[k] \notin Answered(store[rid].messages)
  /\ pc = "calling" => todo # <<>>
  /\ (pc \in {"top", "llm"} \/ (pc = "saving" /\ saving.then = "top")) => todo = <<>>

RunsOK ==
  /\ ~Ended => rid \in 1 .. runs
  /\ pc = "saving" => saving.status \in {"running", "done", "error"}
  /\ \A r \in 1 .. opt.runs : r > runs => store[r] = NoCheckpoint

SavedOK ==
  opt.ckpt => /\ (pc \in {"top", "llm"} \/ (pc \in {"tools", "calling"} /\ ~loop.resumed)) => Unsaved = {}
              /\ (pc = "saving" /\ ~loop.resumed) => \E x : Unsaved \subseteq {x}

RunInv == TypeOK /\ HistoriesKnown /\ TodoOK /\ RunsOK /\ SavedOK

LEMMA RunInvTypes ==
  ASSUME RunInv
  PROVE  /\ opt \in Options /\ pc \in Pcs /\ opt.runs \in Nat
         /\ rid \in Nat /\ turn \in Nat /\ asked \in Nat /\ lives \in Nat /\ runs \in 0..opt.runs
         /\ messages \in Seq(Message) /\ session \in Seq(Message)
         /\ todo \in Seq(Nat) /\ ran \in Seq(Nat) /\ Len(ran) \in Nat /\ Len(todo) \in Nat
         /\ loop \in Loops /\ saving \in Savings
         /\ store \in [1..opt.runs -> Checkpoints]
         /\ \A r \in 1 .. opt.runs : store[r].messages \in Seq(Message)
  <1>1. TypeOK
    BY DEF RunInv
  <1>2. store \in [1..opt.runs -> Checkpoints]
    BY <1>1, Typed
  <1>3. \A r \in 1 .. opt.runs : store[r].messages \in Seq(Message)
    BY <1>2 DEF Checkpoints
  <1>4. Len(ran) \in Nat /\ Len(todo) \in Nat
    BY <1>1, Typed, LenProperties
  <1> QED
    BY <1>1, <1>2, <1>3, <1>4, Typed, Constants

LEMMA InitRunInv == Init => RunInv
  <1> SUFFICES ASSUME Init PROVE RunInv
    OBVIOUS
  <1>1. TypeOK
    BY InitTypeOK
  <1>2. Len(todo) = 0 /\ Len(ran) = 0 /\ Ended /\ pc = "idle"
    BY EmptySeq DEF Init, Ended
  <1>3. \A r \in 1 .. opt.runs : store[r] = NoCheckpoint
    BY DEF Init
  <1>4. HistoriesKnown
    <2>1. messages = <<>> /\ session = <<>>
      BY DEF Init
    <2>2. \A r \in 1 .. opt.runs : store[r].messages = <<>>
      BY <1>3 DEF NoCheckpoint
    <2> QED
      BY <2>1, <2>2, PlainKnown DEF HistoriesKnown
  <1>5. TodoOK
    BY <1>2 DEF TodoOK
  <1>6. RunsOK /\ SavedOK
    BY <1>2, <1>3 DEF RunsOK, SavedOK
  <1> QED
    BY <1>1, <1>4, <1>5, <1>6 DEF RunInv

LEMMA StepTypeOKFromInv ==
  ASSUME RunInv, [Next]_vars
  PROVE  TypeOK'
  BY StepTypeOK DEF RunInv, TodoOK, RunsOK

LEMMA AsideKeeps ==
  ASSUME RunInv, Aside
  PROVE  HistoriesKnown' /\ TodoOK' /\ RunsOK' /\ SavedOK'
  BY DEF RunInv, Aside, HistoriesKnown, TodoOK, RunsOK, SavedOK, Unsaved, Ended

LEMMA StopsKeeps ==
  ASSUME RunInv, Stops
  PROVE  HistoriesKnown' /\ TodoOK' /\ RunsOK' /\ SavedOK'
  <1>1. /\ UNCHANGED <<opt, messages, todo, loop, store, session, ran>>
        /\ pc' \in {"idle", "saving"} /\ runs' \in runs .. opt.runs /\ runs \in 0 .. opt.runs /\ opt.runs \in Nat
        /\ pc' = "saving" => /\ opt.ckpt /\ pc \in {"top", "llm", "calling"} /\ rid' = rid
                             /\ saving'.status \in {"running", "done", "error"} /\ saving'.then = "idle"
    BY RunInvTypes DEF Stops
  <1>2. HistoriesKnown'
    BY <1>1 DEF RunInv, HistoriesKnown
  <1>3. TodoOK'
    BY <1>1 DEF RunInv, TodoOK, Ended
  <1>4. RunsOK'
    <2>1. \A r \in 1 .. opt.runs : r > runs' => r > runs
      BY <1>1
    <2>2. pc' = "saving" => rid' \in 1 .. runs'
      BY <1>1 DEF RunInv, RunsOK, Ended
    <2> QED
      BY <1>1, <2>1, <2>2 DEF RunInv, RunsOK, Ended
  <1>5. SavedOK'
    BY <1>1 DEF RunInv, SavedOK, Unsaved
  <1> QED
    BY <1>2, <1>3, <1>4, <1>5

\* Where nothing is stored and no call made, the stored histories stay known.
LEMMA KeptKnown ==
  ASSUME RunInv, UNCHANGED <<opt, store, session>>, Len(ran) <= Len(ran)', Len(ran)' \in Nat,
         Known(Len(ran)', messages')
  PROVE  HistoriesKnown'
  <1>1. \A ms : Known(Len(ran), ms) => Known(Len(ran)', ms)
    BY RunInvTypes, KnownLater
  <1> QED
    BY <1>1 DEF RunInv, HistoriesKnown

LEMMA RunKeeps ==
  ASSUME RunInv, Run
  PROVE  HistoriesKnown' /\ TodoOK' /\ RunsOK' /\ SavedOK'
  <1> DEFINE before == IF opt.session THEN session ELSE <<>>
             ms == Append(before, User)
  <1>1. /\ runs' = runs + 1 /\ runs < opt.runs
        /\ Enter(runs + 1, ms, 0, Len(before), FALSE)
        /\ UNCHANGED <<opt, store, session, ran, lives>>
    BY DEF Run, durable
  <1>2. /\ rid' = runs + 1 /\ messages' = ms /\ todo' = PendingToolCalls(ms)
        /\ pc' = (IF todo' # <<>> THEN "tools" ELSE "top")
    BY <1>1 DEF Enter
  <1>3. before \in Seq(Message) /\ Known(Len(ran), before) /\ Answered(before) \subseteq Answered(session)
    BY RunInvTypes, EmptySeq, PlainKnown DEF RunInv, HistoriesKnown
  <1>4. ms \in Seq(Message) /\ Made(ms, before, {User})
    BY <1>3, Messages, MadeByAppend
  <1> HIDE DEF before, ms
  <1>5. Known(Len(ran), ms) /\ Answered(ms) \subseteq Answered(session)
    <2>1. Known(Len(ran), ms)
      BY <1>3, <1>4, MadeKnown, PlainKnown
    <2>2. Answered(ms) \subseteq Answered(before) \cup {}
      <3>1. \A m \in {User} : m.role = "tool" => m.id \in {}
        BY PlainKnown
      <3> QED
        BY <1>4, <3>1, MadeAnswers
    <2> QED
      BY <1>3, <2>1, <2>2
  <1>6. runs \in 0 .. opt.runs /\ opt.runs \in Nat /\ Len(ran) \in Nat
    BY RunInvTypes
  <1>7. HistoriesKnown'
    BY <1>1, <1>2, <1>5 DEF RunInv, HistoriesKnown
  <1>8. store[rid'].messages = <<>> /\ Answered(store[rid'].messages) = {}
    <2>1. rid' \in 1 .. opt.runs /\ rid' > runs
      BY <1>1, <1>2, <1>6
    <2>2. store[rid'] = NoCheckpoint
      BY <2>1 DEF RunInv, RunsOK
    <2>3. store[rid'].messages = <<>>
      BY <2>2 DEF NoCheckpoint
    <2> QED
      BY <2>3, PlainKnown
  <1>9. TodoOK'
    <2>1. /\ \A k \in 1 .. Len(todo') : todo'[k] \notin Answered(ms) /\ todo'[k] \in 1 .. Len(ran)
          /\ \A k, l \in 1 .. Len(todo') : todo'[k] = todo'[l] => k = l
      BY <1>2, <1>4, <1>5, PendingCalls
    <2> QED
      BY <1>1, <1>2, <1>8, <2>1 DEF TodoOK
  <1>10. RunsOK'
    <2>1. rid' \in 1 .. runs'
      BY <1>1, <1>2, <1>6
    <2>2. \A r \in 1 .. opt.runs : r > runs' => r > runs
      BY <1>1, <1>6
    <2> QED
      BY <1>1, <1>2, <2>1, <2>2 DEF RunInv, RunsOK
  <1>11. SavedOK'
    <2>1. Unsaved' = Answered(messages') \ (Answered(store'[rid'].messages) \cup Answered(session'))
      BY DEF Unsaved
    <2>2. Unsaved' = {}
      BY <1>1, <1>2, <1>5, <2>1
    <2> QED
      BY <1>2, <2>2 DEF SavedOK
  <1> QED
    BY <1>7, <1>9, <1>10, <1>11

LEMMA ResumeKeeps ==
  ASSUME RunInv, NEW r \in 1 .. opt.runs, Resume(r)
  PROVE  HistoriesKnown' /\ TodoOK' /\ RunsOK' /\ SavedOK'
  <1> DEFINE ms == store[r].messages
  <1>1. /\ Resumable(r) /\ Enter(r, ms, store[r].turn, 0, TRUE)
        /\ UNCHANGED <<opt, store, session, ran, runs>>
    BY DEF Resume, durable
  <1>2. /\ rid' = r /\ messages' = ms /\ todo' = PendingToolCalls(ms)
        /\ pc' = (IF todo' # <<>> THEN "tools" ELSE "top")
    BY <1>1 DEF Enter
  <1>3. ms \in Seq(Message) /\ Known(Len(ran), ms)
    BY RunInvTypes DEF RunInv, HistoriesKnown
  <1>4. r \in 1 .. runs
    <2>1. store[r] # NoCheckpoint
      BY <1>1 DEF Resumable, Readable
    <2>2. ~(r > runs)
      BY <2>1 DEF RunInv, RunsOK
    <2> QED
      BY <2>2, RunInvTypes
  <1>5. store'[rid'].messages = ms
    BY <1>1, <1>2
  <1> HIDE DEF ms
  <1>6. HistoriesKnown'
    BY <1>1, <1>2, <1>3 DEF RunInv, HistoriesKnown
  <1>7. TodoOK'
    <2>1. /\ \A k \in 1 .. Len(todo') : todo'[k] \notin Answered(ms) /\ todo'[k] \in 1 .. Len(ran)
          /\ \A k, l \in 1 .. Len(todo') : todo'[k] = todo'[l] => k = l
      BY <1>2, <1>3, PendingCalls
    <2> QED
      BY <1>1, <1>2, <1>5, <2>1 DEF TodoOK
  <1>8. RunsOK'
    BY <1>1, <1>2, <1>4 DEF RunInv, RunsOK
  <1>9. SavedOK'
    <2>1. Unsaved' = {}
      BY <1>2, <1>5 DEF Unsaved
    <2> QED
      BY <1>2, <2>1 DEF SavedOK
  <1> QED
    BY <1>6, <1>7, <1>8, <1>9

\* The save in progress is written.
LEMMA StoredMessages ==
  ASSUME RunInv, pc = "saving", store' = [store EXCEPT ![rid] = Saved], opt' = opt
  PROVE  /\ store'[rid].messages = messages
         /\ \A r \in 1 .. opt.runs : r # rid => store'[r] = store[r]
         /\ \A r \in 1 .. opt.runs : r > runs => r # rid
  <1>1. rid \in 1 .. runs /\ runs \in 0 .. opt.runs /\ opt.runs \in Nat
    BY RunInvTypes DEF RunInv, RunsOK, Ended
  <1>2. rid \in 1 .. opt.runs /\ store \in [1 .. opt.runs -> Checkpoints]
    BY <1>1, RunInvTypes
  <1>3. store'[rid] = Saved
    BY <1>2
  <1>4. store'[rid].messages = messages
    BY <1>3 DEF Saved
  <1> QED
    BY <1>1, <1>2, <1>4

LEMMA SaveEndsKeeps ==
  ASSUME RunInv, SaveEnds
  PROVE  HistoriesKnown' /\ TodoOK' /\ RunsOK' /\ SavedOK'
  <1>1. /\ pc = "saving" /\ store' = [store EXCEPT ![rid] = Saved]
        /\ UNCHANGED <<opt, rid, messages, todo, loop, session, ran, runs>>
        /\ pc' = saving.then
    BY DEF SaveEnds, Settle
  <1>2. /\ store'[rid].messages = messages
        /\ \A r \in 1 .. opt.runs : r # rid => store'[r] = store[r]
        /\ \A r \in 1 .. opt.runs : r > runs => r # rid
    BY <1>1, StoredMessages
  <1>3. HistoriesKnown'
    BY <1>1, <1>2 DEF RunInv, HistoriesKnown
  <1>4. saving.then \in {"idle", "top", "tools"}
    BY RunInvTypes DEF Savings
  <1>5. TodoOK'
    BY <1>1, <1>2, <1>4 DEF RunInv, TodoOK, Ended
  <1>6. RunsOK'
    BY <1>1, <1>2, <1>4 DEF RunInv, RunsOK, Ended
  <1>7. SavedOK'
    <2>1. Unsaved' = {}
      BY <1>1, <1>2 DEF Unsaved
    <2> QED
      BY <1>1, <1>4, <2>1 DEF SavedOK
  <1> QED
    BY <1>3, <1>5, <1>6, <1>7

LEMMA SaveFailsKeeps ==
  ASSUME RunInv, SaveFails
  PROVE  HistoriesKnown' /\ TodoOK' /\ RunsOK' /\ SavedOK'
  <1>1. /\ pc = "saving" /\ store' \in {store, [store EXCEPT ![rid] = Saved]} /\ pc' = "idle"
        /\ UNCHANGED <<opt, rid, messages, todo, loop, session, ran, runs>>
    BY DEF SaveFails, Settle
  <1>2. \/ store' = store
        \/ /\ store'[rid].messages = messages
           /\ \A r \in 1 .. opt.runs : r # rid => store'[r] = store[r]
           /\ \A r \in 1 .. opt.runs : r > runs => r # rid
    BY <1>1, StoredMessages
  <1>3. HistoriesKnown'
    BY <1>1, <1>2 DEF RunInv, HistoriesKnown
  <1>4. TodoOK'
    BY <1>1 DEF RunInv, TodoOK, Ended
  <1>5. RunsOK'
    BY <1>1, <1>2 DEF RunInv, RunsOK, Ended
  <1>6. SavedOK'
    BY <1>1 DEF SavedOK
  <1> QED
    BY <1>3, <1>4, <1>5, <1>6

LEMMA CrashKeeps ==
  ASSUME RunInv, Crash
  PROVE  HistoriesKnown' /\ TodoOK' /\ RunsOK' /\ SavedOK'
  <1>1. /\ pc' = "idle" /\ messages' = <<>> /\ todo' = <<>>
        /\ store' \in IF pc # "saving" THEN {store}
                      ELSE {store, [store EXCEPT ![rid] = Saved], [store EXCEPT ![rid] = Torn]}
        /\ UNCHANGED <<opt, rid, session, ran, runs>>
    BY DEF Crash
  <1>2. Len(todo') = 0 /\ Known(Len(ran), <<>>)
    BY <1>1, EmptySeq, PlainKnown
  <1>3. \/ store' = store
        \/ /\ \A r \in 1 .. opt.runs : r # rid => store'[r] = store[r]
           /\ \A r \in 1 .. opt.runs : r > runs => r # rid
           /\ rid \in 1 .. opt.runs => store'[rid].messages \in {messages, <<>>}
    <2>1. CASE store' = [store EXCEPT ![rid] = Torn] /\ pc = "saving"
      <3>1. rid \in 1 .. runs /\ runs \in 0 .. opt.runs /\ opt.runs \in Nat /\ store \in [1 .. opt.runs -> Checkpoints]
        BY <2>1, RunInvTypes DEF RunInv, RunsOK, Ended
      <3>2. Torn.messages = <<>>
        BY DEF Torn
      <3> QED
        BY <2>1, <3>1, <3>2
    <2>2. CASE store' = [store EXCEPT ![rid] = Saved] /\ pc = "saving"
      BY <1>1, <2>2, StoredMessages
    <2> QED
      BY <1>1, <2>1, <2>2
  <1>4. HistoriesKnown'
    BY <1>1, <1>2, <1>3 DEF RunInv, HistoriesKnown
  <1>5. TodoOK'
    BY <1>1, <1>2 DEF TodoOK, Ended
  <1>6. RunsOK'
    BY <1>1, <1>3 DEF RunInv, RunsOK, Ended
  <1>7. SavedOK'
    BY <1>1 DEF SavedOK
  <1> QED
    BY <1>4, <1>5, <1>6, <1>7

\* The history is rewritten without an answer more: nothing is lost with it.
LEMMA NoAnswerMore ==
  ASSUME RunInv, UNCHANGED <<opt, rid, store>>, Answered(messages') \subseteq Answered(messages),
         Answered(session) \subseteq Answered(session')
  PROVE  Unsaved' \subseteq Unsaved
  <1>1. Unsaved' = Answered(messages') \ (Answered(store'[rid'].messages) \cup Answered(session'))
    BY DEF Unsaved
  <1> QED
    BY <1>1 DEF Unsaved

LEMMA CompactionKeeps ==
  ASSUME RunInv, StartTurn \/ Overflows
  PROVE  HistoriesKnown' /\ TodoOK' /\ RunsOK' /\ SavedOK'
  <1>1. /\ pc \in {"top", "llm"} /\ pc' \in {"top", "llm"}
        /\ UNCHANGED <<opt, rid, todo, store, session, ran, runs>>
        /\ messages' = messages \/ \E b : messages' = CompactMessages(messages, b)
    BY DEF StartTurn, Overflows, durable
  <1>2. Known(Len(ran), messages') /\ Answered(messages') \subseteq Answered(messages)
    <2>1. CASE messages' = messages
      BY <2>1 DEF RunInv, HistoriesKnown
    <2>2. ASSUME NEW b, messages' = CompactMessages(messages, b)
          PROVE  Known(Len(ran), messages') /\ Answered(messages') \subseteq Answered(messages)
      <3>1. Made(messages', messages, {User})
        BY <2>2, RunInvTypes, MadeByCompaction
      <3>2. Known(Len(ran), messages')
        BY <3>1, MadeKnown, PlainKnown DEF RunInv, HistoriesKnown
      <3>3. \A m \in {User} : m.role = "tool" => m.id \in {}
        BY PlainKnown
      <3>4. Answered(messages') \subseteq Answered(messages) \cup {}
        BY <3>1, <3>3, MadeAnswers
      <3> QED
        BY <3>2, <3>4
    <2> QED
      BY <1>1, <2>1, <2>2
  <1>3. HistoriesKnown'
    BY <1>1, <1>2 DEF RunInv, HistoriesKnown
  <1>4. todo = <<>> /\ Len(todo) = 0
    BY <1>1, EmptySeq DEF RunInv, TodoOK
  <1>5. TodoOK'
    BY <1>1, <1>4 DEF TodoOK, Ended
  <1>6. RunsOK'
    BY <1>1 DEF RunInv, RunsOK, Ended
  <1>7. SavedOK'
    BY <1>1, <1>2, NoAnswerMore DEF RunInv, SavedOK
  <1> QED
    BY <1>3, <1>5, <1>6, <1>7

\* The ids of a new turn's calls are the next ones.
LEMMA NewCalls ==
  ASSUME NEW n \in Nat, NEW m \in Nat, NEW ids, ids = [i \in 1 .. n |-> m + i]
  PROVE  /\ ids \in Seq(Nat) /\ Len(ids) = n
         /\ \A k \in 1 .. n : ids[k] = m + k /\ ids[k] \in 1 .. m + n /\ ids[k] \notin 1 .. m
         /\ \A k, l \in 1 .. n : ids[k] = ids[l] => k = l
         /\ KnownMessage(m + n, Assistant(ids))
  <1>1. ids \in Seq(Nat)
    BY IsASeq
  <1>2. DOMAIN ids = 1 .. n /\ DOMAIN ids = 1 .. Len(ids) /\ Len(ids) \in Nat
    BY <1>1, LenProperties
  <1>3. Len(ids) = n
    BY <1>2
  <1>4. \A k \in 1 .. n : ids[k] = m + k
    OBVIOUS
  <1>5. \A k \in 1 .. n : ids[k] \in 1 .. m + n /\ ids[k] \notin 1 .. m
    BY <1>4
  <1>6. \A k, l \in 1 .. n : ids[k] = ids[l] => k = l
    BY <1>4
  <1>7. KnownMessage(m + n, Assistant(ids))
    BY <1>2, <1>5, <1>6 DEF KnownMessage, Assistant
  <1> QED
    BY <1>1, <1>3, <1>4, <1>5, <1>6, <1>7

LEMMA AsksToolsKeeps ==
  ASSUME RunInv, AsksTools
  PROVE  HistoriesKnown' /\ TodoOK' /\ RunsOK' /\ SavedOK'
  <1>1. PICK n \in 1 .. MaxCalls :
          /\ messages' = Append(messages, Assistant([i \in 1 .. n |-> Len(ran) + i]))
          /\ todo' = [i \in 1 .. n |-> Len(ran) + i]
          /\ ran' = ran \o [i \in 1 .. n |-> 0]
    BY DEF AsksTools
  <1>2. /\ pc = "llm" /\ pc' = "tools"
        /\ UNCHANGED <<opt, rid, store, session, runs>>
    BY DEF AsksTools, durable
  <1> DEFINE ids == [i \in 1 .. n |-> Len(ran) + i]
  <1>3. n \in Nat /\ Len(ran) \in Nat
    BY RunAssumption, RunInvTypes
  <1>4. /\ ids \in Seq(Nat) /\ Len(ids) = n
        /\ \A k \in 1 .. n : ids[k] \in 1 .. Len(ran) + n /\ ids[k] \notin 1 .. Len(ran)
        /\ \A k, l \in 1 .. n : ids[k] = ids[l] => k = l
        /\ KnownMessage(Len(ran) + n, Assistant(ids))
    <2>1. ids = [i \in 1 .. n |-> Len(ran) + i]
      OBVIOUS
    <2> HIDE DEF ids
    <2> QED
      BY <1>3, <2>1, NewCalls
  <1>5. Len(ran') = Len(ran) + n
    <2>1. [i \in 1 .. n |-> 0] \in Seq(Nat) /\ Len([i \in 1 .. n |-> 0]) = n
      BY <1>3, IsASeq
    <2> QED
      BY <1>1, <2>1, RunInvTypes, ConcatProperties
  <1> HIDE DEF ids
  <1>6. todo' = ids /\ messages' = Append(messages, Assistant(ids))
    BY <1>1 DEF ids
  <1>7. Made(messages', messages, {Assistant(ids)})
    BY <1>4, <1>6, Messages, RunInvTypes, MadeByAppend
  <1>8. Len(ran) <= Len(ran') /\ Len(ran') \in Nat /\ Len(ran') = Len(ran) + n
    BY <1>3, <1>5
  <1>9. Known(Len(ran'), messages')
    <2>1. Known(Len(ran), messages)
      BY DEF RunInv, HistoriesKnown
    <2>2. Known(Len(ran'), messages)
      BY <1>3, <1>8, <2>1, KnownLater
    <2> QED
      BY <1>4, <1>7, <1>8, <2>2, MadeKnown
  <1>10. Answered(messages') \subseteq Answered(messages)
    <2>1. \A m \in {Assistant(ids)} : m.role = "tool" => m.id \in {}
      BY PlainKnown
    <2>2. Answered(messages') \subseteq Answered(messages) \cup {}
      BY <1>7, <2>1, MadeAnswers
    <2> QED
      BY <2>2
  <1>11. HistoriesKnown'
    BY <1>2, <1>8, <1>9, KeptKnown
  <1>12. TodoOK'
    <2>1. Answered(messages) \subseteq 1 .. Len(ran)
      BY AnsweredKnown DEF RunInv, HistoriesKnown
    <2>2. rid \in 1 .. opt.runs
      BY <1>2, RunInvTypes DEF RunInv, RunsOK, Ended
    <2>3. Answered(store[rid].messages) \subseteq 1 .. Len(ran)
      BY <2>2, AnsweredKnown DEF RunInv, HistoriesKnown
    <2>4. /\ \A k \in 1 .. n : ids[k] \in 1 .. Len(ran') /\ ids[k] \notin Answered(messages')
                               /\ ids[k] \notin Answered(store[rid].messages)
          /\ \A k, l \in 1 .. n : ids[k] = ids[l] => k = l
      BY <1>4, <1>8, <1>10, <2>1, <2>3
    <2> QED
      BY <1>2, <1>4, <1>6, <2>4 DEF TodoOK
  <1>13. RunsOK'
    BY <1>2 DEF RunInv, RunsOK, Ended
  <1>14. SavedOK'
    <2>1. opt.ckpt => Unsaved = {}
      BY <1>2 DEF RunInv, SavedOK
    <2>2. Unsaved' \subseteq Unsaved
      BY <1>2, <1>10, NoAnswerMore
    <2> QED
      BY <1>2, <2>1, <2>2 DEF SavedOK
  <1> QED
    BY <1>11, <1>12, <1>13, <1>14

\* A message without calls and answers is added, and the turn is saved.
LEMMA SpokenKeeps ==
  ASSUME RunInv, pc = "llm", Made(messages', messages, {User, Assistant(<<>>)}),
         Known(Len(ran), session'), Answered(session) \subseteq Answered(session'),
         UNCHANGED <<opt, rid, todo, store, ran, runs>>, pc' \in {"idle", "top", "saving"},
         pc' = "saving" => saving'.status \in {"running", "done"}
  PROVE  HistoriesKnown' /\ TodoOK' /\ RunsOK' /\ SavedOK'
  <1>1. Known(Len(ran), messages')
    BY MadeKnown, PlainKnown DEF RunInv, HistoriesKnown
  <1>2. Answered(messages') \subseteq Answered(messages)
    <2>1. \A m \in {User, Assistant(<<>>)} : m.role = "tool" => m.id \in {}
      BY PlainKnown
    <2>2. Answered(messages') \subseteq Answered(messages) \cup {}
      BY <2>1, MadeAnswers
    <2> QED
      BY <2>2
  <1>3. HistoriesKnown'
    BY <1>1 DEF RunInv, HistoriesKnown
  <1>4. todo = <<>> /\ Len(todo) = 0
    BY EmptySeq DEF RunInv, TodoOK
  <1>5. TodoOK'
    BY <1>4 DEF TodoOK, Ended
  <1>6. RunsOK'
    BY DEF RunInv, RunsOK, Ended
  <1>7. SavedOK'
    <2>1. opt.ckpt => Unsaved = {}
      BY DEF RunInv, SavedOK
    <2>2. Unsaved' \subseteq Unsaved
      BY <1>2, NoAnswerMore
    <2> QED
      BY <2>1, <2>2 DEF SavedOK
  <1> QED
    BY <1>3, <1>5, <1>6, <1>7

LEMMA AnswersKeeps ==
  ASSUME RunInv, Answers
  PROVE  HistoriesKnown' /\ TodoOK' /\ RunsOK' /\ SavedOK'
  <1> DEFINE more == SubSeq(messages', loop.baseline + 1, Len(messages'))
  <1>1. /\ pc = "llm" /\ messages' = Append(messages, Assistant(<<>>))
        /\ session' = (IF loop.kept THEN session \o more ELSE session)
        /\ UNCHANGED <<opt, rid, todo, store, ran, runs>>
        /\ pc' \in {"idle", "saving"}
        /\ pc' = "saving" => saving'.status = "done"
    BY DEF Answers, PersistSession, Checkpoint, Settle
  <1>2. messages' \in Seq(Message) /\ Made(messages', messages, {Assistant(<<>>)})
    BY <1>1, RunInvTypes, Messages, MadeByAppend
  <1>3. Made(messages', messages, {User, Assistant(<<>>)})
    BY <1>2 DEF Made
  <1>4. Known(Len(ran), messages')
    BY <1>3, MadeKnown, PlainKnown DEF RunInv, HistoriesKnown
  <1>5. /\ Len(messages') \in Nat /\ DOMAIN messages' = 1 .. Len(messages')
        /\ \A i \in 1 .. Len(messages') : messages'[i] \in Message
    BY <1>2, LenProperties, ElementOfSeq
  <1>6. loop.baseline \in Nat
    BY RunInvTypes DEF Loops
  <1>7. /\ more \in Seq(Message)
        /\ Len(more) = IF loop.baseline + 1 <= Len(messages') THEN Len(messages') - (loop.baseline + 1) + 1 ELSE 0
        /\ \A i \in 1 .. Len(messages') - (loop.baseline + 1) + 1 : more[i] = messages'[(loop.baseline + 1) + i - 1]
    <2>1. /\ loop.baseline + 1 \in Int /\ Len(messages') \in Int
          /\ \A i \in loop.baseline + 1 .. Len(messages') : messages'[i] \in Message
      BY <1>5, <1>6
    <2> QED
      BY <2>1, SubSeqProperties
  <1> HIDE DEF more
  <1>8. \A i \in 1 .. Len(more) : KnownMessage(Len(ran), more[i])
    <2> SUFFICES ASSUME NEW i \in 1 .. Len(more) PROVE KnownMessage(Len(ran), more[i])
      OBVIOUS
    <2>1. /\ i \in 1 .. Len(messages') - (loop.baseline + 1) + 1
          /\ (loop.baseline + 1) + i - 1 \in 1 .. Len(messages')
      BY <1>5, <1>6, <1>7
    <2> QED
      BY <1>4, <1>5, <1>7, <2>1 DEF Known
  <1>9. Known(Len(ran), session') /\ Answered(session) \subseteq Answered(session')
    <2>1. Known(Len(ran), session) /\ session \in Seq(Message)
      BY RunInvTypes DEF RunInv, HistoriesKnown
    <2>2. CASE ~loop.kept
      BY <1>1, <2>1, <2>2
    <2>3. CASE loop.kept
      <3>1. session' = session \o more
        BY <1>1, <2>3
      <3>2. Made(session', session, {more[i] : i \in 1 .. Len(more)})
        BY <1>7, <2>1, <3>1, MadeByConcat
      <3>3. Known(Len(ran), session')
        BY <1>8, <2>1, <3>2, MadeKnown
      <3>4. /\ Len(session) \in Nat /\ Len(more) \in Nat /\ DOMAIN session = 1 .. Len(session)
            /\ DOMAIN session' = 1 .. Len(session) + Len(more)
            /\ \A i \in 1 .. Len(session) : session'[i] = session[i]
        <4>1. session' \in Seq(Message) /\ Len(session') = Len(session) + Len(more)
              /\ \A i \in 1 .. Len(session) + Len(more) :
                   session'[i] = IF i <= Len(session) THEN session[i] ELSE more[i - Len(session)]
          BY <1>7, <2>1, <3>1, ConcatProperties
        <4>2. Len(session) \in Nat /\ Len(more) \in Nat /\ DOMAIN session = 1 .. Len(session)
              /\ DOMAIN session' = 1 .. Len(session')
          BY <1>7, <2>1, <4>1, LenProperties
        <4> QED
          BY <4>1, <4>2
      <3>5. 1 .. Len(session) \subseteq 1 .. Len(session) + Len(more)
        BY <3>4
      <3>6. Answered(session) \subseteq Answered(session')
        BY <3>4, <3>5 DEF Answered
      <3> QED
        BY <3>3, <3>6
    <2> QED
      BY <2>2, <2>3
  <1>10. /\ UNCHANGED <<opt, rid, todo, store, ran, runs>>
         /\ pc' \in {"idle", "top", "saving"}
         /\ pc' = "saving" => saving'.status \in {"running", "done"}
    BY <1>1
  <1> QED
    BY <1>1, <1>3, <1>9, <1>10, SpokenKeeps

LEMMA RepairsKeeps ==
  ASSUME RunInv, Repairs
  PROVE  HistoriesKnown' /\ TodoOK' /\ RunsOK' /\ SavedOK'
  <1> DEFINE more == <<Assistant(<<>>), User>>
  <1>1. /\ pc = "llm" /\ messages' = messages \o more
        /\ UNCHANGED <<opt, rid, todo, store, session, ran, runs>>
        /\ pc' \in {"top", "saving"}
        /\ pc' = "saving" => saving'.status = "running"
    BY DEF Repairs, Checkpoint, durable
  <1>2. more \in Seq(Message) /\ \A i \in 1 .. Len(more) : more[i] \in {User, Assistant(<<>>)}
    BY Messages
  <1> HIDE DEF more
  <1>3. Made(messages', messages, {User, Assistant(<<>>)})
    BY <1>1, <1>2, RunInvTypes, MadeByConcat
  <1>4. Known(Len(ran), session') /\ Answered(session) \subseteq Answered(session')
    BY <1>1 DEF RunInv, HistoriesKnown
  <1>5. /\ UNCHANGED <<opt, rid, todo, store, ran, runs>>
        /\ pc' \in {"idle", "top", "saving"}
        /\ pc' = "saving" => saving'.status \in {"running", "done"}
    BY <1>1
  <1> QED
    BY <1>1, <1>3, <1>4, <1>5, SpokenKeeps

LEMMA StartCallKeeps ==
  ASSUME RunInv, StartCall
  PROVE  HistoriesKnown' /\ TodoOK' /\ RunsOK' /\ SavedOK'
  <1> DEFINE id == Head(todo)
  <1>1. /\ pc = "tools" /\ pc' = "calling" /\ todo # <<>>
        /\ ran' = [ran EXCEPT ![id] = ran[id] + 1]
        /\ UNCHANGED <<opt, rid, messages, todo, loop, store, session, runs>>
    BY DEF StartCall, durable
  <1>2. Len(ran') = Len(ran)
    <2>0. ran' = [ran EXCEPT ![id] = ran[id] + 1]
      BY <1>1
    <2>1. id \in 1 .. Len(ran)
      <3>1. 1 \in 1 .. Len(todo) /\ id = todo[1]
        BY <1>1, RunInvTypes, Nonempty
      <3> QED
        BY <3>1 DEF RunInv, TodoOK
    <2> HIDE DEF id
    <2>2. ran[id] + 1 \in Nat
      BY <2>1, RunInvTypes, ElementOfSeq, SMTT(30)
    <2> QED
      BY <2>0, <2>1, <2>2, RunInvTypes, ExceptSeq
  <1>3. HistoriesKnown'
    BY <1>1, <1>2 DEF RunInv, HistoriesKnown
  <1>4. TodoOK'
    BY <1>1, <1>2 DEF RunInv, TodoOK, Ended
  <1>5. RunsOK'
    BY <1>1 DEF RunInv, RunsOK, Ended
  <1>6. SavedOK'
    BY <1>1 DEF RunInv, SavedOK, Unsaved
  <1> QED
    BY <1>3, <1>4, <1>5, <1>6

LEMMA AnsweringKeeps ==
  ASSUME RunInv, Answering
  PROVE  HistoriesKnown' /\ TodoOK' /\ RunsOK' /\ SavedOK'
  <1> DEFINE id == Head(todo)
  <1>1. Answers1
    BY AnsweringAnswers
  <1>2. /\ pc = "calling" /\ messages' = Append(messages, Result(id)) /\ todo' = Tail(todo)
        /\ UNCHANGED <<opt, rid, loop, store, session, ran, runs>>
        /\ pc' \in {"tools", "top", "saving"}
        /\ pc' = "saving" => saving'.status = "running"
        /\ (pc' = "top" \/ (pc' = "saving" /\ saving'.then = "top")) => todo' = <<>>
        /\ pc' = "tools" => ~opt.ckpt \/ loop.resumed
        /\ pc' = "top" => ~opt.ckpt
    BY <1>1 DEF Answers1
  <1>3. todo # <<>>
    BY <1>2 DEF RunInv, TodoOK
  <1>4. /\ 1 \in 1 .. Len(todo) /\ id = todo[1] /\ id \in Nat /\ Len(todo) \in Nat
        /\ Len(todo') = Len(todo) - 1 /\ \A i \in 1 .. Len(todo') : todo'[i] = todo[i + 1]
    BY <1>2, <1>3, RunInvTypes, Nonempty
  <1> HIDE DEF id
  <1>5. id \in 1 .. Len(ran)
    BY <1>4 DEF RunInv, TodoOK
  <1>6. Made(messages', messages, {Result(id)})
    BY <1>2, <1>4, RunInvTypes, Messages, MadeByAppend
  <1>7. KnownMessage(Len(ran), Result(id))
    <2>1. DOMAIN <<>> = {}
      BY EmptySeq, LenProperties
    <2> QED
      BY <1>5, <2>1 DEF KnownMessage, Result
  <1>8. Known(Len(ran), messages')
    BY <1>6, <1>7, MadeKnown DEF RunInv, HistoriesKnown
  <1>9. Answered(messages') \subseteq Answered(messages) \cup {id}
    <2> DEFINE new == {Result(id)}
               S == {id}
    <2>1. \A m \in new : m.role = "tool" => m.id \in S
      BY DEF Result
    <2>2. Made(messages', messages, new)
      BY <1>6
    <2> HIDE DEF new, S
    <2>3. Answered(messages') \subseteq Answered(messages) \cup S
      BY <2>1, <2>2, MadeAnswers
    <2> QED
      BY <2>3 DEF S
  <1>10. HistoriesKnown'
    BY <1>2, <1>8 DEF RunInv, HistoriesKnown
  <1>11. TodoOK'
    <2>1. \A k \in 1 .. Len(todo') : k + 1 \in 1 .. Len(todo) /\ k + 1 # 1 /\ todo'[k] = todo[k + 1]
      BY <1>4
    <2>2. \A k \in 1 .. Len(todo') : todo'[k] # id
      BY <1>4, <2>1 DEF RunInv, TodoOK
    <2>3. \A k \in 1 .. Len(todo') :
            /\ todo'[k] \in 1 .. Len(ran) /\ todo'[k] \notin Answered(messages')
            /\ todo'[k] \notin Answered(store[rid].messages)
      BY <1>2, <1>9, <2>1, <2>2 DEF RunInv, TodoOK, Ended
    <2>4. \A k, l \in 1 .. Len(todo') : todo'[k] = todo'[l] => k = l
      <3> SUFFICES ASSUME NEW k \in 1 .. Len(todo'), NEW l \in 1 .. Len(todo'), todo'[k] = todo'[l]
                   PROVE  k = l
        OBVIOUS
      <3>1. k + 1 = l + 1
        BY <2>1 DEF RunInv, TodoOK
      <3> QED
        BY <1>4, <3>1
    <2> QED
      BY <1>2, <2>3, <2>4 DEF TodoOK
  <1>12. RunsOK'
    BY <1>2 DEF RunInv, RunsOK, Ended
  <1>13. SavedOK'
    <2>1. Unsaved' = Answered(messages') \ (Answered(store'[rid'].messages) \cup Answered(session'))
      BY DEF Unsaved
    <2>2. Unsaved' \subseteq Unsaved \cup {id}
      BY <1>2, <1>9, <2>1 DEF Unsaved
    <2>3. (opt.ckpt /\ ~loop.resumed) => Unsaved = {}
      BY <1>2 DEF RunInv, SavedOK
    <2> QED
      BY <1>2, <2>2, <2>3 DEF SavedOK
  <1> QED
    BY <1>10, <1>11, <1>12, <1>13

LEMMA StepRunInv == RunInv /\ [Next]_vars => RunInv'
  <1> SUFFICES ASSUME RunInv, [Next]_vars PROVE RunInv'
    OBVIOUS
  <1>1. TypeOK'
    BY StepTypeOKFromInv
  <1>2. HistoriesKnown' /\ TodoOK' /\ RunsOK' /\ SavedOK'
    BY NextCases, AsideKeeps, StoppingStops, StopsKeeps, AnsweringKeeps, RunKeeps, ResumeKeeps, SaveEndsKeeps,
       SaveFailsKeeps, CrashKeeps, CompactionKeeps, AsksToolsKeeps, AnswersKeeps, RepairsKeeps, StartCallKeeps
       DEF RunInv
  <1> QED
    BY <1>1, <1>2 DEF RunInv

LEMMA RunInvHolds == Spec => []RunInv
  BY InitRunInv, StepRunInv, PTL DEF Spec

-----------------------------------------------------------------------------
(* What is promised of a run's checkpoint.                                 *)

LEMMA ProgressIsSaved == RunInv => ProgressSaved
  <1> SUFFICES ASSUME RunInv, opt.ckpt, ~Ended, ~loop.resumed PROVE Cardinality(Unsaved) <= 1
    BY DEF ProgressSaved
  <1>1. \E x : Unsaved \subseteq {x}
    BY RunInvTypes DEF RunInv, SavedOK, Ended, Pcs
  <1>2. PICK x : Unsaved \subseteq {x}
    BY <1>1
  <1>3. Unsaved = {} \/ Unsaved = {x}
    BY <1>2
  <1>4. Cardinality({}) = 0 /\ Cardinality({x}) = 1
    BY FS_EmptySet, FS_Singleton
  <1> QED
    BY <1>3, <1>4

\* A process that dies loses at most one answer to a tool call, and every
\* variable keeps its type, however the agent is configured.
THEOREM ProgressIsKept == Spec => [](TypeOK /\ ProgressSaved)
  <1>1. RunInv => TypeOK /\ ProgressSaved
    BY ProgressIsSaved DEF RunInv
  <1> QED
    BY <1>1, RunInvHolds, PTL

LEMMA OnlyStartCallRuns ==
  ASSUME RunInv, [Next]_vars, NEW id \in DOMAIN ran, id \in DOMAIN ran', ran'[id] # ran[id]
  PROVE  StartCall
  <1>1. ran' = ran => FALSE
    OBVIOUS
  <1>2. AsksTools => FALSE
    <2> SUFFICES ASSUME AsksTools PROVE FALSE
      OBVIOUS
    <2>1. PICK n \in 1 .. MaxCalls : ran' = ran \o [i \in 1 .. n |-> 0]
      BY DEF AsksTools
    <2> DEFINE more == [i \in 1 .. n |-> 0]
    <2>2. n \in Nat
      BY RunAssumption
    <2>3. more \in Seq(Nat)
      BY <2>2, IsASeq
    <2> HIDE DEF more
    <2>4. ran' = ran \o more
      BY <2>1 DEF more
    <2>5. /\ DOMAIN ran = 1 .. Len(ran) /\ Len(ran) \in Nat /\ Len(more) \in Nat
          /\ \A i \in 1 .. Len(ran) + Len(more) : ran'[i] = IF i <= Len(ran) THEN ran[i] ELSE more[i - Len(ran)]
      BY <2>3, <2>4, RunInvTypes, LenProperties, ConcatProperties
    <2>6. id \in 1 .. Len(ran) + Len(more) /\ id <= Len(ran)
      BY <2>5
    <2> QED
      BY <2>5, <2>6
  <1>3. Aside \/ Stopping \/ Answering => ran' = ran
    BY StoppingStops, AnsweringAnswers DEF RunInv, Aside, Stops, Answers1
  <1>4. Run \/ SaveEnds \/ SaveFails \/ Crash \/ (\E r \in 1..opt.runs : Resume(r)) \/ StartTurn \/ Answers \/ Repairs \/ Overflows
          => ran' = ran
    BY DEF Run, SaveEnds, SaveFails, Crash, Resume, StartTurn, Answers, Repairs, Overflows
  <1> QED
    BY <1>1, <1>2, <1>3, <1>4, NextCases

\* A tool call whose result is in the run's checkpoint is not made again,
\* whenever the process died and however often the run is resumed.
THEOREM RecordedStaysMade == Spec => RecordedNeverRerun
  <1>1. ASSUME RunInv, [Next]_vars
        PROVE  \A id \in DOMAIN ran :
                 (id \in DOMAIN ran' /\ ran'[id] # ran[id]) => id \notin Answered(store[rid].messages)
    <2> SUFFICES ASSUME NEW id \in DOMAIN ran, id \in DOMAIN ran', ran'[id] # ran[id]
                 PROVE  id \notin Answered(store[rid].messages)
      OBVIOUS
    <2>1. StartCall
      BY <1>1, OnlyStartCallRuns
    <2> DEFINE making == Head(todo)
    <2>2. pc = "tools" /\ todo # <<>> /\ ran' = [ran EXCEPT ![making] = ran[making] + 1]
      BY <2>1 DEF StartCall
    <2>3. 1 \in 1 .. Len(todo) /\ making = todo[1]
      BY <1>1, <2>2, RunInvTypes, Nonempty
    <2> HIDE DEF making
    <2>4. id = making
      BY <2>2
    <2> QED
      BY <1>1, <2>2, <2>3, <2>4 DEF RunInv, TodoOK, Ended
  <1>2. RunInv /\ [Next]_vars =>
          [\A id \in DOMAIN ran :
             (id \in DOMAIN ran' /\ ran'[id] # ran[id]) => id \notin Answered(store[rid].messages)]_vars
    BY <1>1
  <1> QED
    BY <1>2, RunInvHolds, PTL DEF Spec, RecordedNeverRerun

-----------------------------------------------------------------------------
(* The shape of a history, of which t are the calls that are still open:   *)
(* answers stand where their calls say, only the last calls may be open,   *)
(* nothing else is answered, and no call is made twice.                    *)

Open(ms, i, t) ==
  /\ i + Len(ms[i].calls) = Len(ms) + Len(t)
  /\ \A n \in 1 .. Len(t) : t[n] = ms[i].calls[Len(ms) - i + n]

InPlace(ms) ==
  \A i \in 1 .. Len(ms) : \A k \in 1 .. Len(ms[i].calls) :
    i + k <= Len(ms) => ms[i + k] = Result(ms[i].calls[k])

OnlyLastOpen(ms, t) == \A i \in 1 .. Len(ms) : i + Len(ms[i].calls) > Len(ms) => Open(ms, i, t)

AnswersCalled(ms) ==
  \A j \in 1 .. Len(ms) : ms[j].role = "tool" =>
    \E i \in 1 .. Len(ms) : i < j /\ j - i <= Len(ms[i].calls)

CallsApart(ms) ==
  \A i \in 1 .. Len(ms) : \A j \in 1 .. Len(ms) :
    \A k \in 1 .. Len(ms[i].calls) : \A l \in 1 .. Len(ms[j].calls) :
      ms[i].calls[k] = ms[j].calls[l] => i = j /\ k = l

Shape(ms, t) ==
  /\ InPlace(ms) /\ OnlyLastOpen(ms, t) /\ (t # <<>> => \E i \in 1 .. Len(ms) : Open(ms, i, t))
  /\ AnswersCalled(ms) /\ CallsApart(ms)

LEMMA HistoryTypes ==
  ASSUME NEW ms \in Seq(Message)
  PROVE  /\ Len(ms) \in Nat /\ DOMAIN ms = 1 .. Len(ms)
         /\ \A i \in 1 .. Len(ms) : /\ ms[i] \in Message /\ ms[i].calls \in Seq(Nat) /\ ms[i].id \in Nat
                                    /\ Len(ms[i].calls) \in Nat
                                    /\ DOMAIN ms[i].calls = 1 .. Len(ms[i].calls)
  <1>1. Len(ms) \in Nat /\ DOMAIN ms = 1 .. Len(ms) /\ \A i \in 1 .. Len(ms) : ms[i] \in Message
    BY LenProperties, ElementOfSeq
  <1>2. \A i \in 1 .. Len(ms) : ms[i].calls \in Seq(Nat) /\ ms[i].id \in Nat
    BY <1>1 DEF Message
  <1> QED
    BY <1>1, <1>2, LenProperties

LEMMA SmallShapes ==
  /\ User.calls = <<>> /\ User.role # "tool"
  /\ \A ids : Assistant(ids).calls = ids /\ Assistant(ids).role # "tool"
  /\ \A id : Result(id).calls = <<>> /\ Result(id).id = id /\ Result(id).role = "tool"
  /\ Len(<<>>) = 0
  /\ Shape(<<>>, <<>>)
  <1>1. Len(<<>>) = 0
    BY EmptySeq
  <1>2. 1 .. 0 = {}
    OBVIOUS
  <1>3. Shape(<<>>, <<>>)
    BY <1>1, <1>2 DEF Shape, InPlace, OnlyLastOpen, AnswersCalled, CallsApart
  <1> QED
    BY <1>1, <1>3 DEF User, Assistant, Result

\* Where no call is open, the calls of every message end within the history.
LEMMA ClosedShape ==
  ASSUME NEW ms \in Seq(Message), Shape(ms, <<>>), NEW i \in 1 .. Len(ms)
  PROVE  i + Len(ms[i].calls) <= Len(ms)
  <1>1. Len(ms) \in Nat /\ Len(ms[i].calls) \in Nat
    BY HistoryTypes
  <1>2. i + Len(ms[i].calls) > Len(ms) => i + Len(ms[i].calls) = Len(ms) + 0
    BY SmallShapes DEF Shape, OnlyLastOpen, Open
  <1> QED
    BY <1>1, <1>2

\* The user or the model speaks: the new calls are open.
LEMMA ShapeSpeak ==
  ASSUME NEW ms \in Seq(Message), Shape(ms, <<>>), NEW m \in Message, m.role # "tool",
         NEW n \in Nat, Known(n, ms), \A k \in 1 .. Len(m.calls) : m.calls[k] \notin 1 .. n,
         \A k, l \in 1 .. Len(m.calls) : m.calls[k] = m.calls[l] => k = l
  PROVE  Shape(Append(ms, m), m.calls)
  <1> DEFINE t == Append(ms, m)
             N == Len(ms)
  <1>1. /\ t \in Seq(Message) /\ Len(t) = N + 1 /\ t[N + 1] = m
        /\ \A i \in 1 .. N : t[i] = ms[i]
    BY AppendProperties
  <1>2. /\ N \in Nat /\ Len(m.calls) \in Nat
        /\ \A i \in 1 .. N : Len(ms[i].calls) \in Nat /\ i + Len(ms[i].calls) <= N
    <2>1. Len(m.calls) \in Nat
      BY LenProperties DEF Message
    <2> QED
      BY <2>1, HistoryTypes, ClosedShape
  <1>3. \A i \in 1 .. N : \A k \in 1 .. Len(ms[i].calls) : ms[i].calls[k] \in 1 .. n
    BY HistoryTypes DEF Known, KnownMessage
  <1> HIDE DEF t
  <1>4. \A i \in 1 .. Len(t) : i \in 1 .. N \/ i = N + 1
    BY <1>1, <1>2
  <1>5. InPlace(t)
    <2> SUFFICES ASSUME NEW i \in 1 .. Len(t), NEW k \in 1 .. Len(t[i].calls), i + k <= Len(t)
                 PROVE  t[i + k] = Result(t[i].calls[k])
      BY DEF InPlace
    <2>1. CASE i \in 1 .. N
      <3>1. t[i] = ms[i] /\ k \in 1 .. Len(ms[i].calls)
        BY <1>1, <2>1
      <3>2. i + k \in 1 .. N /\ i + k <= N
        BY <1>2, <2>1, <3>1
      <3>3. ms[i + k] = Result(ms[i].calls[k])
        <4>1. InPlace(ms)
          BY DEF Shape
        <4> QED
          BY <2>1, <3>1, <3>2, <4>1 DEF InPlace
      <3> QED
        BY <1>1, <3>1, <3>2, <3>3
    <2>2. CASE i = N + 1
      BY <1>1, <1>2, <2>2
    <2> QED
      BY <1>4, <2>1, <2>2
  <1>6. \A i \in 1 .. Len(t) : i + Len(t[i].calls) > Len(t) => i = N + 1
    BY <1>1, <1>2, <1>4, SMTT(30)
  <1>7. Open(t, N + 1, m.calls)
    <2>1. \A k \in 1 .. Len(m.calls) : Len(t) - (N + 1) + k = k
      BY <1>1, <1>2
    <2>2. (N + 1) + Len(t[N + 1].calls) = Len(t) + Len(m.calls)
      BY <1>1, <1>2
    <2> QED
      BY <1>1, <2>1, <2>2 DEF Open
  <1>8. N + 1 \in 1 .. Len(t)
    BY <1>1, <1>2
  <1>9. AnswersCalled(t)
    <2> SUFFICES ASSUME NEW j \in 1 .. Len(t), t[j].role = "tool"
                 PROVE  \E i \in 1 .. Len(t) : i < j /\ j - i <= Len(t[i].calls)
      BY DEF AnswersCalled
    <2>1. j \in 1 .. N /\ ms[j].role = "tool"
      BY <1>1, <1>4
    <2>2. PICK i \in 1 .. N : i < j /\ j - i <= Len(ms[i].calls)
      BY <2>1 DEF Shape, AnswersCalled
    <2>3. i \in 1 .. Len(t) /\ t[i] = ms[i]
      BY <1>1, <1>2
    <2> QED
      BY <2>2, <2>3
  <1>10. CallsApart(t)
    <2> SUFFICES ASSUME NEW i \in 1 .. Len(t), NEW j \in 1 .. Len(t),
                        NEW k \in 1 .. Len(t[i].calls), NEW l \in 1 .. Len(t[j].calls),
                        t[i].calls[k] = t[j].calls[l]
                 PROVE  i = j /\ k = l
      BY DEF CallsApart
    <2>1. CASE i \in 1 .. N /\ j \in 1 .. N
      <3>1. t[i] = ms[i] /\ t[j] = ms[j]
        BY <1>1, <2>1
      <3>2. CallsApart(ms)
        BY DEF Shape
      <3> QED
        BY <2>1, <3>1, <3>2 DEF CallsApart
    <2>2. CASE i = N + 1 /\ j = N + 1
      BY <1>1, <2>2
    <2>3. CASE (i \in 1 .. N /\ j = N + 1) \/ (i = N + 1 /\ j \in 1 .. N)
      BY <1>1, <1>3, <2>3, SMTT(30)
    <2> QED
      BY <1>4, <2>1, <2>2, <2>3
  <1> QED
    BY <1>5, <1>6, <1>7, <1>8, <1>9, <1>10 DEF t, Shape, OnlyLastOpen

\* An answer closes the first open call.
LEMMA ShapeAnswer ==
  ASSUME NEW ms \in Seq(Message), NEW t \in Seq(Nat), t # <<>>, Shape(ms, t)
  PROVE  Shape(Append(ms, Result(Head(t))), Tail(t))
  <1> DEFINE m == Result(Head(t))
             u == Append(ms, m)
             rest == Tail(t)
             N == Len(ms)
  <1>1. /\ Head(t) = t[1] /\ Head(t) \in Nat /\ Len(t) \in Nat /\ 1 \in 1 .. Len(t)
        /\ rest \in Seq(Nat) /\ Len(rest) = Len(t) - 1 /\ \A i \in 1 .. Len(rest) : rest[i] = t[i + 1]
    BY Nonempty
  <1>2. m \in Message /\ m.calls = <<>> /\ Len(m.calls) = 0 /\ m = Result(t[1])
    BY <1>1, Messages, SmallShapes
  <1> HIDE DEF m, rest
  <1>3. /\ u \in Seq(Message) /\ Len(u) = N + 1 /\ u[N + 1] = m
        /\ \A i \in 1 .. N : u[i] = ms[i]
    BY <1>2, AppendProperties
  <1>4. N \in Nat /\ \A i \in 1 .. N : Len(ms[i].calls) \in Nat
    BY HistoryTypes
  <1> HIDE DEF u
  <1>5. \A i \in 1 .. Len(u) : i \in 1 .. N \/ i = N + 1
    BY <1>3, <1>4
  <1>6. InPlace(u)
    <2> SUFFICES ASSUME NEW i \in 1 .. Len(u), NEW k \in 1 .. Len(u[i].calls), i + k <= Len(u)
                 PROVE  u[i + k] = Result(u[i].calls[k])
      BY DEF InPlace
    <2>1. i \in 1 .. N /\ u[i] = ms[i] /\ k \in 1 .. Len(ms[i].calls)
      BY <1>2, <1>3, <1>5
    <2>2. CASE i + k <= N
      <3>1. i + k \in 1 .. N
        BY <1>4, <2>1, <2>2
      <3>2. ms[i + k] = Result(ms[i].calls[k])
        BY <2>1, <2>2 DEF Shape, InPlace
      <3> QED
        BY <1>3, <2>1, <3>1, <3>2
    <2>3. CASE i + k = N + 1
      <3>0. PICK l \in Nat : l = Len(ms[i].calls)
        BY <1>4, <2>1
      <3>1. i + Len(ms[i].calls) > N /\ N - i + 1 = k
        <4>1. i \in 1 .. N /\ k \in 1 .. l /\ i + k = N + 1 /\ N \in Nat
          BY <1>4, <2>1, <2>3, <3>0
        <4> HIDE DEF N
        <4>2. i + l > N /\ N - i + 1 = k
          BY <4>1, <3>0
        <4> QED
          BY <3>0, <4>2
      <3>2. t[1] = ms[i].calls[N - i + 1]
        BY <1>1, <2>1, <3>1 DEF Shape, OnlyLastOpen, Open
      <3> QED
        BY <1>2, <1>3, <2>1, <2>3, <3>1, <3>2
    <2>4. i + k <= N \/ i + k = N + 1
      <3>1. N \in Nat /\ i + k <= N + 1 /\ i \in Nat
        BY <1>3, <1>4, <2>1
      <3>2. PICK l \in Nat : l = Len(ms[i].calls)
        BY <1>4, <2>1
      <3>3. k \in 1 .. l
        BY <2>1, <3>2
      <3> HIDE DEF N
      <3> QED
        BY <3>1, <3>2, <3>3
    <2> QED
      BY <2>2, <2>3, <2>4
  <1>7. ASSUME NEW i \in 1 .. N, Open(ms, i, t)
        PROVE  Open(u, i, rest)
    <2>1. u[i] = ms[i] /\ i + Len(ms[i].calls) = N + Len(t)
      BY <1>3, <1>7 DEF Open
    <2>2. i + Len(u[i].calls) = Len(u) + Len(rest)
      <3>1. Len(u) = N + 1 /\ Len(rest) = Len(t) - 1 /\ N \in Nat /\ Len(t) \in Nat
        BY <1>1, <1>3, <1>4
      <3> QED
        BY <2>1, <3>1, SMTT(30)
    <2>3. \A n \in 1 .. Len(rest) : rest[n] = u[i].calls[Len(u) - i + n]
      <3> SUFFICES ASSUME NEW n \in 1 .. Len(rest) PROVE rest[n] = u[i].calls[Len(u) - i + n]
        OBVIOUS
      <3>1. n + 1 \in 1 .. Len(t)
        BY <1>1
      <3>2. Len(u) - i + n = N - i + (n + 1)
        BY <1>3, <1>4
      <3>3. t[n + 1] = ms[i].calls[N - i + (n + 1)]
        BY <1>7, <3>1 DEF Open
      <3> QED
        BY <1>1, <2>1, <3>2, <3>3
    <2> QED
      BY <2>2, <2>3 DEF Open
  <1>8. OnlyLastOpen(u, rest)
    <2> SUFFICES ASSUME NEW i \in 1 .. Len(u), i + Len(u[i].calls) > Len(u) PROVE Open(u, i, rest)
      BY DEF OnlyLastOpen
    <2>1. i \in 1 .. N
      BY <1>2, <1>3, <1>4, <1>5
    <2>2. i + Len(ms[i].calls) > N
      <3>1. u[i] = ms[i] /\ Len(u) = N + 1 /\ N \in Nat /\ i \in Nat
        <4>1. u[i] = ms[i]
          BY <1>3, <2>1
        <4>2. N \in Nat
          BY <1>4
        <4>3. Len(u) = N + 1
          BY <1>3
        <4>4. i \in Nat
          BY <2>1, <4>2
        <4> QED
          BY <4>1, <4>2, <4>3, <4>4
      <3>2. PICK l \in Nat : l = Len(ms[i].calls)
        BY <1>4, <2>1
      <3>3. i + l > N + 1
        BY <3>1, <3>2
      <3> HIDE DEF N
      <3>4. i + l > N
        BY <3>1, <3>2, <3>3
      <3> QED
        BY <3>2, <3>4
    <2>3. Open(ms, i, t)
      BY <2>1, <2>2 DEF Shape, OnlyLastOpen
    <2> QED
      BY <1>7, <2>1, <2>3
  <1>9. PICK i \in 1 .. N : Open(ms, i, t)
    BY DEF Shape
  <1>10. i \in 1 .. Len(u) /\ Open(u, i, rest)
    BY <1>3, <1>4, <1>7, <1>9
  <1>11. AnswersCalled(u)
    <2> SUFFICES ASSUME NEW j \in 1 .. Len(u), u[j].role = "tool"
                 PROVE  \E h \in 1 .. Len(u) : h < j /\ j - h <= Len(u[h].calls)
      BY DEF AnswersCalled
    <2>1. CASE j \in 1 .. N
      <3>1. PICK h \in 1 .. N : h < j /\ j - h <= Len(ms[h].calls)
        BY <1>3, <2>1 DEF Shape, AnswersCalled
      <3>2. h \in 1 .. Len(u) /\ u[h] = ms[h]
        BY <1>3, <1>4
      <3> QED
        BY <3>1, <3>2
    <2>2. CASE j = N + 1
      <3>1. i + Len(ms[i].calls) = N + Len(t) /\ u[i] = ms[i]
        BY <1>3, <1>9 DEF Open
      <3>2. i < j /\ j - i <= Len(u[i].calls)
        BY <1>1, <1>4, <2>2, <3>1, SMTT(30)
      <3> QED
        BY <1>10, <3>2
    <2> QED
      BY <1>5, <2>1, <2>2
  <1>12. CallsApart(u)
    <2> SUFFICES ASSUME NEW h \in 1 .. Len(u), NEW j \in 1 .. Len(u),
                        NEW k \in 1 .. Len(u[h].calls), NEW l \in 1 .. Len(u[j].calls),
                        u[h].calls[k] = u[j].calls[l]
                 PROVE  h = j /\ k = l
      BY DEF CallsApart
    <2>1. h \in 1 .. N /\ u[h] = ms[h]
      BY <1>2, <1>3, <1>5, SMTT(30)
    <2>2. j \in 1 .. N /\ u[j] = ms[j]
      BY <1>2, <1>3, <1>5, SMTT(30)
    <2>3. CallsApart(ms)
      BY DEF Shape
    <2>4. /\ k \in 1 .. Len(ms[h].calls) /\ l \in 1 .. Len(ms[j].calls)
          /\ ms[h].calls[k] = ms[j].calls[l]
      BY <2>1, <2>2
    <2> HIDE DEF N
    <2> QED
      BY <2>1, <2>2, <2>3, <2>4, SMTT(30) DEF CallsApart, N
  <1> QED
    BY <1>6, <1>8, <1>10, <1>11, <1>12 DEF m, u, rest, Shape

IsSuffix(u, ms, c) == Len(u) = Len(ms) - c + 1 /\ \A i \in 1 .. Len(u) : u[i] = ms[i + c - 1]

\* What is left from a message on that is no answer keeps its shape.
LEMMA ShapeSuffix ==
  ASSUME NEW ms \in Seq(Message), Shape(ms, <<>>), NEW c \in 1 .. Len(ms), ms[c].role # "tool",
         NEW u \in Seq(Message), IsSuffix(u, ms, c)
  PROVE  Shape(u, <<>>)
  <1>1. /\ Len(ms) \in Nat /\ Len(u) \in Nat /\ Len(u) = Len(ms) - c + 1
        /\ \A i \in 1 .. Len(ms) : Len(ms[i].calls) \in Nat /\ i + Len(ms[i].calls) <= Len(ms)
    BY HistoryTypes, ClosedShape DEF IsSuffix
  <1>2. \A i \in 1 .. Len(u) : i + c - 1 \in 1 .. Len(ms) /\ u[i] = ms[i + c - 1]
    BY <1>1 DEF IsSuffix
  <1>3. InPlace(ms) /\ AnswersCalled(ms) /\ CallsApart(ms)
    BY DEF Shape
  <1>4. InPlace(u)
    <2> SUFFICES ASSUME NEW i \in 1 .. Len(u), NEW k \in 1 .. Len(u[i].calls), i + k <= Len(u)
                 PROVE  u[i + k] = Result(u[i].calls[k])
      BY DEF InPlace
    <2> DEFINE h == i + c - 1
    <2>1. h \in 1 .. Len(ms) /\ u[i] = ms[h] /\ Len(ms[h].calls) \in Nat
      BY <1>1, <1>2
    <2>2. k \in 1 .. Len(ms[h].calls) /\ k \in Nat
      BY <2>1
    <2>3. i + k \in 1 .. Len(u) /\ h + k <= Len(ms) /\ (i + k) + c - 1 = h + k
      BY <1>1, <2>2
    <2>4. u[i + k] = ms[h + k]
      BY <1>2, <2>3
    <2> HIDE DEF h
    <2>5. ms[h + k] = Result(ms[h].calls[k])
      BY <1>3, <2>1, <2>2, <2>3 DEF InPlace
    <2> QED
      BY <2>1, <2>4, <2>5
  <1>5. OnlyLastOpen(u, <<>>)
    <2>1. ASSUME NEW i \in 1 .. Len(u) PROVE i + Len(u[i].calls) <= Len(u)
      <3> DEFINE n == Len(u[i].calls)
                 h == i + c - 1
      <3>1. h \in 1 .. Len(ms) /\ u[i] = ms[h]
        BY <1>2
      <3>2. n \in Nat /\ h + n <= Len(ms)
        <4> HIDE DEF h
        <4> QED
          BY <1>1, <3>1
      <3>3. Len(u) = Len(ms) - c + 1 /\ Len(ms) \in Nat /\ c \in Nat /\ i \in Nat /\ h = i + c - 1
        BY <1>1
      <3> HIDE DEF n, h
      <3>4. i + n <= Len(u)
        BY <3>2, <3>3
      <3> QED
        BY <3>4 DEF n
    <2>2. \A i \in 1 .. Len(u) : ~(i + Len(u[i].calls) > Len(u))
      <3> SUFFICES ASSUME NEW i \in 1 .. Len(u) PROVE ~(i + Len(u[i].calls) > Len(u))
        OBVIOUS
      <3>1. Len(u[i].calls) \in Nat /\ Len(u) \in Nat
        BY HistoryTypes
      <3> QED
        BY <2>1, <3>1
    <2> QED
      BY <2>2 DEF OnlyLastOpen
  <1>6. AnswersCalled(u)
    <2> SUFFICES ASSUME NEW j \in 1 .. Len(u), u[j].role = "tool"
                 PROVE  \E i \in 1 .. Len(u) : i < j /\ j - i <= Len(u[i].calls)
      BY DEF AnswersCalled
    <2> DEFINE g == j + c - 1
    <2>1. g \in 1 .. Len(ms) /\ ms[g].role = "tool"
      BY <1>2
    <2>2. PICK h \in 1 .. Len(ms) : h < g /\ g - h <= Len(ms[h].calls)
      BY <1>3, <2>1 DEF AnswersCalled
    <2>3. h >= c
      <3> SUFFICES ASSUME h < c PROVE FALSE
        BY <1>1
      <3> DEFINE k == c - h
      <3>1. k \in 1 .. Len(ms[h].calls) /\ h + k = c
        BY <1>1, <2>2
      <3>2. ms[c] = Result(ms[h].calls[k])
        <4> HIDE DEF k
        <4>1. h + k <= Len(ms)
          BY <3>1
        <4> QED
          BY <1>3, <3>1, <4>1 DEF InPlace
      <3> QED
        BY <3>2, SmallShapes
    <2> DEFINE i == h - c + 1
    <2>4. i \in 1 .. Len(u) /\ i + c - 1 = h /\ i < j /\ j - i = g - h
      BY <1>1, <2>1, <2>2, <2>3
    <2>5. u[i] = ms[h]
      BY <1>2, <2>4
    <2> HIDE DEF i, g
    <2> QED
      BY <2>2, <2>4, <2>5
  <1>7. CallsApart(u)
    <2> SUFFICES ASSUME NEW h \in 1 .. Len(u), NEW j \in 1 .. Len(u),
                        NEW k \in 1 .. Len(u[h].calls), NEW l \in 1 .. Len(u[j].calls),
                        u[h].calls[k] = u[j].calls[l]
                 PROVE  h = j /\ k = l
      BY DEF CallsApart
    <2> DEFINE a == h + c - 1
               b == j + c - 1
    <2>1. a \in 1 .. Len(ms) /\ b \in 1 .. Len(ms) /\ u[h] = ms[a] /\ u[j] = ms[b]
      BY <1>2
    <2>2. a = b => h = j
      BY <1>1
    <2> HIDE DEF a, b
    <2>3. /\ k \in 1 .. Len(ms[a].calls) /\ l \in 1 .. Len(ms[b].calls)
          /\ ms[a].calls[k] = ms[b].calls[l]
      BY <2>1
    <2>4. \A v \in 1 .. Len(ms[a].calls) : \A w \in 1 .. Len(ms[b].calls) :
            ms[a].calls[v] = ms[b].calls[w] => a = b /\ v = w
      BY <1>3, <2>1 DEF CallsApart
    <2> QED
      BY <2>2, <2>3, <2>4
  <1> QED
    BY <1>4, <1>5, <1>6, <1>7 DEF Shape

\* A summary before it all keeps the shape too.
LEMMA ShapeSummary ==
  ASSUME NEW ms \in Seq(Message), Shape(ms, <<>>)
  PROVE  Shape(<<User>> \o ms, <<>>)
  <1> DEFINE u == <<User>> \o ms
  <1>1. <<User>> \in Seq(Message) /\ Len(<<User>>) = 1 /\ <<User>>[1] = User
    BY Messages
  <1>2. /\ u \in Seq(Message) /\ Len(u) = 1 + Len(ms)
        /\ \A i \in 1 .. 1 + Len(ms) : u[i] = IF i <= 1 THEN <<User>>[i] ELSE ms[i - 1]
    BY <1>1, ConcatProperties
  <1>3. /\ Len(ms) \in Nat
        /\ \A i \in 1 .. Len(ms) : Len(ms[i].calls) \in Nat /\ i + Len(ms[i].calls) <= Len(ms)
    BY HistoryTypes, ClosedShape
  <1> HIDE DEF u
  <1>4. u[1] = User /\ Len(u[1].calls) = 0 /\ u[1].role # "tool"
    <2>1. 1 \in 1 .. 1 + Len(ms)
      BY <1>3
    <2> QED
      BY <1>1, <1>2, <2>1, SmallShapes
  <1>5. \A i \in 1 .. Len(u) : i = 1 \/ (i - 1 \in 1 .. Len(ms) /\ u[i] = ms[i - 1])
    BY <1>2, <1>3
  <1>6. InPlace(ms) /\ AnswersCalled(ms) /\ CallsApart(ms)
    BY DEF Shape
  <1>7. \A i \in 1 .. Len(u) : \A k \in 1 .. Len(u[i].calls) : i - 1 \in 1 .. Len(ms) /\ u[i] = ms[i - 1]
    BY <1>4, <1>5
  <1>8. InPlace(u)
    <2> SUFFICES ASSUME NEW i \in 1 .. Len(u), NEW k \in 1 .. Len(u[i].calls), i + k <= Len(u)
                 PROVE  u[i + k] = Result(u[i].calls[k])
      BY DEF InPlace
    <2> DEFINE h == i - 1
    <2>1. h \in 1 .. Len(ms) /\ u[i] = ms[h]
      BY <1>7
    <2>2. k \in 1 .. Len(ms[h].calls) /\ k \in Nat
      BY <1>3, <2>1
    <2>3. i + k \in 1 .. Len(u) /\ i + k # 1 /\ h + k <= Len(ms) /\ (i + k) - 1 = h + k
      BY <1>2, <1>3, <2>1, <2>2
    <2>4. u[i + k] = ms[h + k]
      BY <1>5, <2>3
    <2> HIDE DEF h
    <2>5. ms[h + k] = Result(ms[h].calls[k])
      BY <1>6, <2>1, <2>2, <2>3 DEF InPlace
    <2> QED
      BY <2>1, <2>4, <2>5
  <1>9. OnlyLastOpen(u, <<>>)
    <2> SUFFICES ASSUME NEW i \in 1 .. Len(u), i + Len(u[i].calls) > Len(u) PROVE FALSE
      BY DEF OnlyLastOpen
    <2>1. CASE i = 1
      BY <1>2, <1>3, <1>4, <2>1
    <2>2. CASE i # 1
      <3>1. (i - 1) + Len(u[i].calls) <= Len(ms) /\ Len(u[i].calls) \in Nat
        BY <1>3, <1>5, <2>2
      <3> QED
        BY <1>2, <1>3, <3>1
    <2> QED
      BY <2>1, <2>2
  <1>10. AnswersCalled(u)
    <2> SUFFICES ASSUME NEW j \in 1 .. Len(u), u[j].role = "tool"
                 PROVE  \E i \in 1 .. Len(u) : i < j /\ j - i <= Len(u[i].calls)
      BY DEF AnswersCalled
    <2> DEFINE g == j - 1
    <2>1. g \in 1 .. Len(ms) /\ ms[g].role = "tool"
      BY <1>4, <1>5
    <2>2. PICK h \in 1 .. Len(ms) : h < g /\ g - h <= Len(ms[h].calls)
      BY <1>6, <2>1 DEF AnswersCalled
    <2> DEFINE i == h + 1
    <2>3. i \in 1 .. Len(u) /\ i - 1 = h /\ i # 1 /\ i < j /\ j - i = g - h
      BY <1>2, <1>3, <2>1, <2>2
    <2>4. u[i] = ms[h]
      BY <1>5, <2>3
    <2> HIDE DEF i, g
    <2> QED
      BY <2>2, <2>3, <2>4
  <1>11. CallsApart(u)
    <2> SUFFICES ASSUME NEW h \in 1 .. Len(u), NEW j \in 1 .. Len(u),
                        NEW k \in 1 .. Len(u[h].calls), NEW l \in 1 .. Len(u[j].calls),
                        u[h].calls[k] = u[j].calls[l]
                 PROVE  h = j /\ k = l
      BY DEF CallsApart
    <2> DEFINE a == h - 1
               b == j - 1
    <2>1. a \in 1 .. Len(ms) /\ b \in 1 .. Len(ms) /\ u[h] = ms[a] /\ u[j] = ms[b]
      BY <1>7
    <2>2. a = b => h = j
      BY <1>2, <1>3
    <2> HIDE DEF a, b
    <2>3. /\ k \in 1 .. Len(ms[a].calls) /\ l \in 1 .. Len(ms[b].calls)
          /\ ms[a].calls[k] = ms[b].calls[l]
      BY <2>1
    <2>4. \A v \in 1 .. Len(ms[a].calls) : \A w \in 1 .. Len(ms[b].calls) :
            ms[a].calls[v] = ms[b].calls[w] => a = b /\ v = w
      BY <1>6, <2>1 DEF CallsApart
    <2> QED
      BY <2>2, <2>3, <2>4
  <1> QED
    BY <1>8, <1>9, <1>10, <1>11 DEF Shape, u

\* Compaction keeps the shape of a history without open calls.
LEMMA ShapeCompaction ==
  ASSUME NEW ms \in Seq(Message), NEW budget, Shape(ms, <<>>)
  PROVE  Shape(CompactMessages(ms, budget), <<>>)
  <1> DEFINE c == Cut(ms, budget)
             kept == SubSeq(ms, c, Len(ms))
  <1>1. CompactMessages(ms, budget) =
          IF ~Compacts(ms, budget) THEN ms ELSE IF opt.summary THEN <<User>> \o kept ELSE kept
    BY DEF CompactMessages
  <1>2. CASE ~Compacts(ms, budget)
    BY <1>1, <1>2
  <1>3. CASE Compacts(ms, budget)
    <2>1. c # 1 /\ Len(ms) \in Nat /\ \A i \in 1 .. Len(ms) : ms[i] \in Message
      BY <1>3, HistoryTypes DEF Compacts
    <2>2. c \in 1 .. Len(ms) /\ ms[c].role # "tool"
      BY <2>1, CutFallsBetweenGroups
    <2> HIDE DEF c
    <2>3. /\ kept \in Seq(Message)
          /\ Len(kept) = IF c <= Len(ms) THEN Len(ms) - c + 1 ELSE 0
          /\ \A i \in 1 .. Len(ms) - c + 1 : kept[i] = ms[c + i - 1]
      <3>1. c \in Int /\ Len(ms) \in Int /\ \A i \in c .. Len(ms) : ms[i] \in Message
        BY <2>1, <2>2
      <3> QED
        BY <3>1, SubSeqProperties
    <2> HIDE DEF kept
    <2>4. Len(kept) = Len(ms) - c + 1 /\ \A i \in 1 .. Len(kept) : kept[i] = ms[i + c - 1]
      <3>1. Len(kept) = Len(ms) - c + 1
        BY <2>1, <2>2, <2>3
      <3>2. \A i \in 1 .. Len(kept) : c + i - 1 = i + c - 1
        BY <2>1, <2>2, <3>1
      <3> QED
        BY <2>3, <3>1, <3>2
    <2>5. Shape(kept, <<>>)
      BY <2>2, <2>3, <2>4, ShapeSuffix DEF IsSuffix
    <2> QED
      BY <1>1, <1>3, <2>3, <2>5, ShapeSummary
  <1> QED
    BY <1>2, <1>3

\* The calls a fresh process finds open are the ones that are.
LEMMA ShapePending ==
  ASSUME NEW ms \in Seq(Message), NEW t \in Seq(Nat), Shape(ms, t),
         \A k \in 1 .. Len(t) : t[k] \notin Answered(ms)
  PROVE  PendingToolCalls(ms) = t
  <1> DEFINE callers == {i \in DOMAIN ms : ms[i].calls # <<>>}
  <1>1. /\ Len(ms) \in Nat /\ DOMAIN ms = 1 .. Len(ms) /\ Len(t) \in Nat
        /\ \A i \in 1 .. Len(ms) : ms[i].calls \in Seq(Nat) /\ Len(ms[i].calls) \in Nat
    BY HistoryTypes, LenProperties
  <1>2. InPlace(ms) /\ OnlyLastOpen(ms, t)
    BY DEF Shape
  <1>3. ASSUME NEW i \in 1 .. Len(ms), NEW k \in 1 .. Len(ms[i].calls), i + k <= Len(ms)
        PROVE  ms[i].calls[k] \in Answered(ms)
    <2>1. i + k \in DOMAIN ms
      BY <1>1, <1>3
    <2>2. ms[i + k] = Result(ms[i].calls[k])
      BY <1>2, <1>3 DEF InPlace
    <2> QED
      BY <2>1, <2>2, SmallShapes, SMTT(30) DEF Answered
  <1>4. CASE t = <<>>
    <2>1. \A i \in 1 .. Len(ms) : i + Len(ms[i].calls) <= Len(ms)
      BY <1>4, ClosedShape
    <2>2. CASE callers = {}
      BY <1>4, <2>2 DEF PendingToolCalls
    <2>3. CASE callers # {}
      <3> DEFINE i == Max(callers)
                 ids == ms[i].calls
      <3>1. PendingToolCalls(ms) = Unanswered(ids, Answered(ms))
        BY <2>3 DEF PendingToolCalls
      <3>2. i \in 1 .. Len(ms)
        <4>1. callers \subseteq 1 .. Len(ms)
          BY <1>1
        <4> HIDE DEF callers
        <4> QED
          BY <1>1, <2>3, <4>1, Greatest
      <3> HIDE DEF i
      <3>3. ids \in Seq(Nat) /\ Len(ids) \in Nat /\ \A k \in 1 .. Len(ids) : ids[k] \in Answered(ms)
        <4>1. \A k \in 1 .. Len(ids) : i + k <= Len(ms)
          BY <1>1, <2>1, <3>2
        <4> QED
          BY <1>1, <1>3, <3>2, <4>1
      <3> HIDE DEF ids
      <3> DEFINE u == Unanswered(ids, Answered(ms))
      <3>4. u \in Seq(Nat) /\ Len(u) = Len(ids) - Len(ids)
        <4>1. Len(ids) \in 0 .. Len(ids) /\ Len(ids) + 1 .. Len(ids) = {}
          BY <3>3
        <4>2. u = Unanswered(ids, Answered(ms))
          OBVIOUS
        <4>3. Split(ids, Answered(ms), Len(ids))
          BY <3>3, <4>1 DEF Split
        <4> HIDE DEF u
        <4> QED
          BY <3>3, <4>2, <4>3, UnansweredRest
      <3> HIDE DEF u
      <3>5. Len(u) = 0
        BY <3>3, <3>4
      <3>6. u = <<>>
        BY <3>4, <3>5, EmptySeq
      <3> QED
        BY <1>4, <3>1, <3>6 DEF u
    <2> QED
      BY <2>2, <2>3
  <1>5. CASE t # <<>>
    <2>1. Len(t) >= 1
      BY <1>1, <1>5, EmptySeq
    <2>2. PICK i \in 1 .. Len(ms) : Open(ms, i, t)
      BY <1>5 DEF Shape
    <2> DEFINE ids == ms[i].calls
               m == Len(ms) - i
    <2>3. ids \in Seq(Nat) /\ Len(ids) \in Nat /\ i + Len(ids) = Len(ms) + Len(t)
      BY <1>1, <2>2 DEF Open
    <2>4. m \in 0 .. Len(ids) /\ m \in Nat /\ Len(ids) - m = Len(t) /\ i + m = Len(ms)
      BY <1>1, <2>1, <2>3
    <2>5. ids # <<>>
      BY <2>1, <2>4, EmptySeq
    <2>6. \A j \in callers : j <= i
      <3> SUFFICES ASSUME NEW j \in 1 .. Len(ms), ms[j].calls # <<>>, j > i PROVE FALSE
        BY <1>1
      <3> DEFINE k == j - i
      <3>1. k \in 1 .. Len(ids) /\ i + k = j
        BY <1>1, <2>4
      <3> HIDE DEF k
      <3>2. ms[j] = Result(ids[k])
        <4>1. i + k <= Len(ms)
          BY <3>1
        <4> QED
          BY <1>2, <3>1, <4>1 DEF InPlace
      <3> QED
        BY <3>2, SmallShapes
    <2>7. i \in callers /\ callers \subseteq 1 .. Len(ms)
      BY <1>1, <2>5
    <2>8. Max(callers) = i
      <3> HIDE DEF callers
      <3>1. Max(callers) \in callers /\ Max(callers) >= i
        BY <1>1, <2>7, Greatest
      <3>2. Max(callers) <= i
        BY <2>6, <3>1
      <3>3. Max(callers) \in 1 .. Len(ms)
        BY <2>7, <3>1
      <3> QED
        BY <1>1, <3>1, <3>2, <3>3
    <2>9. PendingToolCalls(ms) = Unanswered(ids, Answered(ms))
      <3>1. callers # {}
        BY <2>7
      <3>2. PendingToolCalls(ms) = IF callers = {} THEN <<>> ELSE Unanswered(ms[Max(callers)].calls, Answered(ms))
        BY DEF PendingToolCalls
      <3> HIDE DEF callers
      <3> QED
        BY <2>8, <3>1, <3>2
    <2>10. \A k \in 1 .. m : ids[k] \in Answered(ms)
      <3> SUFFICES ASSUME NEW k \in 1 .. m PROVE ids[k] \in Answered(ms)
        OBVIOUS
      <3>1. k \in 1 .. Len(ids) /\ i + k <= Len(ms)
        BY <2>3, <2>4
      <3> QED
        BY <1>3, <3>1
    <2>11. \A n \in 1 .. Len(t) : t[n] = ids[m + n]
      BY <2>2 DEF Open
    <2>12. \A k \in m + 1 .. Len(ids) : ids[k] \notin Answered(ms)
      <3> SUFFICES ASSUME NEW k \in m + 1 .. Len(ids) PROVE ids[k] \notin Answered(ms)
        OBVIOUS
      <3>1. k - m \in 1 .. Len(t) /\ m + (k - m) = k
        BY <2>3, <2>4
      <3>2. t[k - m] = ids[k]
        BY <2>11, <3>1
      <3> QED
        BY <3>1, <3>2
    <2> DEFINE u == Unanswered(ids, Answered(ms))
    <2> HIDE DEF ids, m, callers
    <2>13. /\ u \in Seq(Nat) /\ Len(u) = Len(ids) - m
           /\ \A k \in 1 .. Len(u) : u[k] = ids[m + k]
      <3>1. u = Unanswered(ids, Answered(ms))
        OBVIOUS
      <3>2. Split(ids, Answered(ms), m)
        BY <2>4, <2>10, <2>12 DEF Split
      <3> HIDE DEF u
      <3> QED
        BY <2>3, <3>1, <3>2, UnansweredRest, SMTT(30)
    <2> HIDE DEF u
    <2>14. Len(u) = Len(t) /\ \A k \in 1 .. Len(u) : u[k] = t[k]
      BY <2>4, <2>11, <2>13
    <2>15. u = t
      BY <2>13, <2>14, SeqEqual
    <2> QED
      BY <2>9, <2>15 DEF u
  <1> QED
    BY <1>4, <1>5

LEMMA NothingPending ==
  ASSUME NEW ms \in Seq(Message), Shape(ms, <<>>)
  PROVE  PendingToolCalls(ms) = <<>>
  <1> DEFINE t == <<>>
  <1>1. t \in Seq(Nat) /\ Len(t) = 0
    BY EmptySeq
  <1>2. \A k \in 1 .. Len(t) : t[k] \notin Answered(ms)
    BY <1>1
  <1>3. Shape(ms, t)
    OBVIOUS
  <1> HIDE DEF t
  <1>4. PendingToolCalls(ms) = t
    BY <1>1, <1>2, <1>3, ShapePending
  <1> QED
    BY <1>4 DEF t

\* A history of that shape is one that a provider accepts.
LEMMA ShapeWellFormed ==
  ASSUME NEW ms \in Seq(Message), Shape(ms, <<>>)
  PROVE  WellFormed(ms)
  <1> DEFINE T == {j \in DOMAIN ms : ms[j].role = "tool"}
             f == [j \in T |-> ms[j].id]
  <1>1. /\ Len(ms) \in Nat /\ DOMAIN ms = 1 .. Len(ms)
        /\ \A i \in 1 .. Len(ms) : /\ Len(ms[i].calls) \in Nat /\ i + Len(ms[i].calls) <= Len(ms)
                                   /\ DOMAIN ms[i].calls = 1 .. Len(ms[i].calls)
    BY HistoryTypes, ClosedShape
  <1>2. InPlace(ms) /\ AnswersCalled(ms) /\ CallsApart(ms)
    BY DEF Shape
  <1>3. ASSUME NEW i \in DOMAIN ms, NEW k \in DOMAIN ms[i].calls
        PROVE  i + k \in DOMAIN ms /\ ms[i + k] = Result(ms[i].calls[k])
    <2>1. i \in 1 .. Len(ms) /\ k \in 1 .. Len(ms[i].calls)
      BY <1>1
    <2>2. i + k \in 1 .. Len(ms) /\ i + k <= Len(ms)
      BY <1>1, <2>1
    <2> QED
      BY <1>1, <1>2, <2>1, <2>2 DEF InPlace
  <1>4. ASSUME NEW j \in T
        PROVE  \E i \in 1 .. (j - 1) : /\ i \in DOMAIN ms /\ j - i \in DOMAIN ms[i].calls
                                       /\ ms[j].id = ms[i].calls[j - i]
    <2>1. j \in 1 .. Len(ms) /\ ms[j].role = "tool"
      BY <1>1
    <2>2. PICK i \in 1 .. Len(ms) : i < j /\ j - i <= Len(ms[i].calls)
      BY <1>2, <2>1 DEF AnswersCalled
    <2> DEFINE k == j - i
    <2>3. i \in 1 .. (j - 1) /\ k \in 1 .. Len(ms[i].calls) /\ i + k = j /\ i \in DOMAIN ms /\ k \in DOMAIN ms[i].calls
      BY <1>1, <2>1, <2>2
    <2>4. ms[j] = Result(ms[i].calls[k])
      <3> HIDE DEF k
      <3> QED
        BY <1>3, <2>3
    <2>5. ms[j].id = ms[i].calls[k]
      BY <2>4, SmallShapes
    <2> QED
      BY <2>3, <2>5
  <1>5. \A j \in DOMAIN ms : ms[j].role = "tool" => \E i \in 1 .. (j - 1) : ms[j].id \in SeqSet(ms[i].calls)
    BY <1>4 DEF SeqSet
  <1>6. ASSUME NEW a \in T, NEW b \in T, ms[a].id = ms[b].id
        PROVE  a = b
    <2>1. PICK i \in 1 .. (a - 1) : /\ i \in DOMAIN ms /\ a - i \in DOMAIN ms[i].calls
                                    /\ ms[a].id = ms[i].calls[a - i]
      BY <1>4
    <2>2. PICK j \in 1 .. (b - 1) : /\ j \in DOMAIN ms /\ b - j \in DOMAIN ms[j].calls
                                    /\ ms[b].id = ms[j].calls[b - j]
      BY <1>4
    <2> DEFINE k == a - i
               l == b - j
    <2>3. i \in 1 .. Len(ms) /\ j \in 1 .. Len(ms) /\ k \in 1 .. Len(ms[i].calls) /\ l \in 1 .. Len(ms[j].calls)
      BY <1>1, <2>1, <2>2
    <2>4. ms[i].calls[k] = ms[j].calls[l]
      BY <1>6, <2>1, <2>2
    <2>5. i = j /\ k = l
      <3> HIDE DEF k, l, T
      <3> QED
        BY <1>2, <2>3, <2>4 DEF CallsApart
    <2>6. a \in 1 .. Len(ms) /\ b \in 1 .. Len(ms)
      BY <1>1
    <2> QED
      BY <1>1, <2>3, <2>5, <2>6
  <1>7. Cardinality(Answered(ms)) = Cardinality(T)
    <2>1. IsFiniteSet(T)
      <3>1. IsFiniteSet(1 .. Len(ms))
        BY <1>1, FS_Interval
      <3>2. T \subseteq 1 .. Len(ms)
        BY <1>1
      <3> HIDE DEF T
      <3> QED
        BY <3>1, <3>2, FS_Subset
    <2>2. f \in Bijection(T, Answered(ms))
      <3>1. f \in [T -> Answered(ms)]
        BY DEF Answered
      <3>2. \A id \in Answered(ms) : \E j \in T : f[j] = id
        BY DEF Answered
      <3>3. \A a, b \in T : f[a] = f[b] => a = b
        BY <1>6
      <3> HIDE DEF f, T
      <3> QED
        BY <3>1, <3>2, <3>3, Fun_IsBij
    <2>3. ExistsBijection(T, Answered(ms))
      BY <2>2 DEF ExistsBijection
    <2> HIDE DEF T, f
    <2> QED
      BY <2>1, <2>3, FS_Bijection
  <1> QED
    BY <1>3, <1>5, <1>7 DEF WellFormed

-----------------------------------------------------------------------------
(* Every history keeps its shape, where the history of a session is not     *)
(* compacted: what is cut from it would shift what the session is given.    *)

SessionsUncut == \A o \in Options : o.session => o.budget = 0 /\ ~o.overflow

StartsWith(ms, s) == Len(s) <= Len(ms) /\ \A i \in 1 .. Len(s) : ms[i] = s[i]

Continues == pc \in {"top", "llm", "tools", "calling"} \/ (pc = "saving" /\ saving.then # "idle")

StoreShaped == \A r \in 1 .. opt.runs : Shape(store[r].messages, PendingToolCalls(store[r].messages))

KeptOK ==
  loop.kept => /\ opt.session
               /\ Continues => loop.baseline = Len(session) /\ StartsWith(messages, session)

ShapesOK == Shape(messages, todo) /\ Shape(session, <<>>) /\ StoreShaped /\ KeptOK

LEMMA StartsAppend ==
  ASSUME NEW ms \in Seq(Message), NEW s \in Seq(Message), StartsWith(ms, s), NEW m \in Message
  PROVE  StartsWith(Append(ms, m), s)
  <1>1. /\ Len(Append(ms, m)) = Len(ms) + 1 /\ Len(ms) \in Nat /\ Len(s) \in Nat
        /\ \A i \in 1 .. Len(ms) : Append(ms, m)[i] = ms[i]
    BY AppendProperties, LenProperties
  <1>2. Len(s) <= Len(ms) /\ \A i \in 1 .. Len(s) : ms[i] = s[i] /\ i \in 1 .. Len(ms)
    BY <1>1 DEF StartsWith
  <1> QED
    BY <1>1, <1>2 DEF StartsWith

\* What was there, and what came after it, is all of it.
LEMMA Rejoined ==
  ASSUME NEW ms \in Seq(Message), NEW s \in Seq(Message), StartsWith(ms, s)
  PROVE  s \o SubSeq(ms, Len(s) + 1, Len(ms)) = ms
  <1> DEFINE more == SubSeq(ms, Len(s) + 1, Len(ms))
             t == s \o more
  <1>1. /\ Len(ms) \in Nat /\ Len(s) \in Nat /\ Len(s) <= Len(ms) /\ \A i \in 1 .. Len(s) : ms[i] = s[i]
        /\ \A i \in 1 .. Len(ms) : ms[i] \in Message
    BY HistoryTypes DEF StartsWith
  <1>2. /\ more \in Seq(Message)
        /\ Len(more) = IF Len(s) + 1 <= Len(ms) THEN Len(ms) - (Len(s) + 1) + 1 ELSE 0
        /\ \A i \in 1 .. Len(ms) - (Len(s) + 1) + 1 : more[i] = ms[(Len(s) + 1) + i - 1]
    <2>1. /\ Len(s) + 1 \in Int /\ Len(ms) \in Int
          /\ \A i \in Len(s) + 1 .. Len(ms) : ms[i] \in Message
      BY <1>1
    <2> QED
      BY <2>1, SubSeqProperties
  <1> HIDE DEF more
  <1>3. Len(more) = Len(ms) - Len(s)
    BY <1>1, <1>2
  <1>4. \A i \in 1 .. Len(more) : more[i] = ms[Len(s) + i]
    <2> SUFFICES ASSUME NEW i \in 1 .. Len(more) PROVE more[i] = ms[Len(s) + i]
      OBVIOUS
    <2>1. i \in 1 .. Len(ms) - (Len(s) + 1) + 1 /\ (Len(s) + 1) + i - 1 = Len(s) + i
      BY <1>1, <1>3
    <2> QED
      BY <1>2, <2>1
  <1>5. /\ t \in Seq(Message) /\ Len(t) = Len(s) + Len(more)
        /\ \A i \in 1 .. Len(s) + Len(more) : t[i] = IF i <= Len(s) THEN s[i] ELSE more[i - Len(s)]
    BY <1>2, ConcatProperties
  <1> HIDE DEF t
  <1>6. Len(t) = Len(ms)
    BY <1>1, <1>3, <1>5
  <1>7. \A i \in 1 .. Len(t) : t[i] = ms[i]
    <2> SUFFICES ASSUME NEW i \in 1 .. Len(t) PROVE t[i] = ms[i]
      OBVIOUS
    <2>1. CASE i <= Len(s)
      <3>1. i \in 1 .. Len(s)
        BY <1>1, <2>1
      <3> QED
        BY <1>1, <1>5, <2>1, <3>1
    <2>2. CASE ~(i <= Len(s))
      <3>1. i - Len(s) \in 1 .. Len(more) /\ Len(s) + (i - Len(s)) = i
        BY <1>1, <1>3, <1>6, <2>2
      <3> QED
        BY <1>4, <1>5, <2>2, <3>1
    <2> QED
      BY <2>1, <2>2
  <1>8. t = ms
    BY <1>5, <1>6, <1>7, SeqEqual
  <1> QED
    BY <1>8 DEF t, more

LEMMA InitShapes == Init => ShapesOK
  <1> SUFFICES ASSUME Init PROVE ShapesOK
    OBVIOUS
  <1>1. messages = <<>> /\ todo = <<>> /\ session = <<>> /\ ~loop.kept
    BY DEF Init, Fresh
  <1>2. <<>> \in Seq(Message) /\ <<>> \in Seq(Nat) /\ Len(<<>>) = 0
    BY EmptySeq
  <1>3. PendingToolCalls(<<>>) = <<>>
    BY <1>2, SmallShapes, NothingPending
  <1>4. \A r \in 1 .. opt.runs : store[r].messages = <<>>
    BY DEF Init, NoCheckpoint
  <1> QED
    BY <1>1, <1>3, <1>4, SmallShapes DEF ShapesOK, StoreShaped, KeptOK

LEMMA AsideShapes ==
  ASSUME ShapesOK, Aside
  PROVE  ShapesOK'
  BY DEF ShapesOK, Aside, StoreShaped, KeptOK, Continues

LEMMA StopsShapes ==
  ASSUME ShapesOK, Stops
  PROVE  ShapesOK'
  <1>1. /\ UNCHANGED <<opt, messages, todo, loop, store, session>>
        /\ pc' \in {"idle", "saving"}
        /\ pc' = "saving" => saving'.then = "idle"
    BY DEF Stops
  <1>2. ~Continues'
    BY <1>1 DEF Continues
  <1> QED
    BY <1>1, <1>2 DEF ShapesOK, StoreShaped, KeptOK

\* A message without calls, added where no call is open.
LEMMA ShapeSay ==
  ASSUME RunInv, NEW ms \in Seq(Message), Shape(ms, <<>>), Known(Len(ran), ms), NEW m \in {User, Assistant(<<>>)}
  PROVE  /\ Append(ms, m) \in Seq(Message) /\ Shape(Append(ms, m), <<>>)
         /\ Known(Len(ran), Append(ms, m))
  <1>1. m \in Message /\ m.calls = <<>> /\ m.role # "tool" /\ Len(m.calls) = 0 /\ KnownMessage(Len(ran), m)
    BY Messages, SmallShapes, PlainKnown
  <1>2. Append(ms, m) \in Seq(Message) /\ Made(Append(ms, m), ms, {m})
    BY <1>1, MadeByAppend
  <1>3. Known(Len(ran), Append(ms, m))
    BY <1>1, <1>2, MadeKnown
  <1>4. Shape(Append(ms, m), m.calls)
    <2>1. Len(ran) \in Nat
      BY RunInvTypes
    <2>2. /\ \A k \in 1 .. Len(m.calls) : m.calls[k] \notin 1 .. Len(ran)
          /\ \A k, l \in 1 .. Len(m.calls) : m.calls[k] = m.calls[l] => k = l
      BY <1>1
    <2> QED
      BY <1>1, <2>1, <2>2, ShapeSpeak
  <1> QED
    BY <1>1, <1>2, <1>3, <1>4

LEMMA RunShapes ==
  ASSUME RunInv, ShapesOK, Run
  PROVE  ShapesOK'
  <1> DEFINE before == IF opt.session THEN session ELSE <<>>
             ms == Append(before, User)
  <1>1. /\ Enter(runs + 1, ms, 0, Len(before), FALSE)
        /\ UNCHANGED <<opt, store, session>>
    BY DEF Run, durable
  <1>2. /\ messages' = ms /\ todo' = PendingToolCalls(ms)
        /\ loop'.kept => opt.session
        /\ loop'.baseline = Len(before)
    BY <1>1 DEF Enter, Fresh
  <1>3. before \in Seq(Message) /\ Known(Len(ran), before) /\ Shape(before, <<>>)
    BY RunInvTypes, EmptySeq, PlainKnown, SmallShapes DEF RunInv, HistoriesKnown, ShapesOK
  <1> HIDE DEF before
  <1>4. ms \in Seq(Message) /\ Shape(ms, <<>>)
    BY <1>3, ShapeSay
  <1>5. PendingToolCalls(ms) = <<>>
    <2> HIDE DEF ms
    <2> QED
      BY <1>4, NothingPending
  <1>6. opt.session => before = session /\ StartsWith(ms, session)
    <2> SUFFICES ASSUME opt.session PROVE before = session /\ StartsWith(ms, session)
      OBVIOUS
    <2>1. before = session
      BY DEF before
    <2>2. session \in Seq(Message) /\ User \in Message /\ StartsWith(session, session)
      BY RunInvTypes, HistoryTypes, Messages DEF StartsWith
    <2> QED
      BY <2>1, <2>2, StartsAppend
  <1>7. StoreShaped'
    BY <1>1 DEF ShapesOK, StoreShaped
  <1>8. KeptOK'
    BY <1>1, <1>2, <1>6 DEF KeptOK
  <1>9. Shape(messages', todo') /\ Shape(session', <<>>)
    BY <1>1, <1>2, <1>4, <1>5 DEF ShapesOK
  <1> QED
    BY <1>7, <1>8, <1>9 DEF ShapesOK

LEMMA ResumeShapes ==
  ASSUME ShapesOK, NEW r \in 1 .. opt.runs, Resume(r)
  PROVE  ShapesOK'
  <1>1. /\ messages' = store[r].messages /\ todo' = PendingToolCalls(store[r].messages)
        /\ ~loop'.kept
        /\ UNCHANGED <<opt, store, session>>
    BY DEF Resume, Enter, Fresh, durable
  <1>2. Shape(messages', todo')
    BY <1>1 DEF ShapesOK, StoreShaped
  <1> QED
    BY <1>1, <1>2 DEF ShapesOK, StoreShaped, KeptOK

\* Whatever is saved of it, the store keeps its shapes.
LEMMA StoredShapes ==
  ASSUME RunInv, ShapesOK, opt' = opt,
         \A r \in 1 .. opt.runs : store'[r] = store[r] \/ store'[r].messages \in {messages, <<>>}
  PROVE  StoreShaped'
  <1>1. PendingToolCalls(messages) = todo
    BY RunInvTypes, ShapePending DEF RunInv, TodoOK, ShapesOK
  <1>2. <<>> \in Seq(Message) /\ <<>> \in Seq(Nat) /\ Len(<<>>) = 0
    BY EmptySeq
  <1>3. PendingToolCalls(<<>>) = <<>>
    BY <1>2, SmallShapes, NothingPending
  <1>4. \A r \in 1 .. opt.runs : Shape(store'[r].messages, PendingToolCalls(store'[r].messages))
    BY <1>1, <1>3, SmallShapes DEF ShapesOK, StoreShaped
  <1> QED
    BY <1>4 DEF StoreShaped

LEMMA SavingShapes ==
  ASSUME RunInv, ShapesOK, SaveEnds \/ SaveFails
  PROVE  ShapesOK'
  <1>1. /\ pc = "saving" /\ store' \in {store, [store EXCEPT ![rid] = Saved]}
        /\ UNCHANGED <<opt, messages, todo, loop, session>>
        /\ pc' = "idle" \/ pc' = saving.then
    BY DEF SaveEnds, SaveFails, Settle
  <1>2. store' = store \/ (/\ store'[rid].messages = messages
                           /\ \A r \in 1 .. opt.runs : r # rid => store'[r] = store[r])
    BY <1>1, StoredMessages
  <1>3. StoreShaped'
    BY <1>1, <1>2, StoredShapes
  <1>4. Continues' => Continues
    BY <1>1, RunInvTypes DEF Continues, Savings
  <1>5. KeptOK'
    BY <1>1, <1>4 DEF ShapesOK, KeptOK
  <1> QED
    BY <1>1, <1>3, <1>5 DEF ShapesOK

LEMMA CrashShapes ==
  ASSUME RunInv, ShapesOK, Crash
  PROVE  ShapesOK'
  <1>1. /\ messages' = <<>> /\ todo' = <<>> /\ ~loop'.kept
        /\ store' \in IF pc # "saving" THEN {store}
                      ELSE {store, [store EXCEPT ![rid] = Saved], [store EXCEPT ![rid] = Torn]}
        /\ UNCHANGED <<opt, session>>
    BY DEF Crash, Fresh
  <1>2. \A r \in 1 .. opt.runs : store'[r] = store[r] \/ store'[r].messages \in {messages, <<>>}
    <2>1. CASE store' = [store EXCEPT ![rid] = Torn]
      <3>1. Torn.messages = <<>> /\ store \in [1 .. opt.runs -> Checkpoints]
        BY RunInvTypes DEF Torn
      <3> QED
        BY <2>1, <3>1
    <2>2. CASE store' = [store EXCEPT ![rid] = Saved]
      <3>1. Saved.messages = messages /\ store \in [1 .. opt.runs -> Checkpoints]
        BY RunInvTypes DEF Saved
      <3> QED
        BY <2>2, <3>1
    <2> QED
      BY <1>1, <2>1, <2>2
  <1>3. StoreShaped'
    BY <1>1, <1>2, StoredShapes
  <1> QED
    BY <1>1, <1>3, SmallShapes DEF ShapesOK, KeptOK

LEMMA CompactionShapes ==
  ASSUME SessionsUncut, RunInv, ShapesOK, StartTurn \/ Overflows
  PROVE  ShapesOK'
  <1>1. /\ pc \in {"top", "llm"}
        /\ UNCHANGED <<opt, todo, store, session>>
        /\ loop'.kept = loop.kept /\ loop'.baseline = loop.baseline
        /\ \/ messages' = messages
           \/ (opt.budget # 0 \/ opt.overflow) /\ \E b : messages' = CompactMessages(messages, b)
    <2>1. loop \in Loops
      BY RunInvTypes
    <2>2. CASE StartTurn
      BY <2>2 DEF StartTurn, durable
    <2>3. CASE Overflows
      BY <2>1, <2>3 DEF Overflows, Loops, durable
    <2> QED
      BY <2>2, <2>3
  <1>2. todo = <<>>
    BY <1>1 DEF RunInv, TodoOK
  <1>3. Shape(messages', todo')
    <2>1. Shape(messages, <<>>)
      BY <1>2 DEF ShapesOK
    <2> QED
      BY <1>1, <1>2, <2>1, RunInvTypes, ShapeCompaction
  <1>4. opt.session => messages' = messages
    <2>1. opt \in Options
      BY RunInvTypes
    <2> QED
      BY <1>1, <2>1 DEF SessionsUncut
  <1>5. KeptOK'
    BY <1>1, <1>4 DEF ShapesOK, KeptOK, Continues
  <1>6. StoreShaped'
    BY <1>1 DEF ShapesOK, StoreShaped
  <1> QED
    BY <1>1, <1>3, <1>5, <1>6 DEF ShapesOK

LEMMA AsksToolsShapes ==
  ASSUME RunInv, ShapesOK, AsksTools
  PROVE  ShapesOK'
  <1>1. PICK n \in 1 .. MaxCalls :
          /\ messages' = Append(messages, Assistant([i \in 1 .. n |-> Len(ran) + i]))
          /\ todo' = [i \in 1 .. n |-> Len(ran) + i]
    BY DEF AsksTools
  <1>2. /\ pc = "llm" /\ UNCHANGED <<opt, store, session>>
        /\ loop'.kept = loop.kept /\ loop'.baseline = loop.baseline
    BY RunInvTypes DEF AsksTools, durable, Loops
  <1> DEFINE ids == [i \in 1 .. n |-> Len(ran) + i]
             m == Assistant(ids)
  <1>3. n \in Nat /\ Len(ran) \in Nat
    BY RunAssumption, RunInvTypes
  <1>4. /\ ids \in Seq(Nat) /\ Len(ids) = n
        /\ \A k \in 1 .. n : ids[k] \notin 1 .. Len(ran)
        /\ \A k, l \in 1 .. n : ids[k] = ids[l] => k = l
    <2>1. ids = [i \in 1 .. n |-> Len(ran) + i]
      OBVIOUS
    <2> HIDE DEF ids
    <2> QED
      BY <1>3, <2>1, NewCalls
  <1> HIDE DEF ids
  <1>5. todo' = ids /\ messages' = Append(messages, m)
    BY <1>1 DEF ids
  <1>6. m \in Message /\ m.calls = ids /\ m.role # "tool"
    BY <1>4, Messages, SmallShapes
  <1> HIDE DEF m
  <1>7. messages \in Seq(Message) /\ session \in Seq(Message) /\ Known(Len(ran), messages) /\ Shape(messages, <<>>)
    BY <1>2, RunInvTypes DEF RunInv, HistoriesKnown, TodoOK, ShapesOK
  <1>8. Shape(Append(messages, m), m.calls)
    <2>1. /\ \A k \in 1 .. Len(m.calls) : m.calls[k] \notin 1 .. Len(ran)
          /\ \A k, l \in 1 .. Len(m.calls) : m.calls[k] = m.calls[l] => k = l
      BY <1>4, <1>6
    <2> QED
      BY <1>3, <1>6, <1>7, <2>1, ShapeSpeak
  <1>9. KeptOK'
    <2>1. StartsWith(messages, session) => StartsWith(messages', session)
      BY <1>5, <1>6, <1>7, StartsAppend
    <2> QED
      BY <1>2, <2>1 DEF ShapesOK, KeptOK, Continues
  <1> QED
    BY <1>2, <1>5, <1>6, <1>8, <1>9 DEF ShapesOK, StoreShaped

LEMMA AnswersShapes ==
  ASSUME RunInv, ShapesOK, Answers
  PROVE  ShapesOK'
  <1>1. /\ pc = "llm" /\ messages' = Append(messages, Assistant(<<>>))
        /\ session' = (IF loop.kept THEN session \o SubSeq(messages', loop.baseline + 1, Len(messages')) ELSE session)
        /\ UNCHANGED <<opt, todo, store, loop>>
        /\ pc' \in {"idle", "saving"}
        /\ pc' = "saving" => saving'.then = "idle"
    BY DEF Answers, PersistSession, Checkpoint, Settle
  <1>2. /\ messages \in Seq(Message) /\ session \in Seq(Message) /\ Known(Len(ran), messages)
        /\ todo = <<>> /\ Shape(messages, <<>>)
    BY <1>1, RunInvTypes DEF RunInv, HistoriesKnown, TodoOK, ShapesOK
  <1>3. messages' \in Seq(Message) /\ Shape(messages', <<>>)
    BY <1>1, <1>2, ShapeSay
  <1>4. Shape(session', <<>>)
    <2>1. CASE ~loop.kept
      BY <1>1, <2>1 DEF ShapesOK
    <2>2. CASE loop.kept
      <3>1. loop.baseline = Len(session) /\ StartsWith(messages, session)
        BY <1>1, <2>2 DEF ShapesOK, KeptOK, Continues
      <3>2. StartsWith(messages', session)
        BY <1>1, <1>2, <3>1, Messages, StartsAppend
      <3>3. session' = messages'
        BY <1>1, <1>2, <1>3, <2>2, <3>1, <3>2, Rejoined
      <3> QED
        BY <1>3, <3>3
    <2> QED
      BY <2>1, <2>2
  <1>5. KeptOK'
    BY <1>1 DEF ShapesOK, KeptOK, Continues
  <1> QED
    BY <1>1, <1>2, <1>3, <1>4, <1>5 DEF ShapesOK, StoreShaped

LEMMA RepairsShapes ==
  ASSUME RunInv, ShapesOK, Repairs
  PROVE  ShapesOK'
  <1> DEFINE one == Append(messages, Assistant(<<>>))
  <1>1. /\ pc = "llm" /\ messages' = messages \o <<Assistant(<<>>), User>>
        /\ UNCHANGED <<opt, todo, store, session>>
        /\ loop'.kept = loop.kept /\ loop'.baseline = loop.baseline
    BY RunInvTypes DEF Repairs, durable, Loops
  <1>2. /\ messages \in Seq(Message) /\ session \in Seq(Message) /\ Known(Len(ran), messages)
        /\ todo = <<>> /\ Shape(messages, <<>>)
    BY <1>1, RunInvTypes DEF RunInv, HistoriesKnown, TodoOK, ShapesOK
  <1>3. one \in Seq(Message) /\ Shape(one, <<>>) /\ Known(Len(ran), one)
    BY <1>2, ShapeSay
  <1>4. Append(one, User) \in Seq(Message) /\ Shape(Append(one, User), <<>>)
    <2> HIDE DEF one
    <2> QED
      BY <1>3, ShapeSay
  <1>5. messages' = Append(one, User)
    <2>1. Assistant(<<>>) \in Message /\ User \in Message
      BY Messages
    <2> QED
      BY <1>1, <1>2, <2>1
  <1>6. StartsWith(messages, session) => StartsWith(messages', session)
    <2> SUFFICES ASSUME StartsWith(messages, session) PROVE StartsWith(messages', session)
      OBVIOUS
    <2>1. StartsWith(one, session)
      BY <1>2, Messages, StartsAppend
    <2> HIDE DEF one
    <2> QED
      BY <1>2, <1>3, <1>5, <2>1, Messages, StartsAppend
  <1>7. KeptOK'
    BY <1>1, <1>6 DEF ShapesOK, KeptOK, Continues
  <1> HIDE DEF one
  <1> QED
    BY <1>1, <1>2, <1>4, <1>5, <1>7 DEF ShapesOK, StoreShaped

LEMMA StartCallShapes ==
  ASSUME ShapesOK, StartCall
  PROVE  ShapesOK'
  <1>1. /\ pc = "tools" /\ pc' = "calling"
        /\ UNCHANGED <<opt, messages, todo, loop, store, session>>
    BY DEF StartCall, durable
  <1> QED
    BY <1>1 DEF ShapesOK, StoreShaped, KeptOK, Continues

LEMMA AnsweringShapes ==
  ASSUME RunInv, ShapesOK, Answering
  PROVE  ShapesOK'
  <1>1. /\ pc = "calling" /\ messages' = Append(messages, Result(Head(todo))) /\ todo' = Tail(todo)
        /\ UNCHANGED <<opt, loop, store, session>>
    BY AnsweringAnswers DEF Answers1
  <1>2. messages \in Seq(Message) /\ session \in Seq(Message) /\ todo \in Seq(Nat) /\ todo # <<>>
    BY <1>1, RunInvTypes DEF RunInv, TodoOK
  <1>3. Shape(messages', todo')
    BY <1>1, <1>2, ShapeAnswer DEF ShapesOK
  <1>4. Result(Head(todo)) \in Message
    BY <1>2, Nonempty, Messages
  <1>5. StartsWith(messages, session) => StartsWith(messages', session)
    BY <1>1, <1>2, <1>4, StartsAppend
  <1>6. KeptOK'
    BY <1>1, <1>5 DEF ShapesOK, KeptOK, Continues
  <1> QED
    BY <1>1, <1>3, <1>6 DEF ShapesOK, StoreShaped

LEMMA StepShapes ==
  ASSUME SessionsUncut, RunInv, ShapesOK, [Next]_vars
  PROVE  ShapesOK'
  BY NextCases, AsideShapes, StoppingStops, StopsShapes, AnsweringShapes, RunShapes, ResumeShapes, SavingShapes,
     CrashShapes, CompactionShapes, AsksToolsShapes, AnswersShapes, RepairsShapes, StartCallShapes
     DEF RunInv

LEMMA ShapesAreSound ==
  ASSUME RunInv, ShapesOK
  PROVE  RunIsSound
  <1>1. messages \in Seq(Message) /\ session \in Seq(Message) /\ TypeOK
    BY RunInvTypes DEF RunInv
  <1>2. WellFormed(session)
    BY <1>1, ShapeWellFormed DEF ShapesOK
  <1>3. pc = "llm" => WellFormed(messages)
    <2>1. pc = "llm" => Shape(messages, <<>>)
      BY DEF RunInv, TodoOK, ShapesOK
    <2> QED
      BY <1>1, <2>1, ShapeWellFormed
  <1> QED
    BY <1>1, <1>2, <1>3, ProgressIsSaved DEF RunIsSound, RequestsWellFormed

\* What the model is asked and what a session keeps is a history a provider
\* accepts, whatever is cut, repaired, interrupted or resumed, where the
\* history of a session is not compacted.
THEOREM RunsAreSound ==
  ASSUME SessionsUncut
  PROVE  Spec => []RunIsSound
  <1>1. Init => RunInv /\ ShapesOK
    BY InitRunInv, InitShapes
  <1>2. RunInv /\ ShapesOK /\ [Next]_vars => (RunInv /\ ShapesOK)'
    BY StepRunInv, StepShapes
  <1>3. RunInv /\ ShapesOK => RunIsSound
    BY ShapesAreSound
  <1> QED
    BY <1>1, <1>2, <1>3, PTL DEF Spec

-----------------------------------------------------------------------------
(* What the chains and the sessions count. *)

Upto(n) == [i \in 1 .. n |-> i]

LEMMA UptoIsSeq ==
  ASSUME NEW n \in Nat
  PROVE  Upto(n) \in Seq(Nat) /\ Len(Upto(n)) = n /\ Upto(0) = <<>> /\ Append(Upto(n), n + 1) = Upto(n + 1)
  BY DEF Upto

-----------------------------------------------------------------------------
(* The calls on a Computer.  A call that was let through has its verdict in *)
(* the audit trail, whatever becomes of its requests.                       *)

Offered(c) == <<c, "allowed">> \in offered \/ <<c, "unavailable">> \in offered

\* Call c, by how far it is.
LetThrough(c) ==
  /\ call[c].st = "idle" => \A n \in Computer!Attempt : request[c][n] = "none"
  /\ Computer!Gated(call[c].target) =>
       /\ call[c].st \in {"idle", "asking", "writing"} => \A n \in Computer!Attempt : request[c][n] = "none"
       /\ call[c].st \in {"trying", "waiting"} => Offered(c)
       /\ \A n \in Computer!Attempt : request[c][n] # "none" => Offered(c)

\* A request of an app's export that runs, or has run, was allowed.
Allowed(c) ==
  \A n \in Computer!Attempt :
    Computer!Gated(call[c].target) /\ call[c].target = "app" /\ Computer!Began(c, n) => said[c][n] = "yes"

IsMade(q) == q = [st |-> q.st, target |-> q.target, verdict |-> q.verdict, n |-> q.n]

ComputerInv ==
  /\ DOMAIN call = Call /\ DOMAIN request = Call /\ DOMAIN said = Call
  /\ \A c \in Call :
       /\ IsMade(call[c])
       /\ DOMAIN request[c] = Computer!Attempt /\ DOMAIN said[c] = Computer!Attempt
       /\ LetThrough(c) /\ Allowed(c)

\* What an assignment to a field or two of call c makes of the calls.
LEMMA StateIsSet ==
  ASSUME ComputerInv, NEW c \in Call, NEW s, call' = [call EXCEPT ![c].st = s]
  PROVE  /\ DOMAIN call' = Call /\ \A d \in Call : d # c => call'[d] = call[d]
         /\ call'[c] = [st |-> s, target |-> call[c].target, verdict |-> call[c].verdict, n |-> call[c].n]
  <1>1. DOMAIN call = Call
        /\ call[c] = [st |-> call[c].st, target |-> call[c].target, verdict |-> call[c].verdict, n |-> call[c].n]
    BY DEF ComputerInv, IsMade
  <1>2. DOMAIN call' = Call /\ (\A d \in Call : d # c => call'[d] = call[d])
        /\ call'[c] = [call[c] EXCEPT !.st = s]
    BY <1>1
  <1> QED
    BY <1>1, <1>2

LEMMA TargetIsSet ==
  ASSUME ComputerInv, NEW c \in Call, NEW s, NEW t, call' = [call EXCEPT ![c].target = t, ![c].st = s]
  PROVE  /\ DOMAIN call' = Call /\ \A d \in Call : d # c => call'[d] = call[d]
         /\ call'[c] = [st |-> s, target |-> t, verdict |-> call[c].verdict, n |-> call[c].n]
  <1>1. DOMAIN call = Call
        /\ call[c] = [st |-> call[c].st, target |-> call[c].target, verdict |-> call[c].verdict, n |-> call[c].n]
    BY DEF ComputerInv, IsMade
  <1>2. DOMAIN call' = Call /\ (\A d \in Call : d # c => call'[d] = call[d])
        /\ call'[c] = [call[c] EXCEPT !.target = t, !.st = s]
    BY <1>1
  <1> QED
    BY <1>1, <1>2

LEMMA VerdictIsSet ==
  ASSUME ComputerInv, NEW c \in Call, NEW s, NEW v, call' = [call EXCEPT ![c].st = s, ![c].verdict = v]
  PROVE  /\ DOMAIN call' = Call /\ \A d \in Call : d # c => call'[d] = call[d]
         /\ call'[c] = [st |-> s, target |-> call[c].target, verdict |-> v, n |-> call[c].n]
  <1>1. DOMAIN call = Call
        /\ call[c] = [st |-> call[c].st, target |-> call[c].target, verdict |-> call[c].verdict, n |-> call[c].n]
    BY DEF ComputerInv, IsMade
  <1>2. DOMAIN call' = Call /\ (\A d \in Call : d # c => call'[d] = call[d])
        /\ call'[c] = [call[c] EXCEPT !.st = s, !.verdict = v]
    BY <1>1
  <1> QED
    BY <1>1, <1>2

\* Call c moves on, alone.
LEMMA CallMoves ==
  ASSUME ComputerInv, made' = made, offered \subseteq offered', NEW c \in Call,
         DOMAIN call' = Call, \A d \in Call : d # c => call'[d] = call[d],
         DOMAIN request' = Call, \A d \in Call : d # c => request'[d] = request[d],
         DOMAIN said' = Call, \A d \in Call : d # c => said'[d] = said[d],
         IsMade(call'[c]), DOMAIN request'[c] = Computer!Attempt, DOMAIN said'[c] = Computer!Attempt,
         LetThrough(c)', Allowed(c)'
  PROVE  ComputerInv'
  <1>1. \A t : Computer!Gated(t)' <=> Computer!Gated(t)
    BY DEF Computer!Gated
  <1>2. ASSUME NEW d \in Call, d # c
        PROVE  /\ IsMade(call'[d]) /\ DOMAIN request'[d] = Computer!Attempt /\ DOMAIN said'[d] = Computer!Attempt
               /\ LetThrough(d)' /\ Allowed(d)'
    <2>1. /\ IsMade(call[d]) /\ DOMAIN request[d] = Computer!Attempt /\ DOMAIN said[d] = Computer!Attempt
          /\ LetThrough(d) /\ Allowed(d)
          /\ call'[d] = call[d] /\ request'[d] = request[d] /\ said'[d] = said[d]
      BY <1>2 DEF ComputerInv
    <2>2. LetThrough(d)'
      BY <1>1, <2>1 DEF LetThrough, Offered
    <2>3. Allowed(d)'
      BY <1>1, <2>1 DEF Allowed, Computer!Began
    <2> QED
      BY <2>1, <2>2, <2>3
  <1> QED
    BY <1>2 DEF ComputerInv

\* Only the state of call c and its verdict change, to states in which nothing
\* is asked of it that did not hold before.
LEMMA StateMoves ==
  ASSUME ComputerInv, UNCHANGED <<made, request, said>>, offered \subseteq offered', NEW c \in Call,
         DOMAIN call' = Call, \A d \in Call : d # c => call'[d] = call[d],
         IsMade(call'[c]), call'[c].target = call[c].target,
         call'[c].st \in {"asking", "writing", "trying", "waiting", "done"},
         Computer!Gated(call[c].target) =>
           /\ call'[c].st \in {"asking", "writing"} => call[c].st \in {"idle", "asking", "writing"}
           /\ call'[c].st \in {"trying", "waiting"} => Offered(c)'
  PROVE  ComputerInv'
  <1>1. \A t : Computer!Gated(t)' <=> Computer!Gated(t)
    BY DEF Computer!Gated
  <1>2. LetThrough(c) /\ Allowed(c) /\ DOMAIN request = Call /\ DOMAIN said = Call
        /\ DOMAIN request[c] = Computer!Attempt /\ DOMAIN said[c] = Computer!Attempt
    BY DEF ComputerInv
  <1>3. LetThrough(c)'
    BY <1>1, <1>2 DEF LetThrough, Offered
  <1>4. Allowed(c)'
    BY <1>1, <1>2 DEF Allowed, Computer!Began
  <1> QED
    BY <1>2, <1>3, <1>4, CallMoves

\* A request of call c goes on; what the app's gate was told may be new.
LEMMA RequestMoves ==
  ASSUME ComputerInv, UNCHANGED <<made, call, offered>>, NEW c \in Call, NEW n \in Computer!Attempt, NEW to,
         request[c][n] # "none", request' = [request EXCEPT ![c][n] = to],
         DOMAIN said' = Call, \A d \in Call : d # c => said'[d] = said[d],
         DOMAIN said'[c] = Computer!Attempt, \A m \in Computer!Attempt : m # n => said'[c][m] = said[c][m],
         Computer!Gated(call[c].target) /\ call[c].target = "app" /\ to \in {"running", "ok"} => said'[c][n] = "yes"
  PROVE  ComputerInv'
  <1>1. \A t : Computer!Gated(t)' <=> Computer!Gated(t)
    BY DEF Computer!Gated
  <1>2. LetThrough(c) /\ Allowed(c) /\ DOMAIN request = Call /\ DOMAIN call = Call
        /\ DOMAIN request[c] = Computer!Attempt /\ IsMade(call[c])
    BY DEF ComputerInv
  <1>3. /\ DOMAIN request' = Call /\ \A d \in Call : d # c => request'[d] = request[d]
        /\ DOMAIN request'[c] = Computer!Attempt /\ request'[c][n] = to
        /\ \A m \in Computer!Attempt : m # n => request'[c][m] = request[c][m]
    BY <1>2
  <1>4. LetThrough(c)'
    BY <1>1, <1>2, <1>3 DEF LetThrough, Offered
  <1>5. Allowed(c)'
    BY <1>1, <1>2, <1>3 DEF Allowed, Computer!Began
  <1> QED
    BY <1>2, <1>3, <1>4, <1>5, CallMoves

LEMMA ComputerStep ==
  ASSUME ComputerInv, Computer!Next
  PROVE  ComputerInv'
  <1> USE DEF Computer!machine
  <1>1. ASSUME UNCHANGED <<made, call, request, said, offered>> PROVE ComputerInv'
    <2>1. \A t : Computer!Gated(t)' <=> Computer!Gated(t)
      BY <1>1 DEF Computer!Gated
    <2> QED
      BY <1>1, <2>1 DEF ComputerInv, LetThrough, Allowed, Offered, Computer!Began
  <1>2. ASSUME \/ Computer!BuildImage \/ Computer!StartContainer \/ Computer!Inspect \/ Computer!Attach
               \/ Computer!Connect \/ Computer!ResolveGate \/ Computer!CheckHealth \/ Computer!Deploy
               \/ Computer!ConnectMcp \/ Computer!Stop \/ Computer!Exits \/ Computer!NoticeExit
               \/ Computer!GovernorDies
        PROVE  ComputerInv'
    <2>1. UNCHANGED <<made, call, request, said, offered>>
      BY <1>2 DEF Computer!BuildImage, Computer!StartContainer, Computer!Inspect, Computer!Attach, Computer!Connect,
                  Computer!ResolveGate, Computer!CheckHealth, Computer!Deploy, Computer!ConnectMcp, Computer!Stop,
                  Computer!Exits, Computer!NoticeExit, Computer!GovernorDies, Computer!Rest
    <2> QED
      BY <1>1, <2>1
  <1>3. ASSUME NEW c \in Call PROVE /\ IsMade(call[c]) /\ LetThrough(c) /\ Allowed(c)
                                    /\ DOMAIN call = Call /\ DOMAIN request = Call /\ DOMAIN said = Call
                                    /\ DOMAIN request[c] = Computer!Attempt /\ DOMAIN said[c] = Computer!Attempt
    BY DEF ComputerInv
  <1>4. ASSUME NEW c \in Call, NEW t \in {"app", "exempt", "external"}, Computer!Invoke(c, t) PROVE ComputerInv'
    <2> DEFINE to == IF Computer!Gated(t) THEN "asking" ELSE "trying"
    <2>0. /\ UNCHANGED <<made, request, said, offered>> /\ call[c].st = "idle"
          /\ call' = [call EXCEPT ![c].target = t, ![c].st = to]
      BY <1>4 DEF Computer!Invoke
    <2>1. /\ UNCHANGED <<made, request, said, offered>> /\ call[c].st = "idle"
          /\ DOMAIN call' = Call /\ \A d \in Call : d # c => call'[d] = call[d]
          /\ IsMade(call'[c]) /\ call'[c].target = t
          /\ call'[c].st = IF Computer!Gated(t) THEN "asking" ELSE "trying"
      <3> HIDE DEF to
      <3>1. DOMAIN call' = Call /\ (\A d \in Call : d # c => call'[d] = call[d])
            /\ call'[c] = [st |-> to, target |-> t, verdict |-> call[c].verdict, n |-> call[c].n]
        BY <2>0, TargetIsSet
      <3> QED
        BY <2>0, <3>1 DEF IsMade, to
    <2>2. Computer!Gated(t)' <=> Computer!Gated(t)
      BY <2>1 DEF Computer!Gated
    <2>3. \A n \in Computer!Attempt : request[c][n] = "none"
      BY <1>3, <2>1 DEF LetThrough
    <2>4. LetThrough(c)' /\ Allowed(c)'
      BY <2>1, <2>2, <2>3 DEF LetThrough, Allowed, Computer!Began
    <2> QED
      BY <1>3, <2>1, <2>4, CallMoves
  <1>5. ASSUME NEW c \in Call,
               \/ \E v \in {"allowed", "denied", "unavailable"} : Computer!Verdict(c, v)
               \/ Computer!Misread(c)
        PROVE  ComputerInv'
    <2>1. /\ UNCHANGED <<made, request, said, offered>> /\ call[c].st = "asking"
          /\ DOMAIN call' = Call /\ \A d \in Call : d # c => call'[d] = call[d]
          /\ IsMade(call'[c]) /\ call'[c].target = call[c].target
          /\ call'[c].st \in {"writing", "done"}
      <3>1. CASE Computer!Misread(c)
        <4>1. call' = [call EXCEPT ![c].st = "done"] /\ UNCHANGED <<made, request, said, offered>>
              /\ call[c].st = "asking"
          BY <3>1 DEF Computer!Misread, Computer!Set
        <4>2. DOMAIN call' = Call /\ (\A d \in Call : d # c => call'[d] = call[d])
              /\ call'[c] = [st |-> "done", target |-> call[c].target, verdict |-> call[c].verdict, n |-> call[c].n]
          BY <4>1, StateIsSet
        <4> QED
          BY <4>1, <4>2 DEF IsMade
      <3>2. CASE ~Computer!Misread(c)
        <4>1. PICK v : /\ call' = [call EXCEPT ![c].st = "writing", ![c].verdict = v]
                       /\ UNCHANGED <<made, request, said, offered>> /\ call[c].st = "asking"
          BY <1>5, <3>2 DEF Computer!Verdict
        <4>2. DOMAIN call' = Call /\ (\A d \in Call : d # c => call'[d] = call[d])
              /\ call'[c] = [st |-> "writing", target |-> call[c].target, verdict |-> v, n |-> call[c].n]
          BY <4>1, VerdictIsSet
        <4> QED
          BY <4>1, <4>2 DEF IsMade
      <3> QED
        BY <3>1, <3>2
    <2> QED
      BY <2>1, StateMoves
  <1>6. ASSUME NEW c \in Call, Computer!Written(c) PROVE ComputerInv'
    <2>1. /\ UNCHANGED <<made, request, said>> /\ call[c].st = "writing"
          /\ offered' = offered \cup {<<c, call[c].verdict>>}
          /\ DOMAIN call' = Call /\ \A d \in Call : d # c => call'[d] = call[d]
          /\ IsMade(call'[c]) /\ call'[c].target = call[c].target
          /\ call'[c].st = IF Computer!Passes(call[c].verdict) THEN "trying" ELSE "done"
      <3> DEFINE to == IF Computer!Passes(call[c].verdict) THEN "trying" ELSE "done"
      <3>1. /\ UNCHANGED <<made, request, said>> /\ call[c].st = "writing"
            /\ offered' = offered \cup {<<c, call[c].verdict>>} /\ call' = [call EXCEPT ![c].st = to]
        BY <1>6 DEF Computer!Written, Computer!Set
      <3> HIDE DEF to
      <3>2. DOMAIN call' = Call /\ (\A d \in Call : d # c => call'[d] = call[d])
            /\ call'[c] = [st |-> to, target |-> call[c].target, verdict |-> call[c].verdict, n |-> call[c].n]
        BY <3>1, StateIsSet
      <3> QED
        BY <3>1, <3>2 DEF IsMade, to
    <2>2. Computer!Passes(call[c].verdict) => Offered(c)'
      BY <2>1 DEF Computer!Passes, Offered
    <2> QED
      BY <2>1, <2>2, StateMoves
  <1>7. ASSUME NEW c \in Call, Computer!Try(c) PROVE ComputerInv'
    <2>1. /\ UNCHANGED <<made, said, offered>> /\ call[c].st = "trying"
          /\ DOMAIN call' = Call /\ \A d \in Call : d # c => call'[d] = call[d]
          /\ IsMade(call'[c]) /\ call'[c].target = call[c].target /\ call'[c].st \in {"waiting", "done"}
      <3>1. UNCHANGED <<made, said, offered>> /\ call[c].st = "trying"
        BY <1>7 DEF Computer!Try
      <3>2. \/ call' = [call EXCEPT ![c].st = "done"]
            \/ call' = [call EXCEPT ![c].st = "waiting", ![c].n = call[c].n + 1]
        BY <1>3, <1>7 DEF Computer!Try, Computer!Set
      <3>3. CASE call' = [call EXCEPT ![c].st = "done"]
        <4>1. DOMAIN call' = Call /\ (\A d \in Call : d # c => call'[d] = call[d])
              /\ call'[c] = [st |-> "done", target |-> call[c].target, verdict |-> call[c].verdict, n |-> call[c].n]
          BY <3>3, StateIsSet
        <4> QED
          BY <3>1, <4>1 DEF IsMade
      <3>4. CASE call' = [call EXCEPT ![c].st = "waiting", ![c].n = call[c].n + 1]
        <4>1. PICK k : call' = [call EXCEPT ![c].st = "waiting", ![c].n = k]
          BY <3>4
        <4>2. DOMAIN call' = Call /\ (\A d \in Call : d # c => call'[d] = call[d])
              /\ call'[c] = [st |-> "waiting", target |-> call[c].target, verdict |-> call[c].verdict, n |-> k]
          <5>1. call[c] = [st |-> call[c].st, target |-> call[c].target, verdict |-> call[c].verdict, n |-> call[c].n]
                /\ DOMAIN call = Call
            BY <1>3 DEF IsMade
          <5>2. DOMAIN call' = Call /\ (\A d \in Call : d # c => call'[d] = call[d])
                /\ call'[c] = [call[c] EXCEPT !.st = "waiting", !.n = k]
            BY <4>1, <5>1
          <5> QED
            BY <5>1, <5>2
        <4> QED
          BY <3>1, <4>2 DEF IsMade
      <3> QED
        BY <3>2, <3>3, <3>4
    <2>2. /\ DOMAIN request' = Call /\ \A d \in Call : d # c => request'[d] = request[d]
          /\ DOMAIN request'[c] = Computer!Attempt
          /\ \A n \in Computer!Attempt : \/ request'[c][n] = request[c][n]
                                         \/ request'[c][n] = "sent"
                                         \/ request'[c][n] = "running" /\ call[c].target = "external"
      BY <1>3, <1>7 DEF Computer!Try
    <2>3. \A t : Computer!Gated(t)' <=> Computer!Gated(t)
      BY <2>1 DEF Computer!Gated
    <2>4. LetThrough(c)'
      BY <1>3, <2>1, <2>2, <2>3 DEF LetThrough, Offered
    <2>5. Allowed(c)'
      BY <1>3, <2>1, <2>2, <2>3 DEF Allowed, Computer!Began
    <2> QED
      BY <1>3, <2>1, <2>2, <2>4, <2>5, CallMoves
  <1>8. ASSUME NEW c \in Call, Computer!Answered(c) \/ Computer!TimesOut(c) \/ Computer!Breaks(c)
        PROVE  ComputerInv'
    <2>1. /\ UNCHANGED <<made, request, said, offered>> /\ call[c].st = "waiting"
          /\ DOMAIN call' = Call /\ \A d \in Call : d # c => call'[d] = call[d]
          /\ IsMade(call'[c]) /\ call'[c].target = call[c].target /\ call'[c].st \in {"trying", "done"}
      <3>1. UNCHANGED <<made, request, said, offered>> /\ call[c].st = "waiting"
        BY <1>8 DEF Computer!Answered, Computer!TimesOut, Computer!Breaks
      <3>2. PICK to \in {"trying", "done"} : call' = [call EXCEPT ![c].st = to]
        BY <1>8 DEF Computer!Answered, Computer!TimesOut, Computer!Breaks, Computer!TryAgain, Computer!Set
      <3>3. DOMAIN call' = Call /\ (\A d \in Call : d # c => call'[d] = call[d])
            /\ call'[c] = [st |-> to, target |-> call[c].target, verdict |-> call[c].verdict, n |-> call[c].n]
        BY <3>2, StateIsSet
      <3> QED
        BY <3>1, <3>3 DEF IsMade
    <2>2. Computer!Gated(call[c].target) => Offered(c)'
      BY <1>3, <2>1 DEF LetThrough, Offered
    <2> QED
      BY <2>1, <2>2, StateMoves
  <1>9. ASSUME NEW c \in Call, NEW n \in Computer!Attempt, Computer!Arrives(c, n) PROVE ComputerInv'
    <2>1. /\ UNCHANGED <<made, call, said, offered>> /\ request[c][n] = "sent"
          /\ request' = [request EXCEPT ![c][n] = IF Computer!Gated(call[c].target) THEN "judging" ELSE "running"]
      BY <1>9 DEF Computer!Arrives, Computer!Move
    <2> QED
      BY <1>3, <2>1, RequestMoves
  <1>10. ASSUME NEW c \in Call, NEW n \in Computer!Attempt, Computer!Judged(c, n) PROVE ComputerInv'
    <2>1. PICK verdict \in {"yes", "no", "nothing"} :
            /\ UNCHANGED <<made, call, offered>> /\ request[c][n] = "judging"
            /\ said' = [said EXCEPT ![c][n] = verdict]
            /\ request' = [request EXCEPT ![c][n] = IF verdict = "yes" THEN "running" ELSE "error"]
      BY <1>10 DEF Computer!Judged, Computer!Move
    <2>2. /\ DOMAIN said' = Call /\ \A d \in Call : d # c => said'[d] = said[d]
          /\ DOMAIN said'[c] = Computer!Attempt /\ said'[c][n] = verdict
          /\ \A m \in Computer!Attempt : m # n => said'[c][m] = said[c][m]
      BY <1>3, <2>1
    <2> DEFINE to == IF verdict = "yes" THEN "running" ELSE "error"
    <2>3. request[c][n] # "none" /\ request' = [request EXCEPT ![c][n] = to]
          /\ (to \in {"running", "ok"} => said'[c][n] = "yes")
      BY <2>1, <2>2
    <2>4. UNCHANGED <<made, call, offered>>
      BY <2>1
    <2> HIDE DEF to
    <2> QED
      BY <2>2, <2>3, <2>4, RequestMoves
  <1>11. ASSUME NEW c \in Call, NEW n \in Computer!Attempt, Computer!Runs(c, n) PROVE ComputerInv'
    <2>1. PICK end \in {"ok", "error"} :
            /\ UNCHANGED <<made, call, said, offered>> /\ request[c][n] = "running"
            /\ request' = [request EXCEPT ![c][n] = end]
      BY <1>11 DEF Computer!Runs, Computer!Move
    <2>2. Computer!Gated(call[c].target) /\ call[c].target = "app" => said[c][n] = "yes"
      BY <1>3, <2>1 DEF Allowed, Computer!Began
    <2> QED
      BY <1>3, <2>1, <2>2, RequestMoves
  <1> QED
    BY <1>2, <1>4, <1>5, <1>6, <1>7, <1>8, <1>9, <1>10, <1>11 DEF Computer!Next

(* An export of a governed app runs only for a request its governor said    *)
(* yes to, and what the first gate let through is in the audit trail before *)
(* anything runs, however often a call is issued again and whoever dies     *)
(* (governance.ts, governance-gate.ts, computer.ts).                        *)
THEOREM NothingIsUnjudged == Computer!Spec => []Computer!NothingUnjudged
  <1>1. Computer!Init => ComputerInv
    <2> SUFFICES ASSUME Computer!Init PROVE ComputerInv
      OBVIOUS
    <2>1. IsMade(Computer!NotMade) /\ Computer!NotMade.st = "idle"
      BY DEF IsMade, Computer!NotMade
    <2> QED
      BY <2>1 DEF Computer!Init, ComputerInv, LetThrough, Allowed, Computer!Began
  <1>2. ComputerInv /\ [Computer!Next]_Computer!vars => ComputerInv'
    <2>1. ASSUME ComputerInv, UNCHANGED Computer!vars PROVE ComputerInv'
      <3>1. \A t : Computer!Gated(t)' <=> Computer!Gated(t)
        BY <2>1 DEF Computer!Gated, Computer!vars
      <3> QED
        BY <2>1, <3>1 DEF ComputerInv, LetThrough, Allowed, Offered, Computer!Began, Computer!vars
    <2> QED
      BY <2>1, ComputerStep
  <1>3. ComputerInv => Computer!NothingUnjudged
    <2> SUFFICES ASSUME ComputerInv, NEW c \in Call, NEW n \in Computer!Attempt,
                        Computer!Began(c, n), Computer!Gated(call[c].target)
                 PROVE  /\ call[c].target = "app" => said[c][n] = "yes"
                        /\ \E v \in {"allowed", "unavailable"} : <<c, v>> \in offered
      BY DEF Computer!NothingUnjudged
    <2>1. LetThrough(c) /\ Allowed(c)
      BY DEF ComputerInv
    <2> QED
      BY <2>1 DEF LetThrough, Allowed, Offered, Computer!Began
  <1> QED
    BY <1>1, <1>2, <1>3, PTL DEF Computer!Spec

-----------------------------------------------------------------------------
(* The chains of agents.  Between two steps the state has gone through as   *)
(* many steps as the loop has counted, and so has the checkpoint's.         *)

\* What the crew's checkpoint says.
Counted(k) ==
  /\ k = [status |-> k.status, completedSteps |-> k.completedSteps, state |-> k.state]
  /\ k.completedSteps \in 0 .. crew.steps /\ k.state = Upto(k.completedSteps)
  /\ k.status = "done" => \/ crew.kind # "loopUntil" /\ k.completedSteps = crew.steps
                          \/ crew.kind = "loopUntil" /\ k.completedSteps > 0

StepCounted ==
  /\ crewAt = "step" => step \in 0 .. crew.steps - 1 /\ current = Upto(step)
  /\ crewAt = "saving" => /\ step \in 0 .. crew.steps - 1 /\ current = Upto(step + 1)
                          /\ over \in BOOLEAN /\ (over => crew.kind = "loopUntil")
  /\ crewAt = "after" => current = Upto(crew.steps)
  /\ crewAt = "returned" => Crew!EveryStepOnce
  /\ crewAt \notin {"route", "fan"}

CrewInv ==
  /\ crew \in Shapes
  /\ Crew!IsChain => Counted(stored) /\ StepCounted

\* A loop runs at least once.
CrewAssumption == \A s \in Shapes : s.steps \in Nat /\ (s.kind = "loopUntil" => s.steps > 0)

LEMMA CrewUpto ==
  ASSUME NEW n \in Nat
  PROVE  Crew!Upto(n) = Upto(n)
  BY DEF Crew!Upto, Upto

\* What a chain returns.
LEMMA ChainReturns ==
  ASSUME NEW n \in Nat, current = Upto(n), crew.steps \in Nat,
         \/ crew.kind # "loopUntil" /\ n = crew.steps
         \/ crew.kind = "loopUntil" /\ n \in 1 .. crew.steps
  PROVE  Crew!EveryStepOnce
  <1>1. CASE crew.kind # "loopUntil" /\ n = crew.steps
    <2>1. current = Crew!Upto(crew.steps)
      BY <1>1, CrewUpto
    <2> QED
      BY <1>1, <2>1 DEF Crew!EveryStepOnce
  <1>2. CASE crew.kind = "loopUntil" /\ n \in 1 .. crew.steps
    <2>1. current = Crew!Upto(n)
      BY CrewUpto
    <2> QED
      BY <1>2, <2>1 DEF Crew!EveryStepOnce
  <1> QED
    BY <1>1, <1>2

LEMMA CrewStep ==
  ASSUME CrewAssumption, CrewInv, Crew!Next
  PROVE  CrewInv'
  <1>1. crew' = crew /\ crew.steps \in Nat /\ (crew.kind = "loopUntil" => crew.steps > 0) /\ crew \in Shapes
    BY DEF CrewInv, CrewAssumption, Crew!Next, Crew!Run, Crew!StepEnds, Crew!SaveEnds, Crew!After, Crew!Parses,
           Crew!Repairs, Crew!Fails, Crew!Crash, Crew!Route, Crew!Routed, Crew!FanOut, Crew!Merge, Crew!Rejects,
           Crew!Finished, Crew!EmitReads, Crew!EmitWrites, Crew!vars
  <1> SUFFICES ASSUME Crew!IsChain
               PROVE  Counted(stored)' /\ StepCounted'
    BY <1>1 DEF CrewInv, Crew!IsChain
  <1>2. Counted(stored) /\ StepCounted
    BY DEF CrewInv
  <1>3. stored' = stored => Counted(stored)'
    BY <1>1, <1>2 DEF Counted
  <1>4. CASE Crew!Run
    <2> DEFINE before == IF crew.saved THEN stored ELSE Crew!Missing
    <2>1. Counted(before)
      <3>1. Counted(Crew!Missing)
        BY <1>1, UptoIsSeq DEF Counted, Crew!Missing
      <3> QED
        BY <1>2, <3>1
    <2>2. /\ stored' = stored /\ step' = before.completedSteps /\ current' = before.state /\ over' = FALSE
          /\ \/ crewAt' = "failed"
             \/ before.status = "done" /\ crewAt' = "returned"
             \/ before.completedSteps < crew.steps /\ crewAt' = "step"
             \/ ~(before.completedSteps < crew.steps) /\ crewAt' = "after"
      BY <1>4 DEF Crew!Run
    <2> HIDE DEF before
    <2>3. CASE before.status = "done" /\ crewAt' = "returned"
      <3>1. Crew!EveryStepOnce'
        <4>1. /\ before.completedSteps \in Nat /\ current' = Upto(before.completedSteps)
              /\ \/ crew.kind # "loopUntil" /\ before.completedSteps = crew.steps
                 \/ crew.kind = "loopUntil" /\ before.completedSteps \in 1 .. crew.steps
          BY <1>1, <2>1, <2>2, <2>3 DEF Counted
        <4>2. CASE crew.kind # "loopUntil" /\ before.completedSteps = crew.steps
          BY <1>1, <4>1, <4>2, CrewUpto DEF Crew!EveryStepOnce
        <4>3. CASE crew.kind = "loopUntil" /\ before.completedSteps \in 1 .. crew.steps
          <5>1. current' = Crew!Upto(before.completedSteps)
            BY <4>1, CrewUpto
          <5> QED
            BY <1>1, <4>3, <5>1 DEF Crew!EveryStepOnce
        <4> QED
          BY <4>1, <4>2, <4>3
      <3> QED
        BY <1>3, <2>2, <2>3, <3>1 DEF StepCounted
    <2>4. CASE crewAt' # "returned"
      BY <1>1, <1>3, <2>1, <2>2, <2>4 DEF StepCounted, Counted
    <2> QED
      BY <2>2, <2>3, <2>4
  <1>5. CASE Crew!StepEnds
    <2>1. /\ crewAt = "step" /\ current' = Append(current, step + 1) /\ step' = step /\ crewAt' = "saving" /\ stored' = stored
          /\ over' \in BOOLEAN /\ (over' => crew.kind = "loopUntil")
      BY <1>5 DEF Crew!StepEnds
    <2>2. step \in Nat /\ step \in 0 .. crew.steps - 1 /\ current = Upto(step)
      BY <1>1, <1>2, <2>1 DEF StepCounted
    <2>3. current' = Upto(step + 1)
      BY <2>1, <2>2, UptoIsSeq
    <2> QED
      BY <1>1, <1>3, <2>1, <2>2, <2>3 DEF StepCounted
  <1>6. ASSUME crewAt = "saving" PROVE Counted(Crew!Checkpoint) /\ step + 1 \in 1 .. crew.steps
    <2>1. /\ step \in 0 .. crew.steps - 1 /\ current = Upto(step + 1)
          /\ over \in BOOLEAN /\ (over => crew.kind = "loopUntil")
      BY <1>2, <1>6 DEF StepCounted
    <2>2. step + 1 \in 1 .. crew.steps
      BY <1>1, <2>1
    <2> QED
      BY <1>1, <2>1, <2>2 DEF Counted, Crew!Checkpoint, Crew!Last
  <1>7. CASE Crew!SaveEnds
    <2>1. /\ crewAt = "saving" /\ step' = step + 1 /\ UNCHANGED <<current, over>>
          /\ stored' = (IF crew.saved THEN Crew!Checkpoint ELSE stored)
          /\ crewAt' = (IF over THEN "returned" ELSE IF Crew!Last THEN "after" ELSE "step")
      BY <1>7 DEF Crew!SaveEnds
    <2>2. /\ step \in 0 .. crew.steps - 1 /\ current = Upto(step + 1)
          /\ over \in BOOLEAN /\ (over => crew.kind = "loopUntil")
      BY <1>2, <2>1 DEF StepCounted
    <2>3. Counted(stored)'
      <3>1. Counted(stored')
        BY <1>2, <1>6, <2>1
      <3> QED
        BY <1>1, <3>1 DEF Counted
    <2>4. CASE over
      <3>1. current' = Crew!Upto(step + 1) /\ step + 1 \in 1 .. crew.steps
        BY <1>1, <1>6, <2>1, <2>2, CrewUpto
      <3>2. Crew!EveryStepOnce'
        BY <1>1, <2>2, <2>4, <3>1 DEF Crew!EveryStepOnce
      <3> QED
        BY <2>1, <2>3, <2>4, <3>2 DEF StepCounted
    <2>5. CASE ~over
      BY <1>1, <2>1, <2>2, <2>3, <2>5 DEF StepCounted, Crew!Last
    <2> QED
      BY <2>4, <2>5
  <1>8. ASSUME crewAt = "after", current' = current, crewAt' = "returned" PROVE StepCounted'
    <2>1. current' = Crew!Upto(crew.steps)
      BY <1>1, <1>2, <1>8, CrewUpto DEF StepCounted
    <2>2. crew.kind = "loopUntil" => crew.steps \in 1 .. crew.steps
      BY <1>1
    <2>3. Crew!EveryStepOnce'
      BY <1>1, <2>1, <2>2 DEF Crew!EveryStepOnce
    <2> QED
      BY <1>8, <2>3 DEF StepCounted
  <1>9. CASE Crew!After
    BY <1>3, <1>8, <1>9 DEF Crew!After
  <1>10. CASE Crew!Parses
    <2>1. /\ crewAt = "after" /\ crew.kind # "loopUntil" /\ current' = current /\ crewAt' = "returned"
          /\ \/ stored' = stored
             \/ stored' = [status |-> "done", completedSteps |-> crew.steps, state |-> current]
      BY <1>10 DEF Crew!Parses, Crew!Repairing
    <2>2. current = Upto(crew.steps)
      BY <1>2, <2>1 DEF StepCounted
    <2>3. Counted(stored)'
      BY <1>1, <1>3, <2>1, <2>2 DEF Counted
    <2> QED
      BY <1>8, <2>1, <2>3
  <1>11. CASE Crew!Repairs \/ Crew!Finished
    <2>1. /\ UNCHANGED <<step, current, over, stored>> /\ (crewAt' = crewAt \/ crewAt' = "failed")
      BY <1>11 DEF Crew!Repairs, Crew!Finished, Crew!vars
    <2> QED
      BY <1>1, <1>2, <1>3, <2>1 DEF StepCounted, Crew!EveryStepOnce
  <1>12. CASE Crew!Fails \/ Crew!Crash
    <2>1. /\ crewAt' \in {"failed", "idle"}
          /\ \/ stored' = stored
             \/ stored' = Crew!Checkpoint /\ crewAt = "saving"
             \/ stored' = Crew!Torn
      BY <1>12 DEF Crew!Fails, Crew!Crash
    <2>2. Counted(Crew!Torn)
      BY <1>1, UptoIsSeq DEF Counted, Crew!Missing, Crew!Torn
    <2>3. Counted(stored)'
      <3>1. Counted(stored')
        BY <1>2, <1>6, <2>1, <2>2
      <3> QED
        BY <1>1, <3>1 DEF Counted
    <2> QED
      BY <2>1, <2>3 DEF StepCounted
  <1>13. ~Crew!Route /\ ~Crew!Routed /\ ~Crew!FanOut /\ ~Crew!Merge /\ ~Crew!Rejects
         /\ \A a \in DOMAIN NameOf : ~Crew!EmitReads(a) /\ ~Crew!EmitWrites(a)
    BY <1>2 DEF StepCounted, Crew!IsChain, Crew!Route, Crew!Routed, Crew!FanOut, Crew!Merge, Crew!Rejects,
                Crew!EmitReads, Crew!EmitWrites
  <1> QED
    BY <1>4, <1>5, <1>7, <1>9, <1>10, <1>11, <1>12, <1>13 DEF Crew!Next

(* However often the process dies and run() is called again, the answer of a *)
(* chain has gone through its steps once each, in order, and a loop returns  *)
(* what as many runs as it counted have made of the input (crew.ts).         *)
THEOREM ChainsTakeEachStepOnce ==
  ASSUME CrewAssumption
  PROVE  Crew!Spec => []Crew!EveryStepOnce
  <1>1. Crew!Init => CrewInv
    <2> SUFFICES ASSUME Crew!Init PROVE CrewInv
      OBVIOUS
    <2>1. crew \in Shapes /\ crew.steps \in Nat
      BY DEF Crew!Init, CrewAssumption
    <2>2. stored = Crew!Missing
      BY DEF Crew!Init
    <2>3. Counted(Crew!Missing)
      BY <2>1, UptoIsSeq DEF Counted, Crew!Missing
    <2> QED
      BY <2>1, <2>2, <2>3 DEF Crew!Init, CrewInv, StepCounted
  <1>2. CrewInv /\ [Crew!Next]_Crew!vars => CrewInv'
    <2>1. ASSUME CrewInv, UNCHANGED Crew!vars PROVE CrewInv'
      BY <2>1 DEF CrewInv, StepCounted, Counted, Crew!IsChain, Crew!EveryStepOnce, Crew!vars
    <2> QED
      BY <2>1, CrewStep
  <1>3. CrewInv => Crew!EveryStepOnce
    BY DEF CrewInv, StepCounted, Crew!EveryStepOnce
  <1> QED
    BY <1>1, <1>2, <1>3, PTL DEF Crew!Spec

-----------------------------------------------------------------------------
(* The fan-out.  A trace is one agent's alone, so what the agent has read of *)
(* it is still what is there when it writes it back, and the trace ends in  *)
(* the turns the agent has had in this run.                                 *)

Key(a) == <<a, NameOf[a]>>

\* An event of a trace: of which run, whose, and which turn.
Entry == Nat \X (DOMAIN NameOf) \X Nat

\* The trace ends in the first n turns of agent a in the run `life`.
EndsIn(t, a, n, life) ==
  /\ n \in 0 .. Len(t)
  /\ \A i \in 1 .. n : t[Len(t) - n + i] = <<life, a, i>>
  /\ \A i \in 1 .. Len(t) - n : t[i][1] # life

\* A trace whose events are of that run or of an earlier one.
IsTrace(t, life) == t \in Seq(Entry) /\ \A i \in 1 .. Len(t) : t[i][1] <= life

IsMember(f) == f = [pc |-> f.pc, turn |-> f.turn, read |-> f.read]

\* An agent at work: its turns are traced, and what it has read is the trace.
AtWork(f, t, a, life) ==
  /\ IsMember(f) /\ f.turn \in 0 .. Turns
  /\ EndsIn(t, a, f.turn, life)
  /\ f.pc = "emit" => f.read = t /\ f.turn < Turns

FanInv ==
  /\ called \in Nat /\ crew \in Shapes /\ DOMAIN fan = DOMAIN NameOf /\ DOMAIN trace = Crew!Keys
  /\ \A a \in DOMAIN NameOf : IsTrace(trace[Key(a)], called)
  /\ crewAt = "fan" => crew.kind = "parallel"
  /\ crew.kind = "parallel" =>
       /\ crewAt \in {"idle", "fan", "returned", "failed"}
       /\ crewAt = "fan" => /\ \A a \in Crew!Members : AtWork(fan[a], trace[Key(a)], a, called)
                            /\ \A a \in DOMAIN NameOf \ Crew!Members : fan[a].pc = "off"
       /\ crewAt = "returned" => \A a \in Crew!Members : EndsIn(trace[Key(a)], a, Turns, called)

\* A fan-out is of agents that have a name.
FanAssumption ==
  /\ Turns \in Nat
  /\ \A s \in Shapes : s.kind = "parallel" => s.steps \in Nat /\ 1 .. s.steps \subseteq DOMAIN NameOf

\* The steps that leave the fan-out and its traces alone.
LEMMA FanAside ==
  ASSUME FanInv, UNCHANGED <<crew, called, fan, trace>>, crewAt' \in {"idle", "failed"} \/ crew.kind # "parallel",
         crewAt' # "fan"
  PROVE  FanInv'
  BY DEF FanInv, IsTrace, Key, Crew!FanOutRunIdFor, Crew!Members, Entry, Crew!Keys

\* run() is called: what was traced before it is of an earlier run.
LEMMA FanBegins ==
  ASSUME FanAssumption, FanInv, Crew!FanOut
  PROVE  FanInv'
  <1>1. /\ crew.kind = "parallel" /\ called' = called + 1 /\ crewAt' = "fan" /\ UNCHANGED <<crew, trace>>
        /\ fan' = [a \in DOMAIN fan |-> IF a \in Crew!Members THEN [Crew!Quiet EXCEPT !.pc = "turn"] ELSE Crew!Quiet]
    BY DEF Crew!FanOut
  <1>2. called \in Nat /\ crew \in Shapes /\ DOMAIN fan = DOMAIN NameOf /\ DOMAIN trace = Crew!Keys
    BY DEF FanInv
  <1>3. Crew!Members \subseteq DOMAIN NameOf
    BY <1>1, <1>2 DEF FanAssumption, Crew!Members
  <1>4. ASSUME NEW a \in DOMAIN NameOf PROVE IsTrace(trace'[Key(a)], called') /\ EndsIn(trace'[Key(a)], a, 0, called')
    <2> DEFINE t == trace[Key(a)]
    <2>1. t \in Seq(Entry) /\ \A i \in 1 .. Len(t) : t[i][1] <= called
      BY <1>4 DEF FanInv, IsTrace
    <2>2. Key(a)' = Key(a) /\ trace'[Key(a)] = t
      BY <1>1 DEF Key, Crew!FanOutRunIdFor
    <2>3. \A i \in 1 .. Len(t) : t[i][1] \in Nat
      BY <2>1 DEF Entry
    <2> HIDE DEF t
    <2>4. \A i \in 1 .. Len(t) : t[i][1] <= called + 1 /\ t[i][1] # called + 1
      BY <1>2, <2>1, <2>3
    <2>5. Len(t) \in Nat
      BY <2>1
    <2>6. IsTrace(trace'[Key(a)], called')
      BY <1>1, <2>1, <2>2, <2>4 DEF IsTrace, Entry
    <2>7. EndsIn(trace'[Key(a)], a, 0, called')
      BY <1>1, <2>2, <2>4, <2>5 DEF EndsIn
    <2> QED
      BY <2>6, <2>7
  <1>5. ASSUME NEW a \in Crew!Members PROVE AtWork(fan'[a], trace'[Key(a)], a, called')
    <2>1. a \in DOMAIN fan /\ fan'[a] = [pc |-> "turn", turn |-> 0, read |-> <<>>]
      BY <1>1, <1>2, <1>3 DEF Crew!Quiet
    <2>2. EndsIn(trace'[Key(a)], a, 0, called')
      BY <1>3, <1>4
    <2> QED
      BY <2>1, <2>2 DEF AtWork, IsMember, FanAssumption
  <1>6. \A a \in DOMAIN NameOf \ Crew!Members : fan'[a].pc = "off"
    BY <1>1, <1>2 DEF Crew!Quiet
  <1>7. Crew!Members' = Crew!Members
    BY <1>1 DEF Crew!Members
  <1>8. DOMAIN fan' = DOMAIN NameOf
    BY <1>1, <1>2
  <1>9. called' \in Nat
    BY <1>1, <1>2
  <1> QED
    BY <1>1, <1>2, <1>4, <1>5, <1>6, <1>7, <1>8, <1>9 DEF FanInv, Crew!Keys

\* The tracer reads the agent's trace.
LEMMA FanReads ==
  ASSUME FanAssumption, FanInv, NEW b \in DOMAIN NameOf, Crew!EmitReads(b)
  PROVE  FanInv'
  <1>1. /\ crewAt = "fan" /\ fan[b].pc = "turn" /\ fan[b].turn < Turns
        /\ fan' = [fan EXCEPT ![b].pc = "emit", ![b].read = trace[Key(b)]]
        /\ UNCHANGED <<crew, crewAt, called, trace>>
    BY DEF Crew!EmitReads, Crew!chain, Key, Crew!FanOutRunIdFor
  <1>2. DOMAIN fan' = DOMAIN NameOf /\ DOMAIN fan = DOMAIN NameOf /\ crew.kind = "parallel"
    BY <1>1 DEF FanInv
  <1>4. b \in Crew!Members
    BY <1>1, <1>2 DEF FanInv
  <1>5. \A a \in DOMAIN NameOf \ Crew!Members : fan'[a].pc = "off"
    BY <1>1, <1>2, <1>4 DEF FanInv
  <1>6. \A a \in Crew!Members : AtWork(fan[a], trace[Key(a)], a, called)
    BY <1>1, <1>2 DEF FanInv
  <1>7. IsMember(fan[b])
    BY <1>4, <1>6 DEF AtWork
  <1>8. fan'[b] = [pc |-> "emit", turn |-> fan[b].turn, read |-> trace[Key(b)]]
    BY <1>1, <1>2, <1>7 DEF IsMember
  <1>9. \A a \in Crew!Members : a # b => fan'[a] = fan[a]
    BY <1>1, <1>2 DEF FanAssumption, FanInv, Crew!Members
  <1>10. ASSUME NEW a \in Crew!Members PROVE AtWork(fan'[a], trace'[Key(a)], a, called')
    <2>1. CASE a = b
      <3>1. /\ fan'[b].turn = fan[b].turn /\ fan'[b].pc = "emit" /\ fan'[b].read = trace[Key(b)]
            /\ IsMember(fan'[b])
        BY <1>8 DEF IsMember
      <3>2. AtWork(fan[b], trace[Key(b)], b, called)
        BY <1>4, <1>6
      <3> QED
        BY <1>1, <2>1, <3>1, <3>2 DEF AtWork
    <2>2. CASE a # b
      <3>1. fan'[a] = fan[a] /\ trace' = trace /\ called' = called
        BY <1>1, <1>9, <2>2
      <3> QED
        BY <1>6, <3>1
    <2> QED
      BY <2>1, <2>2
  <1> QED
    BY <1>1, <1>2, <1>5, <1>10 DEF FanInv, Crew!Members, Crew!Keys, Crew!FanOutRunIdFor

\* It writes the trace back with one more turn.
LEMMA TurnTraced ==
  ASSUME FanAssumption, NEW a \in DOMAIN NameOf, NEW t, IsTrace(t, called), called \in Nat, NEW n \in 0 .. Turns, EndsIn(t, a, n, called)
  PROVE  /\ IsTrace(Append(t, <<called, a, n + 1>>), called)
         /\ EndsIn(Append(t, <<called, a, n + 1>>), a, n + 1, called)
  <1> DEFINE e == <<called, a, n + 1>>
             u == Append(t, e)
  <1>1. Turns \in Nat /\ n \in Nat /\ e \in Entry /\ t \in Seq(Entry) /\ e[1] = called
    BY DEF FanAssumption, Entry, IsTrace
  <1> HIDE DEF e
  <1>2. u \in Seq(Entry) /\ Len(u) = Len(t) + 1 /\ u[Len(t) + 1] = e /\ \A i \in 1 .. Len(t) : u[i] = t[i]
    BY <1>1
  <1>3. Len(t) \in Nat /\ n <= Len(t)
    BY <1>1 DEF EndsIn
  <1> HIDE DEF u
  <1>4. IsTrace(u, called)
    <2>1. ASSUME NEW i \in 1 .. Len(u) PROVE u[i][1] <= called
      <3>1. CASE i = Len(t) + 1
        BY <1>1, <1>2, <3>1
      <3>2. CASE i # Len(t) + 1
        BY <1>2, <1>3, <3>2 DEF IsTrace
      <3> QED
        BY <3>1, <3>2
    <2> QED
      BY <1>2, <2>1 DEF IsTrace
  <1>5. ASSUME NEW i \in 1 .. n + 1 PROVE u[Len(u) - (n + 1) + i] = <<called, a, i>>
    <2>1. CASE i = n + 1
      BY <1>1, <1>2, <1>3, <2>1 DEF e
    <2>2. CASE i # n + 1
      <3>1. i \in 1 .. n /\ Len(u) - (n + 1) + i = Len(t) - n + i /\ Len(t) - n + i \in 1 .. Len(t)
        BY <1>1, <1>2, <1>3, <2>2
      <3> QED
        BY <1>2, <3>1 DEF EndsIn
    <2> QED
      BY <2>1, <2>2
  <1>6. ASSUME NEW i \in 1 .. Len(u) - (n + 1) PROVE u[i][1] # called
    <2>1. i \in 1 .. Len(t) - n /\ i \in 1 .. Len(t)
      BY <1>1, <1>2, <1>3
    <2> QED
      BY <1>2, <2>1 DEF EndsIn
  <1>7. n + 1 \in 0 .. Len(u)
    BY <1>1, <1>2, <1>3
  <1> QED
    BY <1>4, <1>5, <1>6, <1>7 DEF EndsIn, u, e

LEMMA FanWrites ==
  ASSUME FanAssumption, FanInv, NEW b \in DOMAIN NameOf, Crew!EmitWrites(b)
  PROVE  FanInv'
  <1>1. /\ crewAt = "fan" /\ fan[b].pc = "emit"
        /\ trace' = [trace EXCEPT ![Key(b)] = Append(fan[b].read, <<called, b, fan[b].turn + 1>>)]
        /\ fan' = [fan EXCEPT ![b].pc = "turn", ![b].turn = @ + 1, ![b].read = <<>>]
        /\ UNCHANGED <<crew, crewAt, called>>
    BY DEF Crew!EmitWrites, Crew!chain, Key, Crew!FanOutRunIdFor
  <1>2. DOMAIN fan' = DOMAIN NameOf /\ DOMAIN fan = DOMAIN NameOf /\ crew.kind = "parallel" /\ DOMAIN trace = Crew!Keys /\ called \in Nat
    BY <1>1 DEF FanInv
  <1>3. b \in Crew!Members
    BY <1>1, <1>2 DEF FanInv
  <1>4. AtWork(fan[b], trace[Key(b)], b, called) /\ IsTrace(trace[Key(b)], called)
    BY <1>1, <1>2, <1>3 DEF FanInv
  <1>5. Key(b) \in DOMAIN trace
    BY <1>2 DEF Crew!Keys, Key, Crew!FanOutRunIdFor
  <1>6. \A a \in DOMAIN NameOf : a # b => Key(a) # Key(b)
    BY DEF Key, Crew!FanOutRunIdFor
  <1> DEFINE u == Append(trace[Key(b)], <<called, b, fan[b].turn + 1>>)
  <1>7. /\ fan[b].read = trace[Key(b)] /\ fan[b].turn \in 0 .. Turns /\ fan[b].turn < Turns
        /\ EndsIn(trace[Key(b)], b, fan[b].turn, called) /\ IsMember(fan[b])
    BY <1>1, <1>4 DEF AtWork
  <1>8. IsTrace(u, called) /\ EndsIn(u, b, fan[b].turn + 1, called)
    BY <1>2, <1>4, <1>7, TurnTraced
  <1>9. trace'[Key(b)] = u /\ \A a \in DOMAIN NameOf : a # b => trace'[Key(a)] = trace[Key(a)]
    BY <1>1, <1>5, <1>6, <1>7
  <1> HIDE DEF u
  <1>10. \A a \in DOMAIN NameOf : IsTrace(trace[Key(a)], called)
    BY DEF FanInv
  <1>11. \A a \in DOMAIN NameOf : IsTrace(trace'[Key(a)], called')
    BY <1>1, <1>8, <1>9, <1>10
  <1>12. fan'[b] = [pc |-> "turn", turn |-> fan[b].turn + 1, read |-> <<>>]
    BY <1>1, <1>7 DEF FanInv, IsMember
  <1>13. Crew!Members \subseteq DOMAIN NameOf
    BY <1>2 DEF FanAssumption, Crew!Members, FanInv
  <1>14. ASSUME NEW a \in Crew!Members PROVE AtWork(fan'[a], trace'[Key(a)], a, called')
    <2>1. CASE a = b
      <3>1. fan[b].turn + 1 \in 0 .. Turns
        BY <1>7 DEF FanAssumption
      <3>2. fan'[b].turn = fan[b].turn + 1 /\ fan'[b].pc = "turn" /\ IsMember(fan'[b])
        BY <1>12 DEF IsMember
      <3>3. EndsIn(trace'[Key(b)], b, fan'[b].turn, called')
        BY <1>1, <1>8, <1>9, <3>2
      <3> QED
        BY <2>1, <3>1, <3>2, <3>3 DEF AtWork
    <2>2. CASE a # b
      <3>1. fan'[a] = fan[a] /\ trace'[Key(a)] = trace[Key(a)]
        BY <1>1, <1>2, <1>9, <1>13, <2>2
      <3>2. AtWork(fan[a], trace[Key(a)], a, called)
        BY <1>1, <1>2 DEF FanInv
      <3> QED
        BY <1>1, <3>1, <3>2
    <2> QED
      BY <2>1, <2>2
  <1>15. \A a \in DOMAIN NameOf \ Crew!Members : fan'[a].pc = "off"
    BY <1>1, <1>2, <1>3 DEF FanInv
  <1>16. Crew!Members' = Crew!Members /\ Crew!Keys' = Crew!Keys /\ DOMAIN trace' = Crew!Keys
    BY <1>1, <1>2 DEF Crew!Members, Crew!Keys, Crew!FanOutRunIdFor
  <1> QED
    BY <1>1, <1>2, <1>11, <1>14, <1>15, <1>16 DEF FanInv

\* All agents have answered.
LEMMA FanMerges ==
  ASSUME FanAssumption, FanInv, Crew!Merge
  PROVE  FanInv'
  <1>1. /\ crewAt = "fan" /\ crewAt' = "returned" /\ \A a \in Crew!Members : fan[a].turn = Turns
        /\ UNCHANGED <<crew, called, fan, trace>>
    BY DEF Crew!Merge, Crew!team
  <1>2. \A a \in Crew!Members : EndsIn(trace[Key(a)], a, Turns, called)
    BY <1>1 DEF FanInv, AtWork
  <1>3. \A a \in Crew!Members : EndsIn(trace'[Key(a)], a, Turns, called')
    BY <1>1, <1>2 DEF EndsIn, Key, Crew!FanOutRunIdFor
  <1>4. Crew!Members' = Crew!Members
    BY <1>1 DEF Crew!Members
  <1> QED
    BY <1>1, <1>3, <1>4 DEF FanInv, IsTrace, Key, Crew!FanOutRunIdFor, Entry, Crew!Keys

\* An agent rejects, or the process dies: no agent is at work any more.
LEMMA FanStops ==
  ASSUME FanInv, Crew!Rejects \/ Crew!Crash
  PROVE  FanInv'
  <1>1. /\ crewAt' \in {"failed", "idle"} /\ UNCHANGED <<crew, called, trace>>
        /\ fan' = [a \in DOMAIN fan |-> Crew!Quiet]
    BY DEF Crew!Rejects, Crew!Crash
  <1>2. DOMAIN fan' = DOMAIN NameOf
    BY <1>1 DEF FanInv
  <1> QED
    BY <1>1, <1>2 DEF FanInv, IsTrace, Key, Crew!FanOutRunIdFor, Entry, Crew!Keys

\* A run() of a crew that is no fan-out is counted too.
LEMMA FanCounts ==
  ASSUME FanInv, crew.kind # "parallel", called' = called + 1, crewAt' # "fan", UNCHANGED <<crew, fan, trace>>
  PROVE  FanInv'
  <1>1. called \in Nat /\ called' \in Nat
    BY DEF FanInv
  <1>2. ASSUME NEW a \in DOMAIN NameOf PROVE IsTrace(trace'[Key(a)], called')
    <2> DEFINE t == trace[Key(a)]
    <2>1. t \in Seq(Entry) /\ \A i \in 1 .. Len(t) : t[i][1] <= called
      BY <1>2 DEF FanInv, IsTrace
    <2>2. trace'[Key(a)'] = t
      BY DEF Key, Crew!FanOutRunIdFor
    <2>3. \A i \in 1 .. Len(t) : t[i][1] \in Nat
      BY <2>1 DEF Entry
    <2> HIDE DEF t
    <2>4. \A i \in 1 .. Len(t) : t[i][1] <= called'
      BY <1>1, <2>1, <2>3
    <2> QED
      BY <2>1, <2>2, <2>4 DEF IsTrace, Entry
  <1> QED
    BY <1>1, <1>2 DEF FanInv, Crew!Keys

LEMMA FanStep ==
  ASSUME FanAssumption, FanInv, Crew!Next
  PROVE  FanInv'
  <1>1. CASE Crew!FanOut
    BY <1>1, FanBegins
  <1>2. CASE \E a \in DOMAIN NameOf : Crew!EmitReads(a) \/ Crew!EmitWrites(a)
    BY <1>2, FanReads, FanWrites
  <1>3. CASE Crew!Merge
    BY <1>3, FanMerges
  <1>4. CASE Crew!Rejects \/ Crew!Crash
    BY <1>4, FanStops
  <1>5. CASE Crew!Run \/ Crew!Route
    <2>1. called' = called + 1 /\ crewAt' # "fan" /\ UNCHANGED <<crew, fan, trace>> /\ crew.kind # "parallel"
      BY <1>5 DEF Crew!Run, Crew!Route, Crew!IsChain, Crew!team
    <2> QED
      BY <2>1, FanCounts
  <1>6. CASE Crew!StepEnds \/ Crew!SaveEnds \/ Crew!After \/ Crew!Parses \/ Crew!Repairs \/ Crew!Fails \/ Crew!Routed
    <2>1. UNCHANGED <<crew, called, fan, trace>> /\ crewAt' # "fan" /\ crewAt \notin {"idle", "fan", "returned", "failed"}
      BY <1>6 DEF Crew!StepEnds, Crew!SaveEnds, Crew!After, Crew!Parses, Crew!Repairs, Crew!Fails, Crew!Routed, Crew!team
    <2>2. crew.kind # "parallel"
      BY <2>1 DEF FanInv
    <2> QED
      BY <2>1, <2>2, FanAside
  <1>7. CASE Crew!Finished
    BY <1>7 DEF Crew!Finished, Crew!vars, FanInv, IsTrace, Entry, Key, Crew!FanOutRunIdFor, Crew!Members, Crew!Keys,
                AtWork, IsMember, EndsIn
  <1> QED
    BY <1>1, <1>2, <1>3, <1>4, <1>5, <1>6, <1>7 DEF Crew!Next

(* What one run of a fan-out traced for an agent is all there, in order, when *)
(* it returns, for any agents, whatever they are called, however many turns *)
(* they trace at once and however often run() died before (tracing.ts).     *)
THEOREM TracesAreKept ==
  ASSUME FanAssumption
  PROVE  Crew!Spec => []Crew!TracesComplete
  <1>1. Crew!Init => FanInv
    <2> SUFFICES ASSUME Crew!Init PROVE FanInv
      OBVIOUS
    <2>1. ASSUME NEW a \in DOMAIN NameOf PROVE IsTrace(trace[Key(a)], called)
      <3>1. Key(a) \in Crew!Keys
        BY DEF Crew!Keys, Key, Crew!FanOutRunIdFor
      <3>2. trace[Key(a)] = <<>>
        BY <3>1 DEF Crew!Init
      <3> QED
        BY <3>2 DEF IsTrace
    <2> QED
      BY <2>1 DEF Crew!Init, FanInv
  <1>2. FanInv /\ [Crew!Next]_Crew!vars => FanInv'
    <2>1. ASSUME FanInv, UNCHANGED Crew!vars PROVE FanInv'
      BY <2>1 DEF Crew!vars, FanInv, IsTrace, Entry, Key, Crew!FanOutRunIdFor, Crew!Members, Crew!Keys,
                  AtWork, IsMember, EndsIn
    <2> QED
      BY <2>1, FanStep
  <1>3. FanInv => Crew!TracesComplete
    <2> SUFFICES ASSUME FanInv, crew.kind = "parallel", crewAt = "returned", NEW a \in Crew!Members
                 PROVE  LET t == trace[Key(a)]
                            before == Len(t) - Turns
                        IN  /\ before >= 0
                            /\ \A i \in 1 .. Turns : t[before + i] = <<called, a, i>>
                            /\ \A i \in 1 .. before : t[i][1] # called
      BY DEF Crew!TracesComplete, Key, Crew!FanOutRunIdFor
    <2> DEFINE t == trace[Key(a)]
    <2>1. EndsIn(t, a, Turns, called)
      BY DEF FanInv
    <2>2. a \in DOMAIN NameOf /\ t \in Seq(Entry) /\ Turns \in Nat
      BY DEF FanInv, FanAssumption, Crew!Members, IsTrace
    <2> HIDE DEF t
    <2>3. Len(t) \in Nat
      BY <2>2
    <2> QED
      BY <2>1, <2>2, <2>3 DEF EndsIn, t
  <1> QED
    BY <1>1, <1>2, <1>3, PTL DEF Crew!Spec

-----------------------------------------------------------------------------
(* An agent behind HTTP.  The session is made of whole exchanges, each of a *)
(* task that was answered and none twice; a response has no ending until    *)
(* its handler is done, and then one, at its end.                           *)

ServerAssumption == KindOf \in [Request -> {"task", "chat", "a2a"}]

Item == Request \X {"user", "assistant"}

\* What a response is written in; those not of Ending are followed by others.
Piece ==
  Server!Ending \cup {"start", "start-step", "text-start", "text-delta", "text-end", "finish-step", "finish",
                     "error", "submitted", "working", "artifact"}

\* An exchange stands in one piece.
InOnePiece(s) ==
  /\ \A i \in 1..Len(s) : s[i][2] = "user" => i + 1 <= Len(s) /\ s[i + 1] = <<s[i][1], "assistant">>
  /\ \A i \in 1..Len(s) : s[i][2] = "assistant" => i > 1 /\ s[i - 1] = <<s[i][1], "user">>

\* No request has two.
InOnce(s) ==
  \A i, j \in 1..Len(s) : s[i][2] = "user" /\ s[j][2] = "user" /\ s[i][1] = s[j][1] => i = j

Exchanges(s) == s \in Seq(Item) /\ InOnePiece(s) /\ InOnce(s)

Lacks(s, r) == \A i \in 1..Len(s) : s[i][1] # r

\* t is s and the exchange of r.
Adds(s, t, r) ==
  /\ \A i \in 1..Len(t) : t[i][1] = r \/ (i \in 1..Len(s) /\ t[i] = s[i])
  /\ \A i \in 1..Len(s) : i \in 1..Len(t) /\ t[i] = s[i]
  /\ \E i \in 1..Len(t) : t[i] = <<r, "user">>

NoEnding(o) == \A i \in 1..Len(o) : o[i] \notin Server!Ending

EndsOnce(o) ==
  /\ Len(o) > 0 /\ o[Len(o)] \in Server!Ending
  /\ \A i \in 1..Len(o) : o[i] \in Server!Ending => i = Len(o)

Leaves(r) == r \in gone /\ KindOf[r] # "a2a"

ServerTypes ==
  /\ handling \in [Request -> {"new", "running", "answered", "done"}]
  /\ out \in [Request -> Seq(Piece)]
  /\ \A r \in aborted : Leaves(r)

Responses ==
  \A r \in Request :
    /\ handling[r] # "done" => NoEnding(out[r])
    /\ handling[r] = "done" => EndsOnce(out[r]) \/ (NoEnding(out[r]) /\ Leaves(r))

\* A task that was answered, as far as its state and its response o tell.
Kept(r, p, o) ==
  KindOf[r] = "task" /\ (p = "answered" \/ (p = "done" /\ \E i \in 1..Len(o) : o[i] = "200"))

OfTheAnswered ==
  \A i \in 1..Len(items) : KindOf[items[i][1]] = "task" /\ handling[items[i][1]] \in {"answered", "done"}

AnsweredAreIn ==
  \A r \in Request : Kept(r, handling[r], out[r]) => \E i \in 1..Len(items) : items[i] = <<r, "user">>

ServerInv ==
  ServerTypes /\ Responses /\ Exchanges(items) /\ OfTheAnswered /\ AnsweredAreIn

LEMMA WriteOn ==
  ASSUME NEW a \in Seq(Piece), NEW b \in Seq(Piece), NoEnding(a)
  PROVE  /\ a \o b \in Seq(Piece)
         /\ NoEnding(b) => NoEnding(a \o b)
         /\ EndsOnce(b) => EndsOnce(a \o b)
         /\ (\E i \in 1..Len(a \o b) : (a \o b)[i] = "200") => \E i \in 1..Len(b) : b[i] = "200"
  <1>1. /\ a \o b \in Seq(Piece) /\ Len(a \o b) = Len(a) + Len(b) /\ Len(a) \in Nat /\ Len(b) \in Nat
        /\ \A i \in 1..Len(a) + Len(b) : (a \o b)[i] = IF i <= Len(a) THEN a[i] ELSE b[i - Len(a)]
    OBVIOUS
  <1> DEFINE c == a \o b
  <1>2. \A i \in 1..Len(c) : (i \in 1..Len(a) /\ c[i] = a[i]) \/ (i - Len(a) \in 1..Len(b) /\ c[i] = b[i - Len(a)])
    BY <1>1
  <1>3. Len(c) = Len(a) + Len(b) /\ (Len(b) > 0 => c[Len(c)] = b[Len(b)])
    BY <1>1
  <1>4. Len(a) \in Nat /\ Len(b) \in Nat /\ Len(c) \in Nat /\ c \in Seq(Piece)
    BY <1>1
  <1> HIDE DEF c
  <1>5. NoEnding(b) => NoEnding(c)
    BY <1>2 DEF NoEnding
  <1>6. EndsOnce(b) => EndsOnce(c)
    <2>1. SUFFICES ASSUME EndsOnce(b) PROVE EndsOnce(c)
      OBVIOUS
    <2>2. ASSUME NEW i \in 1..Len(c), c[i] \in Server!Ending PROVE i = Len(c)
      <3>1. i - Len(a) \in 1..Len(b) /\ c[i] = b[i - Len(a)]
        BY <1>2, <2>2 DEF NoEnding
      <3>2. i - Len(a) = Len(b)
        BY <2>1, <2>2, <3>1 DEF EndsOnce
      <3> QED
        BY <1>3, <1>4, <3>2
    <2>3. Len(c) > 0 /\ c[Len(c)] \in Server!Ending
      BY <1>3, <1>4, <2>1 DEF EndsOnce
    <2> QED
      BY <2>2, <2>3 DEF EndsOnce
  <1>7. (\E i \in 1..Len(c) : c[i] = "200") => \E i \in 1..Len(b) : b[i] = "200"
    <2>1. SUFFICES ASSUME NEW i \in 1..Len(c), c[i] = "200" PROVE \E j \in 1..Len(b) : b[j] = "200"
      OBVIOUS
    <2>2. c[i] \in Server!Ending
      BY <2>1 DEF Server!Ending
    <2> QED
      BY <1>2, <2>1, <2>2 DEF NoEnding
  <1> QED
    BY <1>4, <1>5, <1>6, <1>7 DEF c

\* Short sequences.
LEMMA ShortSequences ==
  ASSUME NEW S, NEW x \in S, NEW y \in S, NEW z \in S, NEW w \in S
  PROVE  /\ <<x>> \in Seq(S) /\ Len(<<x>>) = 1 /\ <<x>>[1] = x
         /\ <<x, y>> \in Seq(S) /\ Len(<<x, y>>) = 2 /\ <<x, y>>[1] = x /\ <<x, y>>[2] = y
         /\ <<x, y, z>> \in Seq(S) /\ Len(<<x, y, z>>) = 3
         /\ <<x, y, z>>[1] = x /\ <<x, y, z>>[2] = y /\ <<x, y, z>>[3] = z
         /\ <<x, y, z, w>> \in Seq(S) /\ Len(<<x, y, z, w>>) = 4
         /\ <<x, y, z, w>>[1] = x /\ <<x, y, z, w>>[2] = y /\ <<x, y, z, w>>[3] = z /\ <<x, y, z, w>>[4] = w
  OBVIOUS

\* A few chunks, none of them an ending but the last.
LEMMA FewChunks ==
  ASSUME NEW x \in Piece, NEW y \in Piece, NEW z \in Piece, NEW w \in Piece
  PROVE  /\ <<x>> \in Seq(Piece)
         /\ x \notin Server!Ending => NoEnding(<<x>>)
         /\ x \in Server!Ending => EndsOnce(<<x>>)
         /\ <<x, y>> \in Seq(Piece)
         /\ x \notin Server!Ending /\ y \notin Server!Ending => NoEnding(<<x, y>>)
         /\ x \notin Server!Ending /\ y \in Server!Ending => EndsOnce(<<x, y>>)
         /\ <<x, y, z>> \in Seq(Piece)
         /\ {x, y, z} \cap Server!Ending = {} => NoEnding(<<x, y, z>>)
         /\ <<x, y, z, w>> \in Seq(Piece)
         /\ {x, y, z} \cap Server!Ending = {} /\ w \in Server!Ending => EndsOnce(<<x, y, z, w>>)
  <1> DEFINE a == <<x>>
             b == <<x, y>>
             c == <<x, y, z>>
             d == <<x, y, z, w>>
  <1>1. /\ a \in Seq(Piece) /\ Len(a) = 1 /\ a[1] = x
        /\ b \in Seq(Piece) /\ Len(b) = 2 /\ b[1] = x /\ b[2] = y
        /\ c \in Seq(Piece) /\ Len(c) = 3 /\ c[1] = x /\ c[2] = y /\ c[3] = z
        /\ d \in Seq(Piece) /\ Len(d) = 4 /\ d[1] = x /\ d[2] = y /\ d[3] = z /\ d[4] = w
    BY ShortSequences
  <1>2. 1..1 = {1} /\ 1..2 = {1, 2} /\ 1..3 = {1, 2, 3} /\ 1..4 = {1, 2, 3, 4}
    OBVIOUS
  <1> HIDE DEF a, b, c, d
  <1>3. (x \notin Server!Ending => NoEnding(a)) /\ (x \in Server!Ending => EndsOnce(a))
    BY <1>1, <1>2 DEF NoEnding, EndsOnce
  <1>4. /\ x \notin Server!Ending /\ y \notin Server!Ending => NoEnding(b)
        /\ x \notin Server!Ending /\ y \in Server!Ending => EndsOnce(b)
    BY <1>1, <1>2 DEF NoEnding, EndsOnce
  <1>5. {x, y, z} \cap Server!Ending = {} => NoEnding(c)
    BY <1>1, <1>2 DEF NoEnding
  <1>6. {x, y, z} \cap Server!Ending = {} /\ w \in Server!Ending => EndsOnce(d)
    BY <1>1, <1>2 DEF EndsOnce
  <1> QED
    BY <1>1, <1>3, <1>4, <1>5, <1>6 DEF a, b, c, d

LEMMA Chunks ==
  ASSUME ServerAssumption, NEW r \in Request
  PROVE  /\ <<"400">> \in Seq(Piece) /\ EndsOnce(<<"400">>)
         /\ <<"text-delta">> \in Seq(Piece) /\ NoEnding(<<"text-delta">>)
         /\ Server!Opening(KindOf[r]) \in Seq(Piece) /\ NoEnding(Server!Opening(KindOf[r]))
         /\ Server!Closing(r) \in Seq(Piece) /\ EndsOnce(Server!Closing(r))
         /\ Server!Failing(r) \in Seq(Piece) /\ EndsOnce(Server!Failing(r))
         /\ KindOf[r] = "task" => \A i \in 1..Len(Server!Failing(r)) : Server!Failing(r)[i] # "200"
  <1>1. KindOf[r] \in {"task", "chat", "a2a"}
    BY DEF ServerAssumption
  <1> DEFINE Midway(o) == o \in Seq(Piece) /\ NoEnding(o)
             Ends(o) == o \in Seq(Piece) /\ EndsOnce(o)
             Short == Piece \ Server!Ending
             Last == Piece \cap Server!Ending
  <1>2. /\ {"text-delta", "start", "start-step", "text-start", "submitted", "working", "text-end", "finish-step",
            "finish", "artifact", "error"} \subseteq Short
        /\ {"400", "200", "500", "failed", "completed", "[DONE]"} \subseteq Last
    <2>1. \A x, y \in Piece : x = y <=> ~(x # y)
      OBVIOUS
    <2> QED
      BY DEF Server!Ending, Piece
  <1>3. /\ \A x \in Short : Midway(<<x>>)
        /\ \A x \in Last : Ends(<<x>>)
        /\ \A x, y \in Short : Midway(<<x, y>>)
        /\ \A x \in Short, y \in Last : Ends(<<x, y>>)
    BY FewChunks
  <1>4. \A o, p : Midway(o) /\ Ends(p) => Ends(o \o p)
    BY WriteOn
  <1>5. Midway(<<>>)
    BY DEF NoEnding
  <1>6. \A x, y, z \in Short : Midway(<<x, y, z>>)
    BY FewChunks
  <1>7. \A x, y, z \in Short, w \in Last : Ends(<<x, y, z, w>>)
    BY FewChunks
  <1> HIDE DEF Midway, Ends, Short, Last
  <1>8. Ends(<<"400">>) /\ Midway(<<"text-delta">>)
    BY <1>2, <1>3
  <1>9. Midway(Server!Opening(KindOf[r]))
    <2>1. CASE KindOf[r] = "task"
      BY <1>5, <2>1 DEF Server!Opening
    <2>2. CASE KindOf[r] = "chat"
      BY <1>2, <1>6, <2>2 DEF Server!Opening
    <2>3. CASE KindOf[r] = "a2a"
      BY <1>2, <1>3, <2>3 DEF Server!Opening
    <2> QED
      BY <1>1, <2>1, <2>2, <2>3
  <1>10. Ends(Server!Closing(r))
    <2>1. CASE KindOf[r] = "task"
      BY <1>2, <1>3, <2>1 DEF Server!Closing
    <2>2. CASE KindOf[r] = "chat"
      <3> DEFINE rest == <<"text-end", "finish-step", "finish", "[DONE]">>
                 head == IF Len(out[r]) = 3 THEN <<"text-delta">> ELSE <<>>
      <3>1. Server!Closing(r) = head \o rest
        BY <2>2 DEF Server!Closing
      <3>2. Ends(rest)
        BY <1>2, <1>7
      <3>3. Midway(head)
        BY <1>5, <1>8
      <3> HIDE DEF rest, head
      <3> QED
        BY <1>4, <3>1, <3>2, <3>3
    <2>3. CASE KindOf[r] = "a2a"
      BY <1>2, <1>3, <2>3 DEF Server!Closing
    <2> QED
      BY <1>1, <2>1, <2>2, <2>3
  <1>11. Ends(Server!Failing(r))
    <2>1. CASE KindOf[r] = "task"
      BY <1>2, <1>3, <2>1 DEF Server!Failing
    <2>2. CASE KindOf[r] = "chat"
      BY <1>2, <1>3, <2>2 DEF Server!Failing
    <2>3. CASE KindOf[r] = "a2a"
      BY <1>2, <1>3, <2>3 DEF Server!Failing
    <2> QED
      BY <1>1, <2>1, <2>2, <2>3
  <1>12. KindOf[r] = "task" => \A i \in 1..Len(Server!Failing(r)) : Server!Failing(r)[i] # "200"
    <2>1. SUFFICES ASSUME KindOf[r] = "task" PROVE \A i \in 1..Len(Server!Failing(r)) : Server!Failing(r)[i] # "200"
      OBVIOUS
    <2>2. PICK x \in Piece : x = "500" /\ x # "200"
      BY DEF Piece, Server!Ending
    <2>3. Server!Failing(r) = <<x>>
      BY <2>1, <2>2 DEF Server!Failing
    <2>4. Len(<<x>>) = 1 /\ <<x>>[1] = x
      BY ShortSequences
    <2> QED
      BY <2>2, <2>3, <2>4
  <1> QED
    BY <1>8, <1>9, <1>10, <1>11, <1>12 DEF Midway, Ends

\* The session of a request that was not in it, with its exchange.
LEMMA ExchangeAdded ==
  ASSUME NEW s, Exchanges(s), NEW r \in Request, Lacks(s, r)
  PROVE  Exchanges(s \o Server!Exchange(r)) /\ Adds(s, s \o Server!Exchange(r), r)
  <1> DEFINE e == Server!Exchange(r)
             n == Len(s)
             t == s \o e
  <1>1. e \in Seq(Item) /\ Len(e) = 2 /\ e[1] = <<r, "user">> /\ e[2] = <<r, "assistant">>
    BY DEF Server!Exchange, Item
  <1>2. s \in Seq(Item) /\ n \in Nat
    BY DEF Exchanges
  <1> HIDE DEF e
  <1>3. t = s \o e /\ t \in Seq(Item) /\ Len(t) = n + 2
    <2>1. s \o e \in Seq(Item) /\ Len(s \o e) = Len(s) + Len(e)
      BY <1>1, <1>2, ConcatProperties
    <2> QED
      BY <1>1, <2>1
  <1>4. \A i \in 1..n : i \in 1..Len(t) /\ t[i] = s[i]
    BY <1>1, <1>2, <1>3
  <1>5. t[n + 1] = <<r, "user">> /\ t[n + 2] = <<r, "assistant">>
    BY <1>1, <1>2, <1>3
  <1>6. \A i \in 1..Len(t) : i \in 1..n \/ i = n + 1 \/ i = n + 2
    BY <1>2, <1>3
  <1>7. \A i \in 1..n : s[i] \in Item /\ s[i][1] # r
    BY <1>2 DEF Lacks
  <1> HIDE DEF n, t
  <1>8. Len(s) = n
    BY DEF n
  <1>9. InOnePiece(t)
    <2>1. InOnePiece(s)
      BY DEF Exchanges
    <2>2. ASSUME NEW i \in 1..Len(t), t[i][2] = "user"
          PROVE  i + 1 <= Len(t) /\ t[i + 1] = <<t[i][1], "assistant">>
      <3>1. CASE i \in 1..n
        <4>1. i + 1 <= n /\ s[i + 1] = <<s[i][1], "assistant">>
          BY <1>4, <1>8, <2>1, <2>2, <3>1 DEF InOnePiece
        <4>2. i + 1 \in 1..n
          BY <1>2, <3>1, <4>1
        <4>3. i + 1 <= Len(t)
          BY <1>2, <1>3, <4>1
        <4> QED
          BY <1>4, <3>1, <4>1, <4>2, <4>3
      <3>2. CASE i = n + 1
        BY <1>2, <1>3, <1>5, <3>2
      <3>3. CASE i = n + 2
        BY <1>5, <2>2, <3>3
      <3> QED
        BY <1>6, <3>1, <3>2, <3>3
    <2>3. ASSUME NEW i \in 1..Len(t), t[i][2] = "assistant"
          PROVE  i > 1 /\ t[i - 1] = <<t[i][1], "user">>
      <3>1. CASE i \in 1..n
        <4>1. i > 1 /\ s[i - 1] = <<s[i][1], "user">>
          BY <1>4, <1>8, <2>1, <2>3, <3>1 DEF InOnePiece
        <4>2. i - 1 \in 1..n
          BY <1>2, <3>1, <4>1
        <4> QED
          BY <1>4, <3>1, <4>1, <4>2
      <3>2. CASE i = n + 1
        BY <1>5, <2>3, <3>2
      <3>3. CASE i = n + 2
        <4>1. i > 1 /\ i - 1 = n + 1
          BY <1>2, <3>3
        <4> QED
          BY <1>5, <3>3, <4>1
      <3> QED
        BY <1>6, <3>1, <3>2, <3>3
    <2> QED
      BY <2>2, <2>3 DEF InOnePiece
  <1>10. InOnce(t)
    <2>1. InOnce(s)
      BY DEF Exchanges
    <2>2. \A i \in 1..Len(t) : t[i][2] = "user" => i \in 1..n \/ i = n + 1
      BY <1>5, <1>6
    <2>3. t[n + 1][1] = r
      BY <1>5
    <2> QED
      BY <1>4, <1>7, <1>8, <2>1, <2>2, <2>3 DEF InOnce
  <1>11. \A i \in 1..Len(t) : t[i][1] = r \/ (i \in 1..n /\ t[i] = s[i])
    BY <1>4, <1>5, <1>6
  <1>12. n + 1 \in 1..Len(t)
    BY <1>2, <1>3
  <1> QED
    BY <1>3, <1>4, <1>5, <1>8, <1>9, <1>10, <1>11, <1>12 DEF Exchanges, Adds, t, e

\* A handler that moves on, and writes b, without touching the session.
LEMMA HandlerMoves ==
  ASSUME ServerInv, NEW r \in Request, NEW p \in {"running", "answered", "done"}, NEW b \in Seq(Piece),
         handling[r] # "done", handling[r] = "answered" => p = "done", UNCHANGED <<gone, aborted, items>>,
         handling' = [handling EXCEPT ![r] = p], out' = [out EXCEPT ![r] = @ \o b],
         p # "done" => NoEnding(b),
         p = "done" => EndsOnce(b) \/ (NoEnding(b) /\ Leaves(r)),
         Kept(r, p, b) => handling[r] = "answered"
  PROVE  ServerInv'
  <1> DEFINE w == out[r] \o b
  <1>1. out[r] \in Seq(Piece) /\ NoEnding(out[r])
    BY DEF ServerInv, ServerTypes, Responses
  <1>2. w \in Seq(Piece) /\ (NoEnding(b) => NoEnding(w)) /\ (EndsOnce(b) => EndsOnce(w))
        /\ ((\E i \in 1..Len(w) : w[i] = "200") => \E i \in 1..Len(b) : b[i] = "200")
    BY <1>1, WriteOn
  <1>3. out' = [out EXCEPT ![r] = w]
    OBVIOUS
  <1> HIDE DEF w
  <1>4. \A q \in Request : /\ handling'[q] = (IF q = r THEN p ELSE handling[q])
                           /\ out'[q] = (IF q = r THEN w ELSE out[q])
    BY <1>3 DEF ServerInv, ServerTypes
  <1>5. \A q \in Request : Leaves(q)' <=> Leaves(q)
    BY DEF Leaves
  <1>6. ServerTypes'
    BY <1>2, <1>3 DEF ServerInv, ServerTypes, Leaves
  <1>7. Responses'
    <2>1. ASSUME NEW q \in Request
          PROVE  /\ handling'[q] # "done" => NoEnding(out'[q])
                 /\ handling'[q] = "done" => EndsOnce(out'[q]) \/ (NoEnding(out'[q]) /\ Leaves(q)')
      <3>1. CASE q = r
        BY <1>2, <1>4, <1>5, <3>1
      <3>2. CASE q # r
        BY <1>4, <1>5, <3>2 DEF ServerInv, Responses
      <3> QED
        BY <3>1, <3>2
    <2> QED
      BY <2>1 DEF Responses, NoEnding, EndsOnce, Server!Ending
  <1>8. Exchanges(items)'
    BY DEF ServerInv, Exchanges, InOnePiece, InOnce
  <1>9. OfTheAnswered'
    <2>1. \A i \in 1..Len(items) : items[i][1] \in Request
      BY DEF ServerInv, Exchanges, Item
    <2> QED
      BY <1>4, <2>1 DEF ServerInv, OfTheAnswered
  <1>10. AnsweredAreIn'
    <2>1. ASSUME NEW q \in Request, Kept(q, handling'[q], out'[q]) PROVE Kept(q, handling[q], out[q])
      <3>1. CASE q = r
        <4>1. Kept(r, p, w)
          BY <1>4, <2>1, <3>1
        <4>2. Kept(r, p, b)
          BY <1>2, <4>1 DEF Kept
        <4>3. handling[r] = "answered" /\ KindOf[r] = "task"
          BY <4>2 DEF Kept
        <4> QED
          BY <3>1, <4>3 DEF Kept
      <3>2. CASE q # r
        BY <1>4, <2>1, <3>2
      <3> QED
        BY <3>1, <3>2
    <2>2. \A q \in Request : Kept(q, handling'[q], out'[q]) => \E i \in 1..Len(items') : items'[i] = <<q, "user">>
      BY <2>1 DEF ServerInv, AnsweredAreIn
    <2> QED
      BY <2>2 DEF AnsweredAreIn, Kept
  <1> QED
    BY <1>6, <1>7, <1>8, <1>9, <1>10 DEF ServerInv

\* What only adds to those that have left.
LEMMA ClientLeaves ==
  ASSUME ServerInv, UNCHANGED <<handling, items, out>>, gone \subseteq gone', \A q \in aborted' : Leaves(q)'
  PROVE  ServerInv'
  <1>1. \A q \in Request : Leaves(q) => Leaves(q)'
    BY DEF Leaves
  <1>2. ServerTypes'
    BY DEF ServerInv, ServerTypes
  <1>3. Responses'
    BY <1>1 DEF ServerInv, Responses, NoEnding, EndsOnce, Server!Ending
  <1>4. Exchanges(items)' /\ OfTheAnswered' /\ AnsweredAreIn'
    BY DEF ServerInv, Exchanges, InOnePiece, InOnce, OfTheAnswered, AnsweredAreIn, Kept
  <1> QED
    BY <1>2, <1>3, <1>4 DEF ServerInv

\* The answer of a task, with its exchange; that of another kind has none.
LEMMA AnsweredStep ==
  ASSUME ServerAssumption, ServerInv, NEW r \in Request, Server!Answered(r)
  PROVE  ServerInv'
  <1>1. /\ handling[r] = "running" /\ handling' = [handling EXCEPT ![r] = "answered"] /\ UNCHANGED <<gone, aborted, out>>
        /\ items' = IF KindOf[r] = "task" THEN items \o Server!Exchange(r) ELSE items
    BY DEF Server!Answered, Server!Go, Server!AddItems
  <1>2. \A q \in Request : handling'[q] = (IF q = r THEN "answered" ELSE handling[q])
    BY <1>1 DEF ServerInv, ServerTypes
  <1>3. \A i \in 1..Len(items) : items[i][1] \in Request /\ items[i][1] # r
    BY <1>1 DEF ServerInv, Exchanges, Item, OfTheAnswered
  <1>4. ServerTypes'
    BY <1>1 DEF ServerInv, ServerTypes, Leaves
  <1>5. Responses'
    BY <1>1, <1>2 DEF ServerInv, Responses, NoEnding, EndsOnce, Leaves, Server!Ending
  <1>6. CASE KindOf[r] = "task"
    <2>1. items' = items \o Server!Exchange(r)
      BY <1>1, <1>6
    <2>2. Exchanges(items)
      BY DEF ServerInv
    <2>3. /\ Exchanges(items')
          /\ \A i \in 1..Len(items') : items'[i][1] = r \/ (i \in 1..Len(items) /\ items'[i] = items[i])
          /\ \A i \in 1..Len(items) : i \in 1..Len(items') /\ items'[i] = items[i]
          /\ \E i \in 1..Len(items') : items'[i] = <<r, "user">>
      <3>1. Lacks(items, r)
        BY <1>3 DEF Lacks
      <3>2. Exchanges(items \o Server!Exchange(r)) /\ Adds(items, items \o Server!Exchange(r), r)
        BY <2>2, <3>1, ExchangeAdded
      <3> QED
        BY <2>1, <3>2 DEF Adds
    <2>4. Exchanges(items)'
      BY <2>3 DEF Exchanges, InOnePiece, InOnce
    <2>5. OfTheAnswered'
      <3>1. ASSUME NEW i \in 1..Len(items')
            PROVE  KindOf[items'[i][1]] = "task" /\ handling'[items'[i][1]] \in {"answered", "done"}
        <4>1. CASE items'[i][1] = r
          BY <1>2, <1>6, <4>1
        <4>2. CASE i \in 1..Len(items) /\ items'[i] = items[i]
          BY <1>2, <1>3, <4>2 DEF ServerInv, OfTheAnswered
        <4> QED
          BY <2>3, <4>1, <4>2
      <3> QED
        BY <3>1 DEF OfTheAnswered
    <2>6. AnsweredAreIn'
      <3>1. ASSUME NEW q \in Request, Kept(q, handling'[q], out'[q])
            PROVE  \E i \in 1..Len(items') : items'[i] = <<q, "user">>
        <4>1. CASE q = r
          BY <2>3, <4>1
        <4>2. CASE q # r
          <5>1. Kept(q, handling[q], out[q])
            BY <1>1, <1>2, <3>1, <4>2
          <5>2. PICK i \in 1..Len(items) : items[i] = <<q, "user">>
            BY <5>1 DEF ServerInv, AnsweredAreIn
          <5> QED
            BY <2>3, <5>2
        <4> QED
          BY <4>1, <4>2
      <3> QED
        BY <3>1 DEF AnsweredAreIn, Kept
    <2> QED
      BY <1>4, <1>5, <2>4, <2>5, <2>6 DEF ServerInv
  <1>7. CASE KindOf[r] # "task"
    <2>1. items' = items
      BY <1>1, <1>7
    <2>2. Exchanges(items)'
      BY <2>1 DEF ServerInv, Exchanges, InOnePiece, InOnce
    <2>3. OfTheAnswered'
      BY <1>2, <1>3, <2>1 DEF ServerInv, OfTheAnswered
    <2>4. ASSUME NEW q \in Request, Kept(q, handling'[q], out'[q]) PROVE Kept(q, handling[q], out[q])
      BY <1>1, <1>2, <1>7, <2>4 DEF Kept
    <2>5. \A q \in Request : Kept(q, handling'[q], out'[q]) => \E i \in 1..Len(items') : items'[i] = <<q, "user">>
      BY <2>1, <2>4 DEF ServerInv, AnsweredAreIn
    <2>6. AnsweredAreIn'
      BY <2>5 DEF AnsweredAreIn, Kept
    <2> QED
      BY <1>4, <1>5, <2>2, <2>3, <2>6 DEF ServerInv
  <1> QED
    BY <1>6, <1>7

LEMMA ServerStep ==
  ASSUME ServerAssumption, ServerInv, Server!Next
  PROVE  ServerInv'
  <1> USE DEF Server!Go, Server!Send
  <1>1. <<>> \in Seq(Piece) /\ NoEnding(<<>>)
    BY DEF NoEnding
  <1>2. \A r \in Request : out[r] = out[r] \o <<>> /\ (UNCHANGED out => out' = [out EXCEPT ![r] = @ \o <<>>])
    BY DEF ServerInv, ServerTypes
  <1>3. \A r \in Request : r \in aborted => Leaves(r)
    BY DEF ServerInv, ServerTypes
  <1>4. ASSUME NEW r \in Request, Server!Refuse(r) PROVE ServerInv'
    <2>1. /\ handling[r] = "new" /\ UNCHANGED <<gone, aborted, items>>
          /\ handling' = [handling EXCEPT ![r] = "done"] /\ out' = [out EXCEPT ![r] = @ \o <<"400">>]
      BY <1>4 DEF Server!Refuse
    <2>2. <<"400">> \in Seq(Piece) /\ EndsOnce(<<"400">>) /\ ~ Kept(r, "done", <<"400">>)
      BY Chunks DEF Kept
    <2> QED
      BY <2>1, <2>2, HandlerMoves
  <1>5. ASSUME NEW r \in Request, Server!Start(r) PROVE ServerInv'
    <2>1. /\ handling[r] = "new" /\ UNCHANGED <<gone, aborted, items>>
          /\ handling' = [handling EXCEPT ![r] = "running"] /\ out' = [out EXCEPT ![r] = @ \o Server!Opening(KindOf[r])]
      BY <1>5 DEF Server!Start
    <2>2. /\ Server!Opening(KindOf[r]) \in Seq(Piece) /\ NoEnding(Server!Opening(KindOf[r]))
          /\ ~ Kept(r, "running", Server!Opening(KindOf[r]))
      BY Chunks DEF Kept
    <2> QED
      BY <2>1, <2>2, HandlerMoves
  <1>6. ASSUME NEW r \in Request, Server!Delta(r) PROVE ServerInv'
    <2>1. /\ handling[r] = "running" /\ UNCHANGED <<handling, gone, aborted, items>>
          /\ out' = [out EXCEPT ![r] = @ \o <<"text-delta">>]
      BY <1>6 DEF Server!Delta
    <2>2. handling' = [handling EXCEPT ![r] = "running"]
      BY <2>1 DEF ServerInv, ServerTypes
    <2>3. <<"text-delta">> \in Seq(Piece) /\ NoEnding(<<"text-delta">>) /\ ~ Kept(r, "running", <<"text-delta">>)
      BY Chunks DEF Kept
    <2> QED
      BY <2>1, <2>2, <2>3, HandlerMoves
  <1>7. ASSUME NEW r \in Request, Server!HangUp(r) PROVE ServerInv'
    BY <1>7, ClientLeaves DEF Server!HangUp, Leaves, ServerInv, ServerTypes
  <1>8. ASSUME NEW r \in Request, Server!Disconnect(r) PROVE ServerInv'
    BY <1>8, ClientLeaves DEF Server!Disconnect, Leaves, ServerInv, ServerTypes
  <1>9. ASSUME NEW r \in Request, Server!Answered(r) PROVE ServerInv'
    BY <1>9, AnsweredStep
  <1>10. ASSUME NEW r \in Request, Server!Finish(r) PROVE ServerInv'
    <2>1. /\ handling[r] = "answered" /\ UNCHANGED <<gone, aborted, items>> /\ handling' = [handling EXCEPT ![r] = "done"]
          /\ IF Leaves(r) THEN UNCHANGED out ELSE out' = [out EXCEPT ![r] = @ \o Server!Closing(r)]
      BY <1>10 DEF Server!Finish, Leaves
    <2>2. CASE Leaves(r)
      <3>1. out' = [out EXCEPT ![r] = @ \o <<>>]
        BY <1>2, <2>1, <2>2
      <3> QED
        BY <1>1, <2>1, <2>2, <3>1, HandlerMoves
    <2>3. CASE ~ Leaves(r)
      <3>1. out' = [out EXCEPT ![r] = @ \o Server!Closing(r)]
        BY <2>1, <2>3
      <3>2. Server!Closing(r) \in Seq(Piece) /\ EndsOnce(Server!Closing(r))
        BY Chunks
      <3> QED
        BY <2>1, <3>1, <3>2, HandlerMoves
    <2> QED
      BY <2>2, <2>3
  <1>11. ASSUME NEW r \in Request, Server!Fail(r) PROVE ServerInv'
    <2>1. /\ handling[r] = "running" /\ UNCHANGED <<gone, aborted, items>> /\ handling' = [handling EXCEPT ![r] = "done"]
          /\ IF Leaves(r) THEN UNCHANGED out ELSE out' = [out EXCEPT ![r] = @ \o Server!Failing(r)]
      BY <1>11 DEF Server!Fail, Leaves
    <2>2. CASE Leaves(r)
      <3>1. out' = [out EXCEPT ![r] = @ \o <<>>]
        BY <1>2, <2>1, <2>2
      <3>2. ~ Kept(r, "done", <<>>)
        BY DEF Kept
      <3> QED
        BY <1>1, <2>1, <2>2, <3>1, <3>2, HandlerMoves
    <2>3. CASE ~ Leaves(r)
      <3>1. out' = [out EXCEPT ![r] = @ \o Server!Failing(r)]
        BY <2>1, <2>3
      <3>2. /\ Server!Failing(r) \in Seq(Piece) /\ EndsOnce(Server!Failing(r))
            /\ ~ Kept(r, "done", Server!Failing(r))
        BY Chunks DEF Kept
      <3> QED
        BY <2>1, <3>1, <3>2, HandlerMoves
    <2> QED
      BY <2>2, <2>3
  <1>12. ASSUME NEW r \in Request, Server!FailQuietly(r) PROVE ServerInv'
    <2>1. /\ handling[r] = "running" /\ UNCHANGED <<gone, aborted, items>> /\ handling' = [handling EXCEPT ![r] = "done"]
          /\ UNCHANGED out /\ Leaves(r)
      BY <1>3, <1>12 DEF Server!FailQuietly
    <2>2. out' = [out EXCEPT ![r] = @ \o <<>>] /\ ~ Kept(r, "done", <<>>)
      BY <1>2, <2>1 DEF Kept
    <2> QED
      BY <1>1, <2>1, <2>2, HandlerMoves
  <1>13. ASSUME Server!Finished PROVE ServerInv'
    <2>1. UNCHANGED <<handling, items, out, gone, aborted>>
      BY <1>13 DEF Server!Finished, Server!vars
    <2> QED
      BY <2>1, ClientLeaves DEF ServerInv, ServerTypes, Leaves
  <1> QED
    BY <1>4, <1>5, <1>6, <1>7, <1>8, <1>9, <1>10, <1>11, <1>12, <1>13 DEF Server!Next

\* The session of whole exchanges holds two items of a request, or none.
LEMMA ExchangesAreKept ==
  ASSUME ServerInv
  PROVE  Server!SessionKeepsExchanges
  <1> DEFINE s == items
             places(r) == {i \in DOMAIN s : s[i][1] = r}
  <1>1. s \in Seq(Item) /\ InOnePiece(s) /\ InOnce(s) /\ DOMAIN s = 1..Len(s) /\ Len(s) \in Nat
    BY DEF ServerInv, Exchanges
  <1>2. \A i \in 1..Len(s) : s[i] = <<s[i][1], s[i][2]>> /\ s[i][2] \in {"user", "assistant"}
    BY <1>1 DEF Item
  <1> HIDE DEF s
  <1>3. ASSUME NEW r \in Request, Kept(r, handling[r], out[r]) PROVE Cardinality(places(r)) = 2
    <2>1. PICK i \in 1..Len(s) : s[i] = <<r, "user">>
      BY <1>3 DEF ServerInv, AnsweredAreIn, s
    <2>2. i + 1 \in 1..Len(s) /\ s[i + 1] = <<r, "assistant">>
      BY <1>1, <2>1 DEF InOnePiece
    <2>3. ASSUME NEW j \in 1..Len(s), s[j][1] = r PROVE j \in {i, i + 1}
      <3>1. CASE s[j][2] = "user"
        BY <1>1, <2>1, <2>3, <3>1 DEF InOnce
      <3>2. CASE s[j][2] = "assistant"
        <4>1. j > 1 /\ s[j - 1] = <<r, "user">>
          BY <1>1, <2>3, <3>2 DEF InOnePiece
        <4>2. j - 1 \in 1..Len(s)
          BY <1>1, <4>1
        <4>3. j - 1 = i
          BY <1>1, <2>1, <4>1, <4>2 DEF InOnce
        <4> QED
          BY <1>1, <4>2, <4>3
      <3> QED
        BY <1>2, <3>1, <3>2
    <2>4. places(r) = {i, i + 1}
      BY <1>1, <2>1, <2>2, <2>3
    <2>5. Cardinality({i, i + 1}) = 2
      <3> DEFINE A == {i}
                 B == A \cup {i + 1}
      <3>1. IsFiniteSet(A) /\ Cardinality(A) = 1
        BY FS_Singleton
      <3>2. i + 1 \notin A /\ B = {i, i + 1}
        BY <1>1
      <3>3. Cardinality(B) = Cardinality(A) + 1
        <4> HIDE DEF A
        <4> QED
          BY <3>1, <3>2, FS_AddElement
      <3>4. Cardinality(B) = 2
        <4> HIDE DEF A, B
        <4> QED
          BY <3>1, <3>3
      <3> HIDE DEF A, B
      <3> QED
        BY <3>2, <3>4, Zenon
    <2> QED
      BY <2>4, <2>5
  <1>4. ASSUME NEW r \in Request, NEW i \in places(r)
        PROVE  SubSeq(s, IF s[i][2] = "user" THEN i ELSE i - 1, IF s[i][2] = "user" THEN i + 1 ELSE i)
                 = Server!Exchange(r)
    <2>1. \A k \in 1..Len(s) : k + 1 \in 1..Len(s) /\ s[k] = <<r, "user">> /\ s[k + 1] = <<r, "assistant">>
                                 => SubSeq(s, k, k + 1) = <<<<r, "user">>, <<r, "assistant">>>>
      <3>1. SUFFICES ASSUME NEW k \in 1..Len(s), k + 1 \in 1..Len(s),
                            s[k] = <<r, "user">>, s[k + 1] = <<r, "assistant">>
                     PROVE  SubSeq(s, k, k + 1) = <<<<r, "user">>, <<r, "assistant">>>>
        OBVIOUS
      <3> DEFINE b == SubSeq(s, k, k + 1)
      <3>2. b \in Seq(Item) /\ Len(b) = 2 /\ b[1] = s[k] /\ b[2] = s[k + 1]
        BY <1>1, <3>1
      <3> HIDE DEF b
      <3>3. b = <<b[1], b[2]>>
        BY <3>2
      <3> QED
        BY <3>1, <3>2, <3>3 DEF b
    <2>2. i \in 1..Len(s) /\ s[i][1] = r
      BY <1>1, <1>4
    <2>3. CASE s[i][2] = "user"
      <3>1. i + 1 \in 1..Len(s) /\ s[i] = <<r, "user">> /\ s[i + 1] = <<r, "assistant">>
        BY <1>1, <1>2, <2>2, <2>3 DEF InOnePiece
      <3> QED
        BY <2>1, <2>2, <2>3, <3>1 DEF Server!Exchange
    <2>4. CASE s[i][2] = "assistant"
      <3> DEFINE k == i - 1
      <3>1. i > 1 /\ s[k] = <<r, "user">> /\ s[i] = <<r, "assistant">>
        BY <1>1, <1>2, <2>2, <2>4 DEF InOnePiece
      <3>2. k \in 1..Len(s) /\ k + 1 = i
        BY <1>1, <2>2, <3>1
      <3> HIDE DEF k
      <3>3. SubSeq(s, k, i) = <<<<r, "user">>, <<r, "assistant">>>>
        BY <2>1, <2>2, <3>1, <3>2
      <3> QED
        BY <2>4, <3>3 DEF Server!Exchange, k
    <2> QED
      BY <1>2, <2>2, <2>3, <2>4
  <1>5. \A r \in Request : out[r] \in Seq(Piece) /\ DOMAIN out[r] = 1..Len(out[r])
    BY DEF ServerInv, ServerTypes
  <1>6. ASSUME NEW r \in Request, KindOf[r] = "task",
               handling[r] = "answered" \/ (handling[r] = "done" /\ "200" \in {out[r][i] : i \in DOMAIN out[r]})
        PROVE  Kept(r, handling[r], out[r])
    BY <1>5, <1>6 DEF Kept
  <1>7. \A S : Server!Cardinality(S) = Cardinality(S)
    BY DEF Server!Cardinality, Cardinality, Server!IsFiniteSet, IsFiniteSet
  <1>8. ASSUME NEW r \in Request
        PROVE  LET here == places(r)
                   whole == KindOf[r] = "task" /\ (handling[r] = "answered"
                              \/ (handling[r] = "done" /\ "200" \in {out[r][i] : i \in DOMAIN out[r]}))
               IN  /\ whole => Server!Cardinality(here) = 2
                   /\ \A i \in here : SubSeq(s, IF s[i][2] = "user" THEN i ELSE i - 1,
                                                  IF s[i][2] = "user" THEN i + 1 ELSE i) = Server!Exchange(r)
    BY <1>3, <1>4, <1>6, <1>7
  <1> QED
    BY <1>8 DEF Server!SessionKeepsExchanges, s

(* Requests of one session may run at the same time, fail, and lose their   *)
(* clients: every exchange a task was answered with is in the session once  *)
(* and in one piece, and nothing of the others is; and a client that stays  *)
(* gets a response that ends, with nothing after its end.                   *)
THEOREM ServerKeepsItsWord ==
  ASSUME ServerAssumption
  PROVE  Server!Spec => [](Server!SessionKeepsExchanges /\ Server!EveryResponseEnds)
  <1>1. Server!Init => ServerInv
    <2> SUFFICES ASSUME Server!Init PROVE ServerInv
      OBVIOUS
    <2>1. ServerTypes
      BY DEF Server!Init, ServerTypes
    <2>2. Responses
      BY DEF Server!Init, Responses, NoEnding
    <2>3. Exchanges(items) /\ OfTheAnswered
      BY DEF Server!Init, Exchanges, InOnePiece, InOnce, OfTheAnswered
    <2>4. AnsweredAreIn
      BY DEF Server!Init, AnsweredAreIn, Kept
    <2> QED
      BY <2>1, <2>2, <2>3, <2>4 DEF ServerInv
  <1>2. ServerInv /\ [Server!Next]_(Server!vars) => ServerInv'
    <2> SUFFICES ASSUME ServerInv, [Server!Next]_(Server!vars) PROVE ServerInv'
      OBVIOUS
    <2>1. CASE Server!Next
      BY <2>1, ServerStep
    <2>2. CASE UNCHANGED Server!vars
      <3>1. UNCHANGED <<handling, items, out, gone, aborted>>
        BY <2>2 DEF Server!vars
      <3> QED
        BY <3>1, ClientLeaves DEF ServerInv, ServerTypes, Leaves
    <2> QED
      BY <2>1, <2>2
  <1>3. ServerInv => Server!SessionKeepsExchanges /\ Server!EveryResponseEnds
    <2> SUFFICES ASSUME ServerInv PROVE Server!EveryResponseEnds
      BY ExchangesAreKept
    <2>1. ASSUME NEW r \in Request
          PROVE  /\ (handling[r] = "done" /\ (r \notin gone \/ KindOf[r] = "a2a"))
                      => out[r] # <<>> /\ out[r][Len(out[r])] \in Server!Ending
                 /\ \A i \in DOMAIN out[r] : out[r][i] \in Server!Ending => i = Len(out[r])
      <3>1. out[r] \in Seq(Piece) /\ DOMAIN out[r] = 1..Len(out[r]) /\ handling[r] \in {"new", "running", "answered", "done"}
        BY DEF ServerInv, ServerTypes
      <3>2. EndsOnce(out[r]) \/ NoEnding(out[r])
        BY DEF ServerInv, Responses
      <3>3. handling[r] = "done" /\ ~ Leaves(r) => EndsOnce(out[r])
        BY DEF ServerInv, Responses
      <3>4. EndsOnce(out[r]) => out[r] # <<>>
        BY <3>1 DEF EndsOnce
      <3> QED
        BY <3>1, <3>2, <3>3, <3>4 DEF EndsOnce, NoEnding, Leaves
    <2> QED
      BY <2>1 DEF Server!EveryResponseEnds
  <1> QED
    BY <1>1, <1>2, <1>3, PTL DEF Server!Spec

-----------------------------------------------------------------------------
(* The parts side by side.  A behaviour is one of the part it starts with,  *)
(* so what is proved of a part holds of it here.                            *)

LEMMA RunAlone == AgentsSpec => Spec
  <1>1. AgentsInit => Init
    BY DEF AgentsInit, Quiet
  <1>2. [AgentsNext]_state => [Next]_vars
    BY DEF AgentsNext, state
  <1> QED
    BY <1>1, <1>2, PTL DEF AgentsSpec, Spec

LEMMA ComputerAlone ==
  /\ AgentsInit /\ part = "computer" => Computer!Init
  /\ part = "computer" /\ [AgentsNext]_state => (part = "computer")' /\ [Computer!Next]_Computer!vars
  /\ ~(part = "computer") /\ [AgentsNext]_state => (~(part = "computer"))'
  BY DEF AgentsInit, AgentsNext, state, computing, Computer!vars

LEMMA CrewAlone ==
  /\ AgentsInit /\ part = "crew" => Crew!Init
  /\ part = "crew" /\ [AgentsNext]_state => (part = "crew")' /\ [Crew!Next]_Crew!vars
  /\ ~(part = "crew") /\ [AgentsNext]_state => (~(part = "crew"))'
  BY DEF AgentsInit, AgentsNext, state, crewing, Crew!vars

LEMMA ServerAlone ==
  /\ AgentsInit /\ part = "server" => Server!Init
  /\ part = "server" /\ [AgentsNext]_state => (part = "server")' /\ [Server!Next]_Server!vars
  /\ ~(part = "server") /\ [AgentsNext]_state => (~(part = "server"))'
  BY DEF AgentsInit, AgentsNext, state, serving, Server!vars

(* A run keeps its progress, its history is well formed and a call that is  *)
(* recorded is not made again, where sessions are not compacted (agent.ts). *)
THEOREM RunsStaySound ==
  ASSUME SessionsUncut
  PROVE  AgentsSpec => []RunIsSound
  BY RunAlone, RunsAreSound, PTL

(* A tool call whose answer is in a checkpoint is not made again.            *)
THEOREM RecordedIsNotRerun == AgentsSpec => RecordedNeverRerun
  BY RunAlone, RecordedStaysMade, PTL

(* A Computer's governed exports run only for requests that were judged     *)
(* (governance.ts, computer.ts).                                            *)
THEOREM NothingRunsUnjudged == AgentsSpec => []NothingUnjudged
  BY NothingIsUnjudged, ComputerAlone, PTL DEF AgentsSpec, Computer!Spec, NothingUnjudged

(* A crew that died and was run again goes through its steps once each, and *)
(* agents that trace at the same time do not drop each other's events       *)
(* (crew.ts, tracing.ts).                                                   *)
THEOREM CrewsKeepCount ==
  ASSUME CrewAssumption, FanAssumption
  PROVE  AgentsSpec => []CrewKeepsCount
  BY ChainsTakeEachStepOnce, TracesAreKept, CrewAlone, PTL DEF AgentsSpec, Crew!Spec, CrewKeepsCount

(* Behind HTTP, concurrent requests of a session keep their exchanges whole *)
(* and every client that stays gets a response that ends (server.ts).       *)
THEOREM ServersKeepWhole ==
  ASSUME ServerAssumption
  PROVE  AgentsSpec => []ServerKeepsWhole
  BY ServerKeepsItsWord, ServerAlone, PTL DEF AgentsSpec, Server!Spec, ServerKeepsWhole
=============================================================================
