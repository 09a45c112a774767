------------------------ MODULE MitsubishiCodec_proofs ------------------------
(***************************************************************************)
(* The codec on signals that need no repair, for every number and width of *)
(* bytes: what it leaves alone, what its scans find, and that the checksum *)
(* notices a flipped bit; and of any signal, that the repair ends.  The    *)
(* first section takes the place of induction: facts of sets, without an   *)
(* operator as a parameter.                                                *)
(***************************************************************************)
EXTENDS MitsubishiCodec, MitsubishiFrame_proofs, FiniteSetTheorems

(* Recursion. *)

\* A set of numbers that is not empty has a least one.
LEMMA LeastNumber ==
  ASSUME NEW T \in SUBSET Nat, T # {}
  PROVE  \E m \in T : \A k \in T : m <= k
<1> DEFINE tops == {0 .. k : k \in T}
<1>1. tops # {}
  OBVIOUS
<1>2. tops \subseteq FiniteSubsetsOf(Nat)
  <2>1. \A k \in T : IsFiniteSet(0 .. k)
    BY FS_Interval
  <2>2. QED
    BY <2>1 DEF FiniteSubsetsOf
<1>3. PICK S \in tops : \A U \in tops : <<U, S>> \notin StrictSubsetOrdering(Nat)
  <2> HIDE DEF tops
  <2>1. QED
    BY <1>1, <1>2, FS_StrictSubsetOrderingWellFounded, WFMin
<1>4. PICK m \in T : S = 0 .. m
  OBVIOUS
<1>5. ASSUME NEW k \in T, ~(m <= k) PROVE FALSE
  <2>1. 0 .. k \subseteq 0 .. m /\ 0 .. k # 0 .. m
    BY <1>5
  <2>2. <<0 .. k, 0 .. m>> \in StrictSubsetOrdering(Nat)
    BY <2>1 DEF StrictSubsetOrdering
  <2>3. QED
    BY <2>2, <1>3, <1>4
<1>6. QED
  BY <1>5

\* A set of numbers that has a bound has a greatest one.
LEMMA GreatestNumber ==
  ASSUME NEW T \in SUBSET Nat, T # {}, NEW n \in Nat, \A k \in T : k <= n
  PROVE  \E m \in T : \A k \in T : k <= m
<1> DEFINE below == {d \in Nat : \E k \in T : k + d = n}
<1>1. \A k \in T : n - k \in below
  OBVIOUS
<1>2. below \in SUBSET Nat /\ below # {}
  BY <1>1
<1>3. PICK d \in below : \A e \in below : d <= e
  <2> HIDE DEF below
  <2>1. QED
    BY <1>2, LeastNumber
<1>4. PICK m \in T : m + d = n
  OBVIOUS
<1>5. \A k \in T : d <= n - k
  BY <1>1, <1>3
<1>6. QED
  BY <1>4, <1>5

\* Among subsets of a finite set one includes no other.
LEMMA SmallestSet ==
  ASSUME NEW S, IsFiniteSet(S), NEW T \in SUBSET SUBSET S, T # {}
  PROVE  \E s \in T : \A u \in T : u \subseteq s => u = s
<1>1. FiniteSubsetsOf(S) = SUBSET S
  BY FS_FiniteSubsetsOfFinite
<1>2. PICK s \in T : \A u \in T : <<u, s>> \notin StrictSubsetOrdering(S)
  BY <1>1, FS_StrictSubsetOrderingWellFounded, WFMin
<1>3. ASSUME NEW u \in T, u \subseteq s, u # s PROVE FALSE
  BY <1>2, <1>3 DEF StrictSubsetOrdering
<1>4. QED
  BY <1>3

\* f is the loop over S that goes from x to next[x] until it is done and then
\* returns result[x].
IsLoop(f, S, Done, next, result) ==
  f = [x \in S |-> IF x \in Done THEN result[x] ELSE f[next[x]]]

\* Every loop exists, whether it ends or not.
LEMMA LoopExists ==
  ASSUME NEW S, NEW Done \in SUBSET S, NEW next, NEW result,
         \A x \in S \ Done : next[x] \in S
  PROVE  \E f : IsLoop(f, S, Done, next, result)
<1> DEFINE Closed(P) == \A x \in P : x \notin Done => next[x] \in P
           Ends(x) == {y \in Done : \A P \in SUBSET S : x \in P /\ Closed(P) => y \in P}
           f == [x \in S |-> result[CHOOSE y : y \in Ends(x)]]
<1>1. ASSUME NEW x \in Done PROVE Ends(x) = {x}
  <2>1. {x} \in SUBSET S /\ Closed({x})
    OBVIOUS
  <2>2. QED
    BY <2>1
<1>2. ASSUME NEW x \in S \ Done PROVE Ends(x) = Ends(next[x])
  <2>1. ASSUME NEW y \in Ends(next[x]), NEW P \in SUBSET S, x \in P, Closed(P)
        PROVE  y \in P
    BY <2>1
  <2>2. ASSUME NEW y \in Ends(x), NEW P \in SUBSET S, next[x] \in P, Closed(P)
        PROVE  y \in P
    <3>1. P \cup {x} \in SUBSET S /\ Closed(P \cup {x})
      BY <2>2
    <3>2. y \in P \cup {x}
      BY <3>1, <2>2
    <3>3. QED
      BY <3>2, <2>2
  <2>3. QED
    BY <2>1, <2>2
<1>3. ASSUME NEW x \in S PROVE f[x] = IF x \in Done THEN result[x] ELSE f[next[x]]
  <2>1. CASE x \in Done
    <3>1. (CHOOSE y : y \in Ends(x)) = x
      BY <1>1, <2>1
    <3>2. QED
      BY <3>1, <2>1
  <2>2. CASE x \notin Done
    <3>1. Ends(x) = Ends(next[x]) /\ next[x] \in S
      BY <1>2, <2>2
    <3> HIDE DEF Ends
    <3>2. QED
      BY <3>1, <2>2
  <2>3. QED
    BY <2>1, <2>2
<1>4. f = [x \in S |-> f[x]]
  OBVIOUS
<1>5. f = [x \in S |-> IF x \in Done THEN result[x] ELSE f[next[x]]]
  <2> HIDE DEF f
  <2>1. QED
    BY <1>3, <1>4
<1>6. QED
  <2> HIDE DEF f
  <2>1. QED
    BY <1>5 DEF IsLoop

\* f folds the subsets of S, taking the elements in the order of pick.
IsFold(f, S, base, pick, step) ==
  f = [s \in SUBSET S |-> IF s = {} THEN base ELSE step[<<pick[s], f[s \ {pick[s]}]>>]]

\* A fold over a finite set exists, in whatever order it takes the elements.
LEMMA FoldExists ==
  ASSUME NEW S, IsFiniteSet(S), NEW B, NEW base \in B,
         NEW pick, \A s \in SUBSET S : s # {} => pick[s] \in s,
         NEW step, \A x \in S, b \in B : step[<<x, b>>] \in B
  PROVE  \E f \in [SUBSET S -> B] : IsFold(f, S, base, pick, step)
<1> DEFINE value(f, s) == IF s = {} THEN base ELSE step[<<pick[s], f[s \ {pick[s]}]>>]
           solves(f, s) == f \in [SUBSET S -> B] /\ \A u \in SUBSET s : f[u] = value(f, u)
           a == [s \in SUBSET S |-> (CHOOSE f : solves(f, s))[s]]
<1>1. ASSUME NEW s \in SUBSET S, NEW f, NEW g, solves(f, s), solves(g, s)
      PROVE  f[s] = g[s]
  <2> DEFINE T == {u \in SUBSET s : f[u] # g[u]}
  <2>1. ASSUME T # {} PROVE FALSE
    <3>1. IsFiniteSet(s)
      BY FS_Subset
    <3>2. PICK u \in T : \A w \in T : w \subseteq u => w = u
      <4>1. T \in SUBSET SUBSET s
        OBVIOUS
      <4> HIDE DEF T
      <4>2. QED
        BY <2>1, <3>1, <4>1, SmallestSet
    <3>3. CASE u = {}
      BY <3>2, <3>3, <1>1
    <3>4. CASE u # {}
      <4>1. /\ pick[u] \in u /\ u \ {pick[u]} \subseteq u /\ u \ {pick[u]} # u
            /\ u \ {pick[u]} \in SUBSET s
        BY <3>4
      <4>2. f[u \ {pick[u]}] = g[u \ {pick[u]}]
        BY <4>1, <3>2
      <4>3. QED
        BY <4>2, <3>2, <3>4, <1>1
    <3>5. QED
      BY <3>3, <3>4
  <2>2. QED
    BY <2>1
<1>2. ASSUME NEW s \in SUBSET S, \A u \in SUBSET s : \E f : solves(f, u)
      PROVE  a[s] = value(a, s) /\ a[s] \in B
  <2>1. PICK f : f = (CHOOSE h : solves(h, s)) /\ solves(f, s)
    <3> HIDE DEF solves
    <3>1. \E h : solves(h, s)
      BY <1>2
    <3>2. QED
      BY <3>1
  <2>2. a[s] = f[s] /\ f[s] = value(f, s) /\ f[s] \in B
    BY <2>1
  <2>3. CASE s = {}
    BY <2>2, <2>3
  <2>4. CASE s # {}
    <3> DEFINE u == s \ {pick[s]}
    <3>1. u \in SUBSET s /\ u \in SUBSET S
      OBVIOUS
    <3>2. PICK g : g = (CHOOSE h : solves(h, u)) /\ solves(g, u)
      <4> HIDE DEF solves, u
      <4>1. \E h : solves(h, u)
        BY <3>1, <1>2
      <4>2. QED
        BY <4>1
    <3>3. solves(f, u)
      BY <2>1, <3>1
    <3>4. a[u] = g[u]
      BY <3>1, <3>2
    <3>5. f[u] = g[u]
      <4> HIDE DEF solves, u
      <4>1. QED
        BY <1>1, <3>1, <3>2, <3>3
    <3>6. QED
      BY <2>2, <2>4, <3>4, <3>5
  <2>5. QED
    BY <2>3, <2>4
<1>3. ASSUME NEW s \in SUBSET S PROVE \E f : solves(f, s)
  <2> DEFINE T == {u \in SUBSET S : ~ \E f : solves(f, u)}
  <2>1. ASSUME T # {} PROVE FALSE
    <3>1. PICK u \in T : \A w \in T : w \subseteq u => w = u
      <4>1. T \in SUBSET SUBSET S
        OBVIOUS
      <4> HIDE DEF T
      <4>2. QED
        BY <2>1, <4>1, SmallestSet
    <3>2. \A w \in SUBSET u : w # u => a[w] = value(a, w) /\ a[w] \in B
      <4>1. \A w \in SUBSET u : w # u => \A v \in SUBSET w : v \in SUBSET S /\ v \notin T
        BY <3>1
      <4>2. \A w \in SUBSET u : w # u => \A v \in SUBSET w : \E f : solves(f, v)
        <5> HIDE DEF solves
        <5>1. QED
          BY <4>1
      <4> HIDE DEF solves, a, value
      <4>3. QED
        BY <4>2, <1>2
    <3> DEFINE h == [w \in SUBSET S |-> IF w = u THEN value(a, u)
                                        ELSE IF w \in SUBSET u THEN a[w] ELSE base]
    <3>3. u # {} => pick[u] \in u /\ u \ {pick[u]} \in SUBSET u /\ u \ {pick[u]} # u
      OBVIOUS
    <3>4. value(a, u) \in B
      <4>1. CASE u = {}
        BY <4>1
      <4>2. CASE u # {}
        <5>1. a[u \ {pick[u]}] \in B /\ pick[u] \in S
          <6> HIDE DEF a, value
          <6>1. QED
            BY <4>2, <3>2, <3>3
        <5> HIDE DEF a
        <5>2. QED
          BY <4>2, <5>1
      <4>3. QED
        BY <4>1, <4>2
    <3>5. h \in [SUBSET S -> B]
      <4>1. ASSUME NEW w \in SUBSET S
            PROVE  (IF w = u THEN value(a, u) ELSE IF w \in SUBSET u THEN a[w] ELSE base) \in B
        <5> HIDE DEF value, a
        <5>1. CASE w = u
          BY <3>4, <5>1
        <5>2. CASE w # u /\ w \in SUBSET u
          BY <3>2, <5>2
        <5>3. CASE w # u /\ w \notin SUBSET u
          BY <5>3, Zenon
        <5>4. QED
          BY <5>1, <5>2, <5>3
      <4> HIDE DEF value, a
      <4>2. QED
        BY <4>1
    <3>6. ASSUME NEW w \in SUBSET u PROVE h[w] = value(h, w)
      <4>1. w # {} => /\ pick[w] \in w /\ w \ {pick[w]} \in SUBSET u
                      /\ w \ {pick[w]} # u /\ w \ {pick[w]} \in SUBSET S
        OBVIOUS
      <4>2. w # {} => h[w \ {pick[w]}] = a[w \ {pick[w]}]
        <5> HIDE DEF a, value
        <5>1. QED
          BY <4>1
      <4>3. value(h, w) = value(a, w)
        <5> HIDE DEF a, h
        <5>1. QED
          BY <4>2
      <4>4. h[w] = value(a, w)
        <5> HIDE DEF a, value
        <5>1. CASE w = u
          BY <5>1
        <5>2. CASE w # u
          <6>1. a[w] = value(a, w)
            BY <3>2, <5>2
          <6>2. w \in SUBSET S /\ h[w] = a[w]
            BY <5>2, Zenon
          <6>3. QED
            BY <6>1, <6>2
        <5>3. QED
          BY <5>1, <5>2
      <4>5. QED
        BY <4>3, <4>4
    <3>7. solves(h, u)
      BY <3>5, <3>6
    <3>8. QED
      <4> HIDE DEF solves
      <4>1. QED
        BY <3>1, <3>7
  <2>2. QED
    <3> HIDE DEF solves
    <3>1. QED
      BY <2>1
<1>4. \A s \in SUBSET S : a[s] = value(a, s) /\ a[s] \in B
  <2> HIDE DEF solves, a, value
  <2>1. QED
    BY <1>2, <1>3
<1>5. a = [s \in SUBSET S |-> a[s]]
  OBVIOUS
<1>6. a = [s \in SUBSET S |-> value(a, s)]
  <2> HIDE DEF a, value
  <2>1. QED
    BY <1>4, <1>5
<1>7. a \in [SUBSET S -> B]
  <2> HIDE DEF a, value
  <2>1. QED
    BY <1>4, <1>5
<1>8. QED
  <2> HIDE DEF a
  <2>1. QED
    BY <1>6, <1>7 DEF IsFold

-----------------------------------------------------------------------------
(* The repair. *)

\* Of two numbers one is the greater.
LEMMA MaxOfTwo ==
  ASSUME NEW m \in Nat, NEW n \in Nat
  PROVE  Max({m, n}) \in {m, n} /\ Max({m, n}) >= m /\ Max({m, n}) >= n
<1>1. \E x \in {m, n} : \A y \in {m, n} : x >= y
  OBVIOUS
<1>2. QED
  BY <1>1 DEF Max

\* The last index is the greatest.
LEMMA MaxOfIndices ==
  ASSUME NEW n \in Nat \ {0}
  PROVE  Max(1 .. n) = n
<1>1. n \in 1 .. n /\ \A y \in 1 .. n : n >= y
  OBVIOUS
<1>2. \A x \in 1 .. n : (\A y \in 1 .. n : x >= y) => x = n
  OBVIOUS
<1>3. QED
  BY <1>1, <1>2 DEF Max

\* Some indices have a greatest one.
LEMMA MaxOfSome ==
  ASSUME NEW n \in Nat, NEW s \in SUBSET (1 .. n), s # {}
  PROVE  Max(s) \in s
<1>1. s \in SUBSET Nat /\ \A k \in s : k <= n
  OBVIOUS
<1>2. PICK x \in s : \A y \in s : y <= x
  BY <1>1, GreatestNumber
<1>3. \A y \in s : x >= y
  BY <1>1, <1>2
<1>4. QED
  BY <1>3 DEF Max

\* Merging and removing leave pulses.
LEMMA ShorterPulses ==
  ASSUME NEW raw \in Seq(Int), NEW i \in 1 .. Len(raw)
  PROVE  /\ RemoveAt(raw, i) \in Seq(Int)
         /\ i # 1 /\ i # Len(raw) => MergeAt(raw, i) \in Seq(Int)
<1>1. \A m, n \in Int : m >= 1 /\ n <= Len(raw) => SubSeq(raw, m, n) \in Seq(Int)
  BY SubSeqProperties
<1>2. RemoveAt(raw, i) \in Seq(Int)
  BY <1>1, ConcatProperties DEF RemoveAt
<1>3. ASSUME i # 1, i # Len(raw) PROVE MergeAt(raw, i) \in Seq(Int)
  <2>1. raw[i - 1] \in Int /\ raw[i] \in Int /\ raw[i + 1] \in Int
    BY <1>3
  <2>2. MergedAt(raw, i) \in Int
    <3>1. \A p \in Int : duration_abs(p) \in Int
      BY DEF duration_abs
    <3>2. /\ duration_abs(raw[i - 1]) \in Int /\ duration_abs(raw[i]) \in Int
          /\ duration_abs(raw[i + 1]) \in Int
      BY <2>1, <3>1
    <3>3. QED
      BY <3>2 DEF MergedAt
  <2>3. <<IF raw[i - 1] < 0 THEN -MergedAt(raw, i) ELSE MergedAt(raw, i)>> \in Seq(Int)
    BY <2>2
  <2>4. SubSeq(raw, 1, i - 2) \in Seq(Int) /\ SubSeq(raw, i + 2, Len(raw)) \in Seq(Int)
    BY <1>1
  <2>5. QED
    BY <2>3, <2>4, ConcatProperties DEF MergeAt
<1>4. QED
  BY <1>2, <1>3

\* The first loop, unrolled once.
LEMMA RepairMarksStep ==
  ASSUME NEW raw \in Seq(Int), NEW i \in Nat \ {0, 1}
  PROVE  RepairMarks[<<raw, i>>] =
           IF i >= Len(raw) THEN raw
           ELSE IF SplitsMark(raw, i) THEN RepairMarks[<<MergeAt(raw, i), Max({i - 1, 2})>>]
           ELSE RepairMarks[<<raw, i + 1>>]
<1> DEFINE S == Seq(Int) \X (Nat \ {0, 1})
           Done == {at \in S : at[2] >= Len(at[1])}
           next == [at \in S |-> IF SplitsMark(at[1], at[2])
                                 THEN <<MergeAt(at[1], at[2]), Max({at[2] - 1, 2})>>
                                 ELSE <<at[1], at[2] + 1>>]
           result == [at \in S |-> at[1]]
           body(f, at) == IF at[2] >= Len(at[1]) THEN at[1]
                          ELSE IF SplitsMark(at[1], at[2])
                               THEN f[<<MergeAt(at[1], at[2]), Max({at[2] - 1, 2})>>]
                               ELSE f[<<at[1], at[2] + 1>>]
<1>1. ASSUME NEW at \in S \ Done PROVE next[at] \in S
  <2>1. /\ at[1] \in Seq(Int) /\ at[2] \in 1 .. Len(at[1]) /\ at[2] # 1
        /\ at[2] # Len(at[1])
    BY <1>1
  <2>2. MergeAt(at[1], at[2]) \in Seq(Int)
    BY <2>1, ShorterPulses
  <2>3. Max({at[2] - 1, 2}) \in Nat \ {0, 1}
    <3>1. at[2] - 1 \in Nat /\ 2 \in Nat
      BY <2>1
    <3>2. Max({at[2] - 1, 2}) \in {at[2] - 1, 2} /\ Max({at[2] - 1, 2}) >= 2
      BY <3>1, MaxOfTwo
    <3>3. QED
      BY <3>1, <3>2
  <2>4. QED
    BY <2>1, <2>2, <2>3
<1>2. PICK f : IsLoop(f, S, Done, next, result)
  <2> HIDE DEF S, Done, next, result
  <2>1. Done \in SUBSET S
    BY DEF Done
  <2>2. \A at \in S \ Done : next[at] \in S
    BY <1>1
  <2>3. QED
    BY <2>1, <2>2, LoopExists
<1>3. \A at \in S : (IF at \in Done THEN result[at] ELSE f[next[at]]) = body(f, at)
  OBVIOUS
<1>4. f = [at \in S |-> body(f, at)]
  <2> HIDE DEF S, Done, next, result, body
  <2>1. QED
    BY <1>2, <1>3 DEF IsLoop
<1>5. RepairMarks = CHOOSE g : g = [at \in S |-> body(g, at)]
  BY DEF RepairMarks
<1>6. RepairMarks = [at \in S |-> body(RepairMarks, at)]
  <2> HIDE DEF body, S
  <2>1. QED
    BY <1>4, <1>5
<1>7. <<raw, i>> \in S
  OBVIOUS
<1>8. RepairMarks[<<raw, i>>] = body(RepairMarks, <<raw, i>>)
  <2> HIDE DEF body, S
  <2>1. QED
    BY <1>6, <1>7
<1>9. QED
  BY <1>8

\* The second loop, unrolled once.
LEMMA RemoveGlitchesStep ==
  ASSUME NEW raw \in Seq(Int), NEW i \in Nat \ {0}
  PROVE  RemoveGlitches[<<raw, i>>] =
           IF i > Len(raw) THEN raw
           ELSE IF duration_abs(raw[i]) > GLITCH_MAX THEN RemoveGlitches[<<raw, i + 1>>]
           ELSE IF i = 1 \/ i = Len(raw)
                THEN RemoveGlitches[<<RemoveAt(raw, i), Max({i - 1, 1})>>]
           ELSE IF GlitchAt(raw, i) THEN RemoveGlitches[<<MergeAt(raw, i), Max({i - 1, 2})>>]
           ELSE RemoveGlitches[<<raw, i + 1>>]
<1> DEFINE S == Seq(Int) \X (Nat \ {0})
           Done == {at \in S : at[2] > Len(at[1])}
           next == [at \in S |->
                      IF duration_abs(at[1][at[2]]) > GLITCH_MAX THEN <<at[1], at[2] + 1>>
                      ELSE IF at[2] = 1 \/ at[2] = Len(at[1])
                           THEN <<RemoveAt(at[1], at[2]), Max({at[2] - 1, 1})>>
                      ELSE IF GlitchAt(at[1], at[2])
                           THEN <<MergeAt(at[1], at[2]), Max({at[2] - 1, 2})>>
                      ELSE <<at[1], at[2] + 1>>]
           result == [at \in S |-> at[1]]
           body(f, at) ==
             IF at[2] > Len(at[1]) THEN at[1]
             ELSE IF duration_abs(at[1][at[2]]) > GLITCH_MAX THEN f[<<at[1], at[2] + 1>>]
             ELSE IF at[2] = 1 \/ at[2] = Len(at[1])
                  THEN f[<<RemoveAt(at[1], at[2]), Max({at[2] - 1, 1})>>]
             ELSE IF GlitchAt(at[1], at[2])
                  THEN f[<<MergeAt(at[1], at[2]), Max({at[2] - 1, 2})>>]
             ELSE f[<<at[1], at[2] + 1>>]
<1>1. ASSUME NEW at \in S \ Done PROVE next[at] \in S
  <2>1. at[1] \in Seq(Int) /\ at[2] \in 1 .. Len(at[1])
    BY <1>1
  <2>2. /\ RemoveAt(at[1], at[2]) \in Seq(Int)
        /\ at[2] # 1 /\ at[2] # Len(at[1]) => MergeAt(at[1], at[2]) \in Seq(Int)
    BY <2>1, ShorterPulses
  <2>3. Max({at[2] - 1, 1}) \in Nat \ {0} /\ Max({at[2] - 1, 2}) \in Nat \ {0}
    <3>1. at[2] - 1 \in Nat /\ 1 \in Nat /\ 2 \in Nat
      BY <2>1
    <3>2. /\ Max({at[2] - 1, 1}) \in {at[2] - 1, 1} /\ Max({at[2] - 1, 1}) >= 1
          /\ Max({at[2] - 1, 2}) \in {at[2] - 1, 2} /\ Max({at[2] - 1, 2}) >= 2
      BY <3>1, MaxOfTwo
    <3>3. QED
      BY <3>1, <3>2
  <2>4. \/ next[at] = <<at[1], at[2] + 1>>
        \/ next[at] = <<RemoveAt(at[1], at[2]), Max({at[2] - 1, 1})>>
        \/ /\ at[2] # 1 /\ at[2] # Len(at[1])
           /\ next[at] = <<MergeAt(at[1], at[2]), Max({at[2] - 1, 2})>>
    BY <1>1
  <2>5. at[2] + 1 \in Nat \ {0}
    BY <2>1
  <2>6. QED
    <3> HIDE DEF next
    <3>1. CASE next[at] = <<at[1], at[2] + 1>>
      BY <3>1, <2>1, <2>5
    <3>2. CASE next[at] = <<RemoveAt(at[1], at[2]), Max({at[2] - 1, 1})>>
      BY <3>2, <2>2, <2>3
    <3>3. CASE /\ at[2] # 1 /\ at[2] # Len(at[1])
               /\ next[at] = <<MergeAt(at[1], at[2]), Max({at[2] - 1, 2})>>
      BY <3>3, <2>2, <2>3
    <3>4. QED
      BY <2>4, <3>1, <3>2, <3>3
<1>2. PICK f : IsLoop(f, S, Done, next, result)
  <2> HIDE DEF S, Done, next, result
  <2>1. Done \in SUBSET S
    BY DEF Done
  <2>2. \A at \in S \ Done : next[at] \in S
    BY <1>1
  <2>3. QED
    BY <2>1, <2>2, LoopExists
<1>3. \A at \in S : (IF at \in Done THEN result[at] ELSE f[next[at]]) = body(f, at)
  OBVIOUS
<1>4. f = [at \in S |-> body(f, at)]
  <2> HIDE DEF S, Done, next, result, body
  <2>1. QED
    BY <1>2, <1>3 DEF IsLoop
<1>5. RemoveGlitches = CHOOSE g : g = [at \in S |-> body(g, at)]
  BY DEF RemoveGlitches
<1>6. RemoveGlitches = [at \in S |-> body(RemoveGlitches, at)]
  <2> HIDE DEF body, S
  <2>1. QED
    BY <1>4, <1>5
<1>7. <<raw, i>> \in S
  OBVIOUS
<1>8. RemoveGlitches[<<raw, i>>] = body(RemoveGlitches, <<raw, i>>)
  <2> HIDE DEF body, S
  <2>1. QED
    BY <1>6, <1>7
<1>9. QED
  BY <1>8

\* What is left of out when pulse comes next.
Compacted(out, pulse) ==
  IF pulse = 0 THEN out
  ELSE IF out # <<>> /\ same_polarity(Last(out), pulse)
       THEN Append(Front(out), Last(out) + pulse)
       ELSE Append(out, pulse)

\* Pulses stay pulses.
LEMMA CompactedType ==
  ASSUME NEW out \in Seq(Int), NEW pulse \in Int
  PROVE  Compacted(out, pulse) \in Seq(Int)
<1>1. CASE out # <<>>
  <2>1. Len(out) \in Nat \ {0}
    BY <1>1, EmptySeq
  <2>2. Front(out) \in Seq(Int)
    BY <2>1, SubSeqProperties DEF Front
  <2>3. Last(out) \in Int
    BY <2>1 DEF Last
  <2>4. QED
    BY <2>2, <2>3, AppendProperties DEF Compacted
<1>2. CASE out = <<>>
  BY <1>2, AppendProperties DEF Compacted
<1>3. QED
  BY <1>1, <1>2

\* compact_adjacent_levels takes one pulse after the other.
LEMMA CompactSteps ==
  ASSUME NEW raw \in Seq(Int)
  PROVE  \E out : /\ out[0] = <<>>
                  /\ \A i \in 1 .. Len(raw) : out[i] = Compacted(out[i - 1], raw[i])
                  /\ out[Len(raw)] = compact_adjacent_levels(raw)
<1> DEFINE S == DOMAIN raw
           pick == [s \in SUBSET S |-> Max(s)]
           step == [at \in S \X Seq(Int) |-> Compacted(at[2], raw[at[1]])]
           body(f, s) == IF s = {} THEN <<>> ELSE Compacted(f[s \ {Max(s)}], raw[Max(s)])
           iter == CHOOSE f : f = [s \in SUBSET S |-> body(f, s)]
<1>1. S = 1 .. Len(raw) /\ Len(raw) \in Nat /\ IsFiniteSet(S)
  BY FS_Interval
<1>2. compact_adjacent_levels(raw) = iter[S]
  BY DEF compact_adjacent_levels, FoldLeft, MapThenFoldSet, Compacted
<1>3. \A s \in SUBSET S : s # {} => Max(s) \in s
  BY <1>1, MaxOfSome
<1>4. \A x \in S, out \in Seq(Int) : step[<<x, out>>] \in Seq(Int)
  <2> SUFFICES ASSUME NEW x \in S, NEW out \in Seq(Int) PROVE step[<<x, out>>] \in Seq(Int)
    OBVIOUS
  <2>1. step[<<x, out>>] = Compacted(out, raw[x]) /\ raw[x] \in Int
    OBVIOUS
  <2> HIDE DEF step
  <2>2. QED
    BY <2>1, CompactedType
<1>5. PICK f \in [SUBSET S -> Seq(Int)] : IsFold(f, S, <<>>, pick, step)
  <2>1. \A s \in SUBSET S : s # {} => pick[s] \in s
    BY <1>3
  <2>2. <<>> \in Seq(Int)
    OBVIOUS
  <2> HIDE DEF S, pick, step
  <2>3. QED
    BY <1>1, <1>4, <2>1, <2>2, FoldExists
<1>6. \A s \in SUBSET S :
        (IF s = {} THEN <<>> ELSE step[<<pick[s], f[s \ {pick[s]}]>>]) = body(f, s)
  <2> SUFFICES ASSUME NEW s \in SUBSET S, s # {}
               PROVE  step[<<pick[s], f[s \ {pick[s]}]>>] = body(f, s)
    OBVIOUS
  <2>1. pick[s] = Max(s) /\ Max(s) \in S /\ s \ {Max(s)} \in SUBSET S
    BY <1>3
  <2>2. f[s \ {Max(s)}] \in Seq(Int)
    BY <2>1
  <2>3. QED
    BY <2>1, <2>2
<1>7. f = [s \in SUBSET S |-> body(f, s)]
  <2> HIDE DEF S, pick, step, body
  <2>1. QED
    BY <1>5, <1>6 DEF IsFold
<1>8. iter = [s \in SUBSET S |-> body(iter, s)]
  <2> HIDE DEF S, body
  <2>1. QED
    BY <1>7
<1>9. \A s \in SUBSET S : iter[s] = body(iter, s)
  <2> HIDE DEF S, body, iter
  <2>1. QED
    BY <1>8
<1> DEFINE out == [i \in 0 .. Len(raw) |-> iter[1 .. i]]
<1>10. out[0] = <<>>
  <2>1. 1 .. 0 = {} /\ {} \in SUBSET S /\ 0 \in 0 .. Len(raw)
    BY <1>1
  <2> HIDE DEF S, iter
  <2>2. QED
    BY <2>1, <1>9
<1>11. ASSUME NEW i \in 1 .. Len(raw) PROVE out[i] = Compacted(out[i - 1], raw[i])
  <2>1. /\ 1 .. i # {} /\ 1 .. i \in SUBSET S /\ Max(1 .. i) = i
        /\ (1 .. i) \ {i} = 1 .. (i - 1) /\ i - 1 \in 0 .. Len(raw) /\ i \in 0 .. Len(raw)
    <3>1. i \in Nat \ {0} /\ i \in 1 .. i
      BY <1>1
    <3>2. Max(1 .. i) = i
      BY <3>1, MaxOfIndices
    <3>3. 1 .. i \in SUBSET S /\ i - 1 \in 0 .. Len(raw) /\ i \in 0 .. Len(raw)
      BY <1>1
    <3>4. (1 .. i) \ {i} = 1 .. (i - 1)
      BY <3>1
    <3>5. QED
      BY <3>1, <3>2, <3>3, <3>4
  <2> HIDE DEF S, iter
  <2>2. iter[1 .. i] = Compacted(iter[1 .. (i - 1)], raw[i])
    BY <2>1, <1>9
  <2>3. QED
    BY <2>1, <2>2
<1>12. out[Len(raw)] = compact_adjacent_levels(raw)
  <2> HIDE DEF iter
  <2>1. QED
    BY <1>1, <1>2
<1>13. QED
  <2> HIDE DEF out
  <2>1. QED
    BY <1>10, <1>11, <1>12

\* Pulses with nothing to repair: none is short, and marks and spaces alternate.
Clean(raw) ==
  /\ raw \in Seq(Int)
  /\ \A i \in 1 .. Len(raw) : duration_abs(raw[i]) > GLITCH_MAX
  /\ \A i \in 2 .. Len(raw) : ~same_polarity(raw[i - 1], raw[i])

\* There is nothing to compact, ...
LEMMA CleanIsCompact ==
  ASSUME NEW raw, Clean(raw)
  PROVE  compact_adjacent_levels(raw) = raw
<1>1. raw \in Seq(Int) /\ Len(raw) \in Nat
  BY DEF Clean
<1>2. PICK out : /\ out[0] = <<>>
                 /\ \A i \in 1 .. Len(raw) : out[i] = Compacted(out[i - 1], raw[i])
                 /\ out[Len(raw)] = compact_adjacent_levels(raw)
  BY <1>1, CompactSteps
<1> DEFINE T == {i \in 0 .. Len(raw) : out[i] # SubSeq(raw, 1, i)}
<1>3. ASSUME T # {} PROVE FALSE
  <2>1. PICK i \in T : \A k \in T : i <= k
    <3>1. T \in SUBSET Nat
      OBVIOUS
    <3> HIDE DEF T
    <3>2. QED
      BY <3>1, <1>3, LeastNumber
  <2>2. i # 0
    <3>1. SubSeq(raw, 1, 0) = <<>>
      BY <1>1, SubSeqProperties, EmptySeq
    <3>2. QED
      BY <3>1, <2>1, <1>2
  <2>3. i \in 1 .. Len(raw) /\ out[i - 1] = SubSeq(raw, 1, i - 1)
    BY <2>1, <2>2, <1>1
  <2> DEFINE before == SubSeq(raw, 1, i - 1)
  <2>4. /\ before \in Seq(Int) /\ Len(before) = i - 1
        /\ i # 1 => before[i - 1] = raw[i - 1]
    BY <2>3, <1>1, SubSeqProperties
  <2>5. raw[i] \in Int /\ raw[i] # 0
    BY <2>3, <1>1 DEF Clean, duration_abs, GLITCH_MAX
  <2>6. before # <<>> => ~same_polarity(Last(before), raw[i])
    <3>1. ASSUME before # <<>> PROVE i \in 2 .. Len(raw) /\ Last(before) = raw[i - 1]
      BY <3>1, <2>3, <2>4, EmptySeq DEF Last
    <3>2. QED
      BY <3>1 DEF Clean
  <2>7. out[i] = Append(before, raw[i])
    BY <2>3, <2>5, <2>6, <1>2 DEF Compacted
  <2>8. Append(before, raw[i]) = SubSeq(raw, 1, i)
    BY <2>3, <1>1, SubSeqProperties, AppendProperties
  <2>9. QED
    BY <2>1, <2>7, <2>8
<1>4. out[Len(raw)] = SubSeq(raw, 1, Len(raw))
  BY <1>1, <1>3
<1>5. SubSeq(raw, 1, Len(raw)) = raw
  BY <1>1, SubSeqProperties
<1>6. QED
  BY <1>2, <1>4, <1>5

\* ... nothing to repair in a mark, ...
LEMMA CleanNeedsNoRepair ==
  ASSUME NEW raw, Clean(raw), NEW i \in Nat \ {0, 1}
  PROVE  RepairMarks[<<raw, i>>] = raw
<1>1. raw \in Seq(Int) /\ Len(raw) \in Nat
  BY DEF Clean
<1> DEFINE Changed == {k \in Nat \ {0, 1} : RepairMarks[<<raw, k>>] # raw}
<1>2. ASSUME NEW k \in Nat \ {0, 1}, k >= Len(raw) PROVE k \notin Changed
  BY <1>1, <1>2, RepairMarksStep
<1>3. ASSUME NEW k \in Changed PROVE k + 1 \in Changed
  <2>1. k \in 2 .. Len(raw) - 1
    BY <1>1, <1>2
  <2>2. ~SplitsMark(raw, k)
    <3>1. k \in 1 .. Len(raw)
      BY <2>1, <1>1
    <3>2. raw[k] \in Int /\ duration_abs(raw[k]) > GLITCH_MAX
      BY <3>1, <1>1 DEF Clean
    <3>3. QED
      BY <3>2 DEF SplitsMark, duration_abs, GLITCH_MAX
  <2>3. RepairMarks[<<raw, k>>] = RepairMarks[<<raw, k + 1>>]
    BY <2>1, <2>2, <1>1, RepairMarksStep
  <2>4. QED
    BY <2>1, <2>3
<1>4. ASSUME Changed # {} PROVE FALSE
  <2>1. Changed \in SUBSET Nat /\ \A k \in Changed : k <= Len(raw)
    BY <1>1, <1>2
  <2> HIDE DEF Changed
  <2>2. PICK m \in Changed : \A k \in Changed : k <= m
    BY <2>1, <1>1, <1>4, GreatestNumber
  <2>3. QED
    BY <2>1, <2>2, <1>3
<1>5. QED
  BY <1>4

\* ... and no glitch to remove.
LEMMA CleanHasNoGlitch ==
  ASSUME NEW raw, Clean(raw), NEW i \in Nat \ {0}
  PROVE  RemoveGlitches[<<raw, i>>] = raw
<1>1. raw \in Seq(Int) /\ Len(raw) \in Nat
  BY DEF Clean
<1> DEFINE Changed == {k \in Nat \ {0} : RemoveGlitches[<<raw, k>>] # raw}
<1>2. ASSUME NEW k \in Nat \ {0}, k > Len(raw) PROVE k \notin Changed
  BY <1>1, <1>2, RemoveGlitchesStep
<1>3. ASSUME NEW k \in Changed PROVE k + 1 \in Changed
  <2>1. k \in 1 .. Len(raw)
    BY <1>1, <1>2
  <2>2. duration_abs(raw[k]) > GLITCH_MAX
    BY <2>1 DEF Clean
  <2>3. RemoveGlitches[<<raw, k>>] = RemoveGlitches[<<raw, k + 1>>]
    BY <2>1, <2>2, <1>1, RemoveGlitchesStep
  <2>4. QED
    BY <2>1, <2>3
<1>4. ASSUME Changed # {} PROVE FALSE
  <2>1. Changed \in SUBSET Nat /\ \A k \in Changed : k <= Len(raw)
    BY <1>1, <1>2
  <2> HIDE DEF Changed
  <2>2. PICK m \in Changed : \A k \in Changed : k <= m
    BY <2>1, <1>1, <1>4, GreatestNumber
  <2>3. QED
    BY <2>1, <2>2, <1>3
<1>5. QED
  BY <1>4

\* Pulses that are long enough and alternate go through sanitize_glitches as they are,
\* however many they are: the repair does no harm where there is none.
THEOREM CleanStaysAsItIs ==
  ASSUME NEW raw, Clean(raw)
  PROVE  sanitize_glitches(raw) = raw
<1>1. RepairMarks[<<raw, 2>>] = raw /\ RemoveGlitches[<<raw, 1>>] = raw
  BY CleanNeedsNoRepair, CleanHasNoGlitch
<1>2. QED
  BY <1>1, CleanIsCompact DEF sanitize_glitches

\* Merging takes two pulses away and removing one.
LEMMA FewerPulses ==
  ASSUME NEW raw \in Seq(Int), NEW i \in 1 .. Len(raw)
  PROVE  /\ Len(RemoveAt(raw, i)) = Len(raw) - 1
         /\ i # 1 /\ i # Len(raw) => Len(MergeAt(raw, i)) = Len(raw) - 2
<1>1. Len(raw) \in Nat
  OBVIOUS
<1>2. ASSUME NEW m \in Nat, m <= Len(raw)
      PROVE  SubSeq(raw, 1, m) \in Seq(Int) /\ Len(SubSeq(raw, 1, m)) = m
  BY <1>1, <1>2, SubSeqProperties
<1>3. ASSUME NEW m \in 1 .. Len(raw) + 1
      PROVE  /\ SubSeq(raw, m, Len(raw)) \in Seq(Int)
             /\ Len(SubSeq(raw, m, Len(raw))) = Len(raw) - m + 1
  BY <1>1, SubSeqProperties
<1>4. Len(RemoveAt(raw, i)) = Len(raw) - 1
  <2> DEFINE s == SubSeq(raw, 1, i - 1)
             t == SubSeq(raw, i + 1, Len(raw))
  <2>1. i - 1 \in Nat /\ i - 1 <= Len(raw) /\ i + 1 \in 1 .. Len(raw) + 1
    BY <1>1
  <2>2. s \in Seq(Int) /\ Len(s) = i - 1
    BY <1>2, <2>1
  <2>3. t \in Seq(Int) /\ Len(t) = Len(raw) - i
    BY <1>1, <1>3, <2>1
  <2>4. RemoveAt(raw, i) = s \o t
    BY DEF RemoveAt
  <2> HIDE DEF s, t
  <2>5. Len(s \o t) = Len(s) + Len(t)
    BY <2>2, <2>3, Concatenation
  <2>6. QED
    BY <1>1, <2>2, <2>3, <2>4, <2>5
<1>5. ASSUME i # 1, i # Len(raw) PROVE Len(MergeAt(raw, i)) = Len(raw) - 2
  <2> DEFINE s == SubSeq(raw, 1, i - 2)
             p == IF raw[i - 1] < 0 THEN -MergedAt(raw, i) ELSE MergedAt(raw, i)
             t == SubSeq(raw, i + 2, Len(raw))
  <2>1. i - 2 \in Nat /\ i - 2 <= Len(raw) /\ i + 2 \in 1 .. Len(raw) + 1
    BY <1>1, <1>5
  <2>2. s \in Seq(Int) /\ Len(s) = i - 2
    BY <1>2, <2>1
  <2>3. t \in Seq(Int) /\ Len(t) = Len(raw) - i - 1
    BY <1>1, <1>3, <2>1
  <2>4. p \in Int
    <3>1. \A q \in Int : duration_abs(q) \in Int
      BY DEF duration_abs
    <3>2. raw[i - 1] \in Int /\ raw[i] \in Int /\ raw[i + 1] \in Int
      BY <1>1, <1>5
    <3>3. /\ duration_abs(raw[i - 1]) \in Int /\ duration_abs(raw[i]) \in Int
          /\ duration_abs(raw[i + 1]) \in Int
      BY <3>1, <3>2
    <3>4. MergedAt(raw, i) \in Int
      BY <3>3 DEF MergedAt
    <3>5. QED
      BY <3>4
  <2>5. MergeAt(raw, i) = (s \o <<p>>) \o t
    BY DEF MergeAt
  <2> HIDE DEF s, p, t
  <2>6. <<p>> \in Seq(Int) /\ Len(<<p>>) = 1
    BY <2>4
  <2>7. s \o <<p>> \in Seq(Int) /\ Len(s \o <<p>>) = Len(s) + 1
    BY <2>2, <2>6, Concatenation
  <2> DEFINE u == s \o <<p>>
  <2>8. u \in Seq(Int) /\ Len(u) = Len(s) + 1 /\ MergeAt(raw, i) = u \o t
    BY <2>5, <2>7
  <2> HIDE DEF u
  <2>9. Len(u \o t) = Len(u) + Len(t)
    BY <2>3, <2>8, Concatenation
  <2>10. QED
    BY <1>1, <2>2, <2>3, <2>8, <2>9
<1>6. QED
  BY <1>4, <1>5

\* out is made of raw: pulses, and no more of them.
MadeOf(out, raw) == out \in Seq(Int) /\ Len(out) <= Len(raw)

\* A loop ends when each step of it that does not return its pulses either goes on in
\* them or takes some away.
LEMMA LoopEnds ==
  ASSUME NEW f, NEW Indices \in SUBSET Nat,
         \A p \in Seq(Int), k \in Indices :
           \/ f[<<p, k>>] = p
           \/ /\ k <= Len(p)
              /\ \E q \in Seq(Int), l \in Indices :
                   /\ f[<<p, k>>] = f[<<q, l>>]
                   /\ Len(q) <= Len(p) /\ 2 * Len(q) - l < 2 * Len(p) - k
  PROVE  \A p \in Seq(Int), k \in Indices : MadeOf(f[<<p, k>>], p)
<1> DEFINE ends(p, k) == MadeOf(f[<<p, k>>], p)
           T == {m \in Nat : \E p \in Seq(Int), k \in Indices :
                               m = 2 * Len(p) - k /\ ~ends(p, k)}
<1>1. \A p \in Seq(Int) : Len(p) \in Nat
  OBVIOUS
<1>2. ASSUME NEW p \in Seq(Int), NEW k \in Indices, ~ends(p, k)
      PROVE  /\ 2 * Len(p) - k \in T
             /\ \E q \in Seq(Int), l \in Indices :
                  2 * Len(q) - l < 2 * Len(p) - k /\ ~ends(q, l)
  <2>1. Len(p) \in Nat /\ k \in Nat
    BY <1>1
  <2>2. f[<<p, k>>] # p
    BY <1>2, <2>1 DEF MadeOf
  <2>3. k <= Len(p)
    BY <2>2
  <2>4. PICK q \in Seq(Int), l \in Indices :
          /\ f[<<p, k>>] = f[<<q, l>>]
          /\ Len(q) <= Len(p) /\ 2 * Len(q) - l < 2 * Len(p) - k
    BY <2>2
  <2>5. Len(q) \in Nat
    BY <1>1
  <2>6. ~ends(q, l)
    BY <1>2, <2>1, <2>4, <2>5 DEF MadeOf
  <2>7. 2 * Len(p) - k \in Nat
    BY <2>1, <2>3
  <2> HIDE DEF ends
  <2>8. QED
    BY <1>2, <2>4, <2>6, <2>7
<1>3. ASSUME NEW m \in T PROVE \E l \in T : l < m
  <2> HIDE DEF ends
  <2>1. PICK p \in Seq(Int), k \in Indices : m = 2 * Len(p) - k /\ ~ends(p, k)
    OBVIOUS
  <2>2. PICK q \in Seq(Int), l \in Indices : 2 * Len(q) - l < m /\ ~ends(q, l)
    BY <1>2, <2>1
  <2>3. 2 * Len(q) - l \in T
    BY <1>2, <2>2
  <2>4. QED
    BY <2>2, <2>3
<1>4. T \in SUBSET Nat
  OBVIOUS
<1>5. ASSUME T # {} PROVE FALSE
  <2> HIDE DEF T
  <2>1. PICK m \in T : \A l \in T : m <= l
    BY <1>4, <1>5, LeastNumber
  <2>2. QED
    BY <1>3, <1>4, <2>1
<1>6. QED
  <2> HIDE DEF T
  <2>1. QED
    BY <1>2, <1>5

\* The first loop ends, ...
LEMMA RepairMarksEnds ==
  ASSUME NEW raw \in Seq(Int), NEW i \in Nat \ {0, 1}
  PROVE  MadeOf(RepairMarks[<<raw, i>>], raw)
<1>1. ASSUME NEW p \in Seq(Int), NEW k \in Nat \ {0, 1}, ~(k >= Len(p))
      PROVE  \E q \in Seq(Int), l \in Nat \ {0, 1} :
               /\ RepairMarks[<<p, k>>] = RepairMarks[<<q, l>>]
               /\ Len(q) <= Len(p) /\ 2 * Len(q) - l < 2 * Len(p) - k
  <2>1. Len(p) \in Nat /\ k \in 1 .. Len(p) /\ k # 1 /\ k # Len(p)
    BY <1>1
  <2>2. CASE SplitsMark(p, k)
    <3>1. MergeAt(p, k) \in Seq(Int) /\ Len(MergeAt(p, k)) = Len(p) - 2
      BY <2>1, ShorterPulses, FewerPulses
    <3>2. k - 1 \in Nat /\ 2 \in Nat
      BY <2>1
    <3>3. /\ Max({k - 1, 2}) \in {k - 1, 2} /\ Max({k - 1, 2}) >= 2
          /\ Max({k - 1, 2}) >= k - 1
      BY <3>2, MaxOfTwo
    <3>4. RepairMarks[<<p, k>>] = RepairMarks[<<MergeAt(p, k), Max({k - 1, 2})>>]
      BY <1>1, <2>2, RepairMarksStep
    <3>5. PICK l \in Nat \ {0, 1} : l = Max({k - 1, 2}) /\ l >= k - 1
      BY <3>2, <3>3
    <3>6. Len(MergeAt(p, k)) <= Len(p) /\ 2 * Len(MergeAt(p, k)) - l < 2 * Len(p) - k
      BY <2>1, <3>1, <3>5
    <3>7. QED
      BY <3>1, <3>4, <3>5, <3>6
  <2>3. CASE ~SplitsMark(p, k)
    <3>1. RepairMarks[<<p, k>>] = RepairMarks[<<p, k + 1>>]
      BY <1>1, <2>3, RepairMarksStep
    <3>2. k + 1 \in Nat \ {0, 1} /\ Len(p) <= Len(p) /\ 2 * Len(p) - (k + 1) < 2 * Len(p) - k
      BY <2>1
    <3>3. QED
      BY <3>1, <3>2
  <2>4. QED
    BY <2>2, <2>3
<1>2. \A p \in Seq(Int), k \in Nat \ {0, 1} : k >= Len(p) => RepairMarks[<<p, k>>] = p
  BY RepairMarksStep
<1>3. \A p \in Seq(Int), k \in Nat \ {0, 1} : ~(k >= Len(p)) => k <= Len(p)
  <2>1. \A p \in Seq(Int) : Len(p) \in Nat
    OBVIOUS
  <2>2. QED
    BY <2>1
<1>4. Nat \ {0, 1} \in SUBSET Nat
  OBVIOUS
<1>5. QED
  <2> DEFINE Indices == Nat \ {0, 1}
  <2>1. \A p \in Seq(Int), k \in Indices :
           \/ RepairMarks[<<p, k>>] = p
           \/ /\ k <= Len(p)
              /\ \E q \in Seq(Int), l \in Indices :
                   /\ RepairMarks[<<p, k>>] = RepairMarks[<<q, l>>]
                   /\ Len(q) <= Len(p) /\ 2 * Len(q) - l < 2 * Len(p) - k
    BY <1>1, <1>2, <1>3
  <2>2. Indices \in SUBSET Nat /\ i \in Indices
    OBVIOUS
  <2> HIDE DEF Indices
  <2>3. \A p \in Seq(Int), k \in Indices : MadeOf(RepairMarks[<<p, k>>], p)
    BY <2>1, <2>2, LoopEnds
  <2>4. QED
    BY <2>2, <2>3

\* ... the second loop ends, ...
LEMMA RemoveGlitchesEnds ==
  ASSUME NEW raw \in Seq(Int), NEW i \in Nat \ {0}
  PROVE  MadeOf(RemoveGlitches[<<raw, i>>], raw)
<1>1. ASSUME NEW p \in Seq(Int), NEW k \in Nat \ {0}, ~(k > Len(p))
      PROVE  \E q \in Seq(Int), l \in Nat \ {0} :
               /\ RemoveGlitches[<<p, k>>] = RemoveGlitches[<<q, l>>]
               /\ Len(q) <= Len(p) /\ 2 * Len(q) - l < 2 * Len(p) - k
  <2>1. Len(p) \in Nat /\ k \in 1 .. Len(p) /\ k - 1 \in Nat /\ 1 \in Nat /\ 2 \in Nat
    BY <1>1
  <2>2. /\ Max({k - 1, 1}) \in {k - 1, 1} /\ Max({k - 1, 1}) >= 1 /\ Max({k - 1, 1}) >= k - 1
        /\ Max({k - 1, 2}) \in {k - 1, 2} /\ Max({k - 1, 2}) >= 2 /\ Max({k - 1, 2}) >= k - 1
    BY <2>1, MaxOfTwo
  <2> DEFINE on == RemoveGlitches[<<p, k>>] = RemoveGlitches[<<p, k + 1>>]
             removed == /\ RemoveGlitches[<<p, k>>]
                             = RemoveGlitches[<<RemoveAt(p, k), Max({k - 1, 1})>>]
             merged == /\ k # 1 /\ k # Len(p)
                       /\ RemoveGlitches[<<p, k>>]
                            = RemoveGlitches[<<MergeAt(p, k), Max({k - 1, 2})>>]
  <2>3. on \/ removed \/ merged
    <3>1. RemoveGlitches[<<p, k>>] =
            IF k > Len(p) THEN p
            ELSE IF duration_abs(p[k]) > GLITCH_MAX THEN RemoveGlitches[<<p, k + 1>>]
            ELSE IF k = 1 \/ k = Len(p)
                 THEN RemoveGlitches[<<RemoveAt(p, k), Max({k - 1, 1})>>]
            ELSE IF GlitchAt(p, k) THEN RemoveGlitches[<<MergeAt(p, k), Max({k - 1, 2})>>]
            ELSE RemoveGlitches[<<p, k + 1>>]
      BY RemoveGlitchesStep
    <3>2. QED
      BY <1>1, <3>1
  <2>4. CASE on
    <3>1. k + 1 \in Nat \ {0} /\ Len(p) <= Len(p) /\ 2 * Len(p) - (k + 1) < 2 * Len(p) - k
      BY <2>1
    <3>2. QED
      BY <2>4, <3>1
  <2>5. CASE removed
    <3>1. RemoveAt(p, k) \in Seq(Int) /\ Len(RemoveAt(p, k)) = Len(p) - 1
      BY <2>1, ShorterPulses, FewerPulses
    <3>2. PICK l \in Nat \ {0} : l = Max({k - 1, 1}) /\ l >= k - 1
      BY <2>1, <2>2
    <3>3. Len(RemoveAt(p, k)) <= Len(p) /\ 2 * Len(RemoveAt(p, k)) - l < 2 * Len(p) - k
      BY <2>1, <3>1, <3>2
    <3>4. QED
      BY <2>5, <3>1, <3>2, <3>3
  <2>6. CASE merged
    <3>1. MergeAt(p, k) \in Seq(Int) /\ Len(MergeAt(p, k)) = Len(p) - 2
      BY <2>1, <2>6, ShorterPulses, FewerPulses
    <3>2. PICK l \in Nat \ {0} : l = Max({k - 1, 2}) /\ l >= k - 1
      BY <2>1, <2>2
    <3>3. Len(MergeAt(p, k)) <= Len(p) /\ 2 * Len(MergeAt(p, k)) - l < 2 * Len(p) - k
      BY <2>1, <3>1, <3>2
    <3>4. QED
      BY <2>6, <3>1, <3>2, <3>3
  <2>7. QED
    <3> HIDE DEF on, removed, merged
    <3>1. QED
      BY <2>3, <2>4, <2>5, <2>6
<1>2. \A p \in Seq(Int), k \in Nat \ {0} : k > Len(p) => RemoveGlitches[<<p, k>>] = p
  BY RemoveGlitchesStep
<1>3. \A p \in Seq(Int), k \in Nat \ {0} : ~(k > Len(p)) => k <= Len(p)
  <2>1. \A p \in Seq(Int) : Len(p) \in Nat
    OBVIOUS
  <2>2. QED
    BY <2>1
<1>4. QED
  <2> DEFINE Indices == Nat \ {0}
  <2>1. \A p \in Seq(Int), k \in Indices :
           \/ RemoveGlitches[<<p, k>>] = p
           \/ /\ k <= Len(p)
              /\ \E q \in Seq(Int), l \in Indices :
                   /\ RemoveGlitches[<<p, k>>] = RemoveGlitches[<<q, l>>]
                   /\ Len(q) <= Len(p) /\ 2 * Len(q) - l < 2 * Len(p) - k
    BY <1>1, <1>2, <1>3
  <2>2. Indices \in SUBSET Nat /\ i \in Indices
    OBVIOUS
  <2> HIDE DEF Indices
  <2>3. \A p \in Seq(Int), k \in Indices : MadeOf(RemoveGlitches[<<p, k>>], p)
    BY <2>1, <2>2, LoopEnds
  <2>4. QED
    BY <2>2, <2>3

\* Pulses but for the last, and the last.
LEMMA FrontAndLast ==
  ASSUME NEW s \in Seq(Int), s # <<>>
  PROVE  Front(s) \in Seq(Int) /\ Len(Front(s)) = Len(s) - 1 /\ Last(s) \in Int
<1>1. Len(s) \in Nat \ {0}
  BY EmptySeq
<1>2. Len(s) \in 1 .. Len(s) /\ Len(s) - 1 \in Nat /\ Len(s) - 1 <= Len(s)
  BY <1>1
<1>3. SubSeq(s, 1, Len(s) - 1) \in Seq(Int) /\ Len(SubSeq(s, 1, Len(s) - 1)) = Len(s) - 1
  <2>1. ASSUME NEW m \in Nat, m <= Len(s)
        PROVE  SubSeq(s, 1, m) \in Seq(Int) /\ Len(SubSeq(s, 1, m)) = m
    BY <1>1, <2>1, SubSeqProperties
  <2>2. QED
    BY <1>2, <2>1
<1>4. QED
  BY <1>2, <1>3 DEF Front, Last

\* ... and compacting adds no pulse.
LEMMA CompactEnds ==
  ASSUME NEW raw \in Seq(Int)
  PROVE  MadeOf(compact_adjacent_levels(raw), raw)
<1>1. Len(raw) \in Nat
  OBVIOUS
<1>2. PICK out : /\ out[0] = <<>>
                 /\ \A i \in 1 .. Len(raw) : out[i] = Compacted(out[i - 1], raw[i])
                 /\ out[Len(raw)] = compact_adjacent_levels(raw)
  BY CompactSteps
<1> DEFINE good(i) == out[i] \in Seq(Int) /\ Len(out[i]) <= i
           T == {i \in 0 .. Len(raw) : ~good(i)}
<1>3. good(0)
  BY <1>2
<1>4. ASSUME NEW i \in 1 .. Len(raw), good(i - 1) PROVE good(i)
  <2>1. PICK s \in Seq(Int) : s = out[i - 1] /\ Len(s) <= i - 1
    BY <1>4
  <2>2. PICK p \in Int : p = raw[i]
    BY <1>1
  <2>3. out[i] = Compacted(s, p)
    BY <1>2, <2>1, <2>2
  <2>4. Compacted(s, p) \in Seq(Int)
    BY CompactedType
  <2>5. Len(Compacted(s, p)) <= Len(s) + 1
    <3>1. Len(s) \in Nat /\ \A q \in Int : Len(Append(s, q)) = Len(s) + 1
      BY AppendProperties
    <3>2. ASSUME s # <<>> PROVE Len(Append(Front(s), Last(s) + p)) <= Len(s) + 1
      <4>1. Front(s) \in Seq(Int) /\ Len(Front(s)) = Len(s) - 1 /\ Last(s) \in Int
        BY <3>2, FrontAndLast
      <4>2. Len(s) \in Nat /\ Last(s) + p \in Int
        BY <4>1
      <4>3. Len(Append(Front(s), Last(s) + p)) = Len(Front(s)) + 1
        BY <4>1, <4>2, AppendProperties
      <4>4. QED
        BY <4>1, <4>2, <4>3
    <3>3. QED
      BY <3>1, <3>2 DEF Compacted
  <2>6. Len(s) \in Nat /\ Len(Compacted(s, p)) \in Nat
    BY <2>4
  <2>7. QED
    BY <2>1, <2>3, <2>4, <2>5, <2>6
<1>5. ASSUME T # {} PROVE FALSE
  <2> HIDE DEF good
  <2>1. PICK i \in T : \A j \in T : i <= j
    <3>1. T \in SUBSET Nat
      BY <1>1
    <3> HIDE DEF T
    <3>2. QED
      BY <1>5, <3>1, LeastNumber
  <2>2. i \in 1 .. Len(raw) /\ ~good(i) /\ i - 1 \in 0 .. Len(raw) /\ ~(i <= i - 1)
    BY <1>1, <1>3, <2>1
  <2>3. good(i - 1)
    BY <2>1, <2>2
  <2>4. QED
    BY <1>4, <2>2, <2>3
<1>6. good(Len(raw))
  <2> HIDE DEF good
  <2>1. QED
    BY <1>1, <1>5
<1>7. QED
  BY <1>2, <1>6 DEF MadeOf

\* Whatever the pulses, and however many glitches are among them, the loops of
\* sanitize_glitches that step back after each change end, and leave no more pulses
\* than there were.
THEOREM RepairEnds ==
  ASSUME NEW raw \in Seq(Int)
  PROVE  sanitize_glitches(raw) \in Seq(Int) /\ Len(sanitize_glitches(raw)) <= Len(raw)
<1> DEFINE a == compact_adjacent_levels(raw)
           b == RepairMarks[<<a, 2>>]
           c == compact_adjacent_levels(b)
           d == RemoveGlitches[<<c, 1>>]
           e == compact_adjacent_levels(d)
<1>1. sanitize_glitches(raw) = e
  BY DEF sanitize_glitches
<1>2. MadeOf(a, raw)
  BY CompactEnds
<1> HIDE DEF a
<1>3. MadeOf(b, a)
  BY <1>2, RepairMarksEnds DEF MadeOf
<1> HIDE DEF b
<1>4. MadeOf(c, b)
  BY <1>3, CompactEnds DEF MadeOf
<1> HIDE DEF c
<1>5. MadeOf(d, c)
  BY <1>4, RemoveGlitchesEnds DEF MadeOf
<1> HIDE DEF d
<1>6. MadeOf(e, d)
  BY <1>5, CompactEnds DEF MadeOf
<1> HIDE DEF e
<1>7. /\ Len(raw) \in Nat /\ Len(a) \in Nat /\ Len(b) \in Nat /\ Len(c) \in Nat
      /\ Len(d) \in Nat /\ Len(e) \in Nat
  BY <1>2, <1>3, <1>4, <1>5, <1>6 DEF MadeOf
<1>8. QED
  BY <1>1, <1>2, <1>3, <1>4, <1>5, <1>6, <1>7 DEF MadeOf

-----------------------------------------------------------------------------
(* The checksum. *)

\* Powers of two are positive, and they grow: they count subsets.
LEMMA Powers ==
  ASSUME NEW n \in Nat
  PROVE  2 ^ n \in Nat \ {0} /\ \A k \in 0 .. n - 1 : 2 ^ k < 2 ^ n
<1>1. \A m \in Nat : IsFiniteSet(1 .. m) /\ Cardinality(1 .. m) = m
  BY FS_Interval
<1>2. ASSUME NEW m \in Nat
      PROVE  /\ IsFiniteSet(SUBSET (1 .. m)) /\ Cardinality(SUBSET (1 .. m)) = 2 ^ m
             /\ 2 ^ m \in Nat \ {0}
  <2>1. IsFiniteSet(SUBSET (1 .. m)) /\ Cardinality(SUBSET (1 .. m)) = 2 ^ m
    BY <1>1, FS_SUBSET
  <2>2. SUBSET (1 .. m) # {}
    OBVIOUS
  <2>3. Cardinality(SUBSET (1 .. m)) \in Nat /\ Cardinality(SUBSET (1 .. m)) # 0
    BY <2>1, <2>2, FS_CardinalityType, FS_EmptySet
  <2>4. QED
    BY <2>1, <2>3
<1>3. ASSUME NEW k \in 0 .. n - 1 PROVE 2 ^ k < 2 ^ n
  <2>1. k \in Nat /\ 1 .. k \subseteq 1 .. n /\ n \in 1 .. n /\ n \notin 1 .. k
    OBVIOUS
  <2>2. /\ SUBSET (1 .. k) \in SUBSET SUBSET (1 .. n)
        /\ SUBSET (1 .. k) # SUBSET (1 .. n)
    BY <2>1
  <2>3. /\ Cardinality(SUBSET (1 .. k)) <= Cardinality(SUBSET (1 .. n))
        /\ Cardinality(SUBSET (1 .. k)) # Cardinality(SUBSET (1 .. n))
    BY <2>2, <1>2, FS_Subset
  <2>4. 2 ^ k \in Nat /\ 2 ^ n \in Nat /\ 2 ^ k <= 2 ^ n /\ 2 ^ k # 2 ^ n
    BY <2>1, <2>3, <1>2
  <2>5. QED
    BY <2>4
<1>4. QED
  BY <1>2, <1>3

\* What is added to a number shows in the remainder unless it is too much.
LEMMA RemainderMoves ==
  ASSUME NEW a \in Nat, NEW m \in Nat, NEW w \in Nat, 0 < w, w < m
  PROVE  (a + w) % m # a % m
<1>1. ASSUME (a + w) % m = a % m PROVE FALSE
  <2>1. /\ a \div m \in Int /\ (a + w) \div m \in Int
        /\ a = m * (a \div m) + (a % m) /\ a + w = m * ((a + w) \div m) + ((a + w) % m)
    BY SMT
  <2>2. PICK d \in Int : d = (a + w) \div m - a \div m
    BY <2>1
  <2>3. m * d = w
    BY <1>1, <2>1, <2>2, SMT
  <2>4. d <= 0 => m * d <= 0
    BY SMT
  <2>5. d >= 1 => m * d >= m
    BY SMT
  <2>6. QED
    BY <2>3, <2>4, <2>5
<1>2. QED
  BY <1>1

\* The bit that Weight adds first, and what it adds for it.
FirstBit(bits) == CHOOSE b \in bits : TRUE
BitWeight(b) == 2 ^ (b % ByteBits)

\* Finitely many bits.
SomeBits(bits) == bits \in SUBSET Nat /\ IsFiniteSet(bits)

\* f adds up the subsets of bits as Weight does.
AddsUp(f, bits) ==
  f = [s \in SUBSET bits |-> IF s = {} THEN 0
                             ELSE BitWeight(FirstBit(s)) + f[s \ {FirstBit(s)}]]

\* One bit never fills a byte.
LEMMA BitWeightType ==
  ASSUME NEW b \in Nat
  PROVE  BitWeight(b) \in Nat /\ 0 < BitWeight(b) /\ BitWeight(b) < 2 ^ ByteBits
<1>1. b % ByteBits \in 0 .. ByteBits - 1
  BY Sizes
<1>2. QED
  BY <1>1, Sizes, Powers DEF BitWeight

\* Such a sum does not depend on what else is added up elsewhere.
LEMMA SumsAgree ==
  ASSUME NEW a, NEW b, NEW f, NEW g, AddsUp(f, a), AddsUp(g, b),
         NEW bits, bits \subseteq a, bits \subseteq b, IsFiniteSet(bits)
  PROVE  f[bits] = g[bits]
<1> DEFINE T == {s \in SUBSET bits : f[s] # g[s]}
<1>1. ASSUME T # {} PROVE FALSE
  <2>1. PICK s \in T : \A u \in T : u \subseteq s => u = s
    <3>1. T \in SUBSET SUBSET bits
      OBVIOUS
    <3> HIDE DEF T
    <3>2. QED
      BY <3>1, <1>1, SmallestSet
  <2>2. s \in SUBSET a /\ s \in SUBSET b
    BY <2>1
  <2>3. s # {} => FirstBit(s) \in s
    BY DEF FirstBit
  <2>4. s # {} => s \ {FirstBit(s)} \in SUBSET bits /\ s \ {FirstBit(s)} \notin T
    BY <2>1, <2>3
  <2>5. s # {} => f[s \ {FirstBit(s)}] = g[s \ {FirstBit(s)}]
    BY <2>4
  <2>6. /\ f[s] = IF s = {} THEN 0 ELSE BitWeight(FirstBit(s)) + f[s \ {FirstBit(s)}]
        /\ g[s] = IF s = {} THEN 0 ELSE BitWeight(FirstBit(s)) + g[s \ {FirstBit(s)}]
    BY <2>2 DEF AddsUp
  <2>7. f[s] = g[s]
    BY <2>5, <2>6
  <2>8. QED
    BY <2>1, <2>7
<1>2. QED
  BY <1>1

\* Weight is such a sum.
LEMMA WeightAddsUp ==
  ASSUME NEW bits, SomeBits(bits)
  PROVE  \E f \in [SUBSET bits -> Nat] : AddsUp(f, bits) /\ f[bits] = Weight(bits)
<1> DEFINE pick == [s \in SUBSET bits |-> FirstBit(s)]
           step == [at \in bits \X Nat |-> BitWeight(at[1]) + at[2]]
           body(f, s) == IF s = {} THEN 0 ELSE BitWeight(FirstBit(s)) + f[s \ {FirstBit(s)}]
           iter == CHOOSE f : f = [s \in SUBSET bits |-> body(f, s)]
<1>1. Weight(bits) = iter[bits]
  BY DEF Weight, MapThenSumSet, MapThenFoldSet, BitWeight, FirstBit
<1>2. \A s \in SUBSET bits : s # {} => FirstBit(s) \in s
  BY DEF FirstBit
<1>3. \A x \in bits, m \in Nat : step[<<x, m>>] \in Nat
  <2>1. \A x \in bits : BitWeight(x) \in Nat
    BY BitWeightType DEF SomeBits
  <2>2. QED
    BY <2>1
<1>4. PICK f \in [SUBSET bits -> Nat] : IsFold(f, bits, 0, pick, step)
  <2>1. \A s \in SUBSET bits : s # {} => pick[s] \in s
    BY <1>2
  <2> HIDE DEF pick, step
  <2>2. QED
    BY <1>3, <2>1, FoldExists DEF SomeBits
<1>5. ASSUME NEW s \in SUBSET bits
      PROVE  (IF s = {} THEN 0 ELSE step[<<pick[s], f[s \ {pick[s]}]>>]) = body(f, s)
  <2>1. CASE s # {}
    <3>1. pick[s] = FirstBit(s) /\ FirstBit(s) \in bits /\ s \ {FirstBit(s)} \in SUBSET bits
      BY <1>2, <2>1
    <3>2. f[s \ {FirstBit(s)}] \in Nat
      BY <3>1
    <3>3. QED
      BY <3>1, <3>2
  <2>2. QED
    BY <2>1
<1>6. f = [s \in SUBSET bits |-> body(f, s)]
  <2> HIDE DEF pick, step, body
  <2>1. QED
    BY <1>4, <1>5 DEF IsFold
<1>7. iter = [s \in SUBSET bits |-> body(iter, s)]
  <2> HIDE DEF body
  <2>1. QED
    BY <1>6
<1>8. AddsUp(f, bits) /\ AddsUp(iter, bits)
  <2> HIDE DEF iter
  <2>1. QED
    BY <1>6, <1>7 DEF AddsUp
<1>9. f[bits] = iter[bits]
  <2> HIDE DEF iter
  <2>1. QED
    BY <1>8, SumsAgree DEF SomeBits
<1>10. QED
  BY <1>1, <1>8, <1>9

\* Weight is a number.
LEMMA WeightOf ==
  ASSUME NEW bits, SomeBits(bits)
  PROVE  Weight(bits) \in Nat
<1>1. PICK f \in [SUBSET bits -> Nat] : f[bits] = Weight(bits)
  BY WeightAddsUp
<1>2. QED
  BY <1>1

\* The bit that Weight adds first, and the rest.
LEMMA WeightByFirst ==
  ASSUME NEW bits, SomeBits(bits), bits # {}
  PROVE  Weight(bits) = BitWeight(FirstBit(bits)) + Weight(bits \ {FirstBit(bits)})
<1> DEFINE rest == bits \ {FirstBit(bits)}
<1>1. SomeBits(rest) /\ IsFiniteSet(rest)
  BY FS_Subset DEF SomeBits
<1>2. PICK f : AddsUp(f, bits) /\ f[bits] = Weight(bits)
  BY WeightAddsUp
<1>3. PICK g : AddsUp(g, rest) /\ g[rest] = Weight(rest)
  <2> HIDE DEF rest
  <2>1. QED
    BY <1>1, WeightAddsUp
<1>4. f[bits] = BitWeight(FirstBit(bits)) + f[rest]
  BY <1>2 DEF AddsUp
<1>5. f[rest] = g[rest]
  <2>1. rest \subseteq bits /\ rest \subseteq rest
    OBVIOUS
  <2> HIDE DEF rest
  <2>2. QED
    BY <1>1, <1>2, <1>3, <2>1, SumsAgree
<1>6. QED
  BY <1>2, <1>3, <1>4, <1>5

\* It does not matter which bit is added first.
LEMMA WeightByAny ==
  ASSUME NEW bits, SomeBits(bits), NEW any \in bits
  PROVE  Weight(bits) = BitWeight(any) + Weight(bits \ {any})
<1> DEFINE splits(s, b) == Weight(s) = BitWeight(b) + Weight(s \ {b})
           T == {s \in SUBSET bits : \E b \in s : ~splits(s, b)}
<1>1. ASSUME NEW s \in SUBSET bits
      PROVE  SomeBits(s) /\ Weight(s) \in Nat
  <2>1. SomeBits(s)
    BY FS_Subset DEF SomeBits
  <2>2. QED
    BY <2>1, WeightOf
<1>2. IsFiniteSet(bits) /\ \A b \in bits : BitWeight(b) \in Nat
  BY BitWeightType DEF SomeBits
<1>3. ASSUME T # {} PROVE FALSE
  <2>1. PICK s \in T : \A u \in T : u \subseteq s => u = s
    <3>1. T \in SUBSET SUBSET bits
      OBVIOUS
    <3> HIDE DEF T
    <3>2. QED
      BY <3>1, <1>2, <1>3, SmallestSet
  <2>2. PICK b \in s : ~splits(s, b)
    BY <2>1
  <2>3. s \in SUBSET bits /\ \A u \in SUBSET s : u # s => \A x \in u : splits(u, x)
    BY <2>1
  <2>4. PICK c : c = FirstBit(s) /\ c \in s
    BY <2>2 DEF FirstBit
  <2>5. splits(s, c)
    BY <1>1, <2>3, <2>4, WeightByFirst
  <2>6. b # c
    BY <2>2, <2>5
  <2> DEFINE u == s \ {b}
             v == s \ {c}
             w == s \ {b, c}
  <2>7. /\ u \in SUBSET s /\ u # s /\ c \in u /\ u \ {c} = w
        /\ v \in SUBSET s /\ v # s /\ b \in v /\ v \ {b} = w
        /\ w \in SUBSET bits
    BY <2>2, <2>3, <2>4, <2>6
  <2>8. splits(u, c) /\ splits(v, b)
    <3> HIDE DEF splits, u, v
    <3>1. QED
      BY <2>3, <2>7
  <2>9. /\ Weight(u) = BitWeight(c) + Weight(w) /\ Weight(v) = BitWeight(b) + Weight(w)
        /\ Weight(s) = BitWeight(c) + Weight(v)
    <3> HIDE DEF u, v, w
    <3>1. Weight(u) = BitWeight(c) + Weight(w) /\ Weight(v) = BitWeight(b) + Weight(w)
      BY <2>7, <2>8
    <3>2. Weight(s) = BitWeight(c) + Weight(v)
      BY <2>5 DEF v
    <3>3. QED
      BY <3>1, <3>2
  <2>10. BitWeight(b) \in Nat /\ BitWeight(c) \in Nat /\ Weight(w) \in Nat
    <3> HIDE DEF w
    <3>1. QED
      BY <1>1, <1>2, <2>2, <2>3, <2>4, <2>7
  <2>11. Weight(s) = BitWeight(b) + Weight(u)
    <3> HIDE DEF u, v, w
    <3>1. QED
      BY <2>9, <2>10
  <2>12. QED
    BY <2>2, <2>11
<1>4. QED
  BY <1>3

\* With one bit more a checksum is not right any more.
LEMMA OneBitMore ==
  ASSUME NEW state \in States, NEW b \in state,
         checksum_matches(state), checksum_matches(state \ {b})
  PROVE  FALSE
<1> DEFINE less == state \ {b}
           n == 2 ^ ByteBits
           w == BitWeight(b)
<1>1. /\ DataBits \in Nat /\ b \in Nat /\ n \in Nat \ {0}
      /\ w \in Nat /\ 0 < w /\ w < n
  <2>1. DataBits \in Nat /\ ByteBits \in Nat /\ b \in Nat
    BY Sizes DEF States, Bits
  <2>2. QED
    BY <2>1, BitWeightType, Powers
<1>2. \A part \in SUBSET state : SomeBits(part) /\ Weight(part) \in Nat
  <2> SUFFICES ASSUME NEW part \in SUBSET state PROVE SomeBits(part) /\ Weight(part) \in Nat
    OBVIOUS
  <2>1. part \in SUBSET Nat /\ part \in SUBSET (0 .. DataBits - 1)
    BY <1>1 DEF States, Bits
  <2>2. IsFiniteSet(0 .. DataBits - 1)
    BY <1>1, FS_Interval
  <2>3. SomeBits(part)
    BY <2>1, <2>2, FS_Subset DEF SomeBits
  <2>4. QED
    BY <2>3, WeightOf
<1>3. /\ Weight(state \cap LastByte) = Weight(state \ LastByte) % n
      /\ Weight(less \cap LastByte) = Weight(less \ LastByte) % n
  BY DEF checksum_matches
<1>4. CASE b \in LastByte
  <2>1. /\ less \ LastByte = state \ LastByte
        /\ less \cap LastByte = (state \cap LastByte) \ {b} /\ b \in state \cap LastByte
    BY <1>4
  <2>2. Weight(state \cap LastByte) = w + Weight(less \cap LastByte)
    BY <1>2, <2>1, WeightByAny
  <2>3. Weight(state \cap LastByte) = Weight(less \cap LastByte)
    BY <1>3, <2>1
  <2>4. Weight(less \cap LastByte) \in Nat
    BY <1>2
  <2>5. QED
    BY <1>1, <2>2, <2>3, <2>4
<1>5. CASE b \notin LastByte
  <2>1. /\ less \cap LastByte = state \cap LastByte
        /\ less \ LastByte = (state \ LastByte) \ {b} /\ b \in state \ LastByte
    BY <1>5
  <2>2. Weight(state \ LastByte) = w + Weight(less \ LastByte)
    BY <1>2, <2>1, WeightByAny
  <2>3. Weight(less \ LastByte) \in Nat
    BY <1>2
  <2>4. Weight(state \ LastByte) % n = Weight(less \ LastByte) % n
    BY <1>3, <2>1
  <2> HIDE DEF less, w, n
  <2>5. (Weight(less \ LastByte) + w) % n # Weight(less \ LastByte) % n
    BY <1>1, <2>3, RemainderMoves
  <2>6. Weight(less \ LastByte) + w = w + Weight(less \ LastByte)
    BY <1>1, <2>3
  <2>7. QED
    BY <2>2, <2>4, <2>5, <2>6
<1>6. QED
  BY <1>4, <1>5

\* The checksum notices every flipped bit, of the sum as well as of what it adds up:
\* two supported states never differ in one bit only (validate_mitsubishi_state).
THEOREM OneFlipIsNoticed ==
  ASSUME NEW state \in States, NEW other \in States, NEW b \in Bits,
         validate_mitsubishi_state(state), validate_mitsubishi_state(other),
         \A c \in Bits \ {b} : c \in other <=> c \in state
  PROVE  other = state
<1>1. checksum_matches(state) /\ checksum_matches(other)
  BY DEF validate_mitsubishi_state
<1>2. ASSUME b \in state, b \notin other PROVE FALSE
  <2>1. other = state \ {b}
    BY <1>2 DEF States
  <2>2. QED
    BY <1>1, <1>2, <2>1, OneBitMore
<1>3. ASSUME b \in other, b \notin state PROVE FALSE
  <2>1. state = other \ {b}
    BY <1>3 DEF States
  <2>2. QED
    BY <1>1, <1>3, <2>1, OneBitMore
<1>4. QED
  BY <1>2, <1>3 DEF States
=============================================================================
